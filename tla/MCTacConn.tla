------------------------------- MODULE MCTacConn -------------------------------
(* Small instances of TacConn. *)
EXTENDS TacConn, TLC

CONSTANTS a, b

\* Every configuration: multiplexed from the start, negotiated by the first
\* packet, and one session only.
AllModes == [LegacyMux : BOOLEAN, Mux : BOOLEAN]

\* The ids are alike; used for safety only.
IdSymmetry == Permutations(Ids)
=============================================================================
