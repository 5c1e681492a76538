------------------------------- MODULE MCAccounts -------------------------------
(* A small instance of Accounts. *)
EXTENDS Accounts

CONSTANTS u1, q1, q2
=============================================================================
