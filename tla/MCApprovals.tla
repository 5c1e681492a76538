------------------------------ MODULE MCApprovals ------------------------------
(* Small instances of Approvals. *)
EXTENDS Approvals

\* Two periods that touch.
TwoPeriods == {[StartTime |-> 0, EndTime |-> 2], [StartTime |-> 2, EndTime |-> 4]}

CONSTANTS u1, reader
=============================================================================
