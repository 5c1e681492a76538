----------------------------- MODULE MCManagement -----------------------------
(***************************************************************************)
(* A small instance of the three parts of Management: the catalogue (two   *)
(* templates with three rows, one role), the duty table (two users) and    *)
(* the login limiter (two sources, one account, one bucket too few).  As   *)
(* they share nothing, part says which of them runs; the others stand      *)
(* still.                                                                  *)
(***************************************************************************)
EXTENDS Management, TLC

CONSTANTS
    t1, t2, r1,
    MaxBoth    \* bound on the catalogue's requests and events together

VARIABLES part

MCInitialRows == <<t1, t1, t2>>
MCInitialRoles == <<[name |-> r1, list |-> {t1}]>>

Symmetry == Permutations(Requests) \cup Permutations(Applications)

\* The duty table of a part that stands still starts in one state only.
DutyAtRest == roster = {} /\ whitelist = {} /\ duty = {}

MCInit ==
    /\ part \in {"catalogue", "duty", "limiter"}
    /\ ManagementInit
    /\ part # "catalogue" => kind = "server" /\ Open = {}
    /\ part # "duty" => DutyAtRest

MCNext ==
    /\ UNCHANGED part
    /\ \/ part = "catalogue" /\ CatalogueMoves /\ begun' + events' <= MaxBoth
       \/ part = "duty" /\ DutyMoves
       \/ part = "limiter" /\ LimiterMoves

MCSpec == MCInit /\ [][MCNext]_<<part, allVars>>
=============================================================================
