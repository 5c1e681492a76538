------------------------------ MODULE MCAccessPath ------------------------------
(***************************************************************************)
(* Two small instances of AccessPath in one.  Beside an open page, one     *)
(* request of any class, while accounts change.  With a login at the start *)
(* and no page open, two requests, one for administrators and one reading, *)
(* while administrators change.                                            *)
(***************************************************************************)
EXTENDS AccessPath

CONSTANTS
    u1, r1, r2,
    PageTime      \* bound on time beside an open page

VARIABLE pages     \* which of the two

MCInit == Init /\ pages \in BOOLEAN

RequestsNext(R) ==
    \/ \E r \in R : Swm(r) \/ Serve(r)
    \/ CleanNonces
    \/ RestartServer \/ RestartSwm

WithPages ==
    \/ now < PageTime /\ Tick
    \/ \E u \in Users : Login(u) \/ Logout(u) \/ Page(u)
    \/ \E u \in Users, s \in Status : SetStatus(u, s)
    \/ \E u \in Users, class \in Classes : Arrive(r1, u, class)
    \/ RequestsNext({r1})

WithoutPages ==
    \/ Tick
    \/ now = 0 /\ \E u \in Users : Login(u)
    \/ \E u \in Users : SetAdmin(u)
    \/ \E u \in Users : Arrive(r1, u, "admin") \/ Arrive(r2, u, "read")
    \/ RequestsNext(Requests)

MCNext ==
    /\ IF pages THEN WithPages ELSE WithoutPages
    /\ UNCHANGED pages

MCSpec == MCInit /\ [][MCNext]_<<vars, pages>> /\ Fairness
=============================================================================
