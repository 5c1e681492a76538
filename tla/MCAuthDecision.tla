---------------------------- MODULE MCAuthDecision ----------------------------
(* Small instances of AuthDecision. *)
EXTENDS AuthDecision, TLC

CONSTANTS u1, u2, r1, r2, c1, p1, p2, h1, h2, g1, g2, g3

\* Handlers are alike; used for safety only.
HandlerSymmetry == Permutations(Handlers)

MCHashedFrom == h1 :> p1 @@ h2 :> p2

(* Two accounts with a role each; what the roles permit changes. *)
RoleSnapshot(cmds1, cmds2) ==
    u1 :> [isOnDuty |-> FALSE, role |-> r1 :> cmds1 @@ r2 :> NoRole,
           password |-> h1]
    @@ u2 :> [isOnDuty |-> FALSE, role |-> r1 :> NoRole @@ r2 :> cmds2,
              password |-> h1]

RoleSnapshots == {RoleSnapshot({c1}, {}), RoleSnapshot({}, {})}

(* One account whose password changes, that is paused, that goes on duty. *)
Login(role, hash, duty) ==
    u1 :> [isOnDuty |-> duty, role |-> r1 :> role, password |-> hash]

LoginSnapshots == {Login({c1}, h1, FALSE), Login({c1}, h2, FALSE),
                   Login(NoRole, h1, FALSE), Login(NoRole, h2, TRUE),
                   EmptySnapshot}
=============================================================================
