----------------------------- MODULE MCCacheSync -----------------------------
(* A small instance of CacheSync: one account, two role templates. *)
EXTENDS CacheSync, TLC

CONSTANTS u1, r1, r2, c1, p1, h1

MCHashedFrom == h1 :> p1

\* A provisioned database: the account holds both roles, of which one exists.
MCInitialDatabases ==
    {[role    |-> {r1},
      server  |-> [r \in Roles |-> Cmds],
      command |-> [r \in Roles |-> Cmds],
      user    |-> [u \in Users |-> [status   |-> StatusNormal,
                                    role     |-> Roles,
                                    password |-> h1]],
      on_duty |-> {}]}
=============================================================================
