-------------------------------- MODULE OnDuty --------------------------------
(***************************************************************************)
(* Who is on duty: each change of the external roster (the configuration   *)
(* key on_duty) makes the server cover the table tacacs_on_duty with those *)
(* of the roster who are on the white list (UpdateOnDutyUsers in           *)
(* pkg/server/permissionSystem/permissionSystem.go and                     *)
(* pkg/public/db/tacacs_on_duty.go).                                       *)
(*                                                                         *)
(* The configuration library calls a listener in a goroutine of its own    *)
(* for each change, so that two updates may run at once, each with the     *)
(* difference to the table it has read.                                    *)
(***************************************************************************)
EXTENDS Naturals

CONSTANTS
    Users,
    Updates,        \* goroutines that run UpdateOnDutyUsers
    Main,           \* the one of them that the server itself runs at start-up
    None,
    MaxRosters,     \* bound on changes of the roster
    MaxLists,       \* bound on changes of the white list
    MaxFaults       \* bound on failed statements

VARIABLES
    roster,     \* the value of on_duty
    whitelist,  \* tacacs_on_duty_white_list, which only a DBA changes
    duty,       \* tacacs_on_duty
    listening,  \* was the listener added?
    update,     \* what each update has read
    episode,    \* history: of the updates since none ran, the names that all
                \* of them want and that some of them want; did none fail?
    rosters, lists, faults

tables == <<whitelist, duty>>
bounds == <<rosters, lists, faults>>
vars   == <<roster, tables, listening, update, episode, bounds>>

Update == [phase : {"white_list", "table", "delete", "insert", "bump"},
           raw : SUBSET Users, target : SUBSET Users, present : SUBSET Users]

Running == {g \in Updates : update[g] # None}

Begun(raw) ==
    [phase |-> "white_list", raw |-> raw, target |-> {}, present |-> {}]
NewEpisode == [all |-> Users, some |-> {}, clean |-> TRUE]

\* running(): the update that the server itself makes when it starts.
Starting(raw) == [g \in Updates |-> IF g = Main THEN Begun(raw) ELSE None]

Init ==
    /\ roster \in SUBSET Users
    /\ whitelist \in SUBSET Users
    /\ duty \in SUBSET Users
    /\ listening = FALSE
    /\ update = Starting(roster)
    /\ episode = NewEpisode
    /\ rosters = 0 /\ lists = 0 /\ faults = 0

Fault ==
    /\ faults < MaxFaults
    /\ faults' = faults + 1
    /\ UNCHANGED <<rosters, lists>>

-----------------------------------------------------------------------------
(* The outside.                                                              *)

\* The roster changes.  Until the listener was added nobody is told.
ChangeRoster(new) ==
    /\ rosters < MaxRosters
    /\ new # roster
    /\ roster' = new
    /\ IF listening
       THEN /\ \E g \in Updates \ {Main} :
                   /\ update[g] = None
                   /\ update' = [update EXCEPT ![g] = Begun(new)]
            /\ episode' = IF Running = {} THEN NewEpisode ELSE episode
       ELSE UNCHANGED <<update, episode>>
    /\ rosters' = rosters + 1
    /\ UNCHANGED <<tables, listening, lists, faults>>

ChangeWhiteList(new) ==
    /\ lists < MaxLists
    /\ new # whitelist
    /\ whitelist' = new
    /\ lists' = lists + 1
    /\ UNCHANGED <<roster, duty, listening, update, episode, rosters, faults>>

-----------------------------------------------------------------------------
(* UpdateOnDutyUsers, and CoverTacacsOnDutyUser within it.                   *)

At(g, phase) == update[g] # None /\ update[g].phase = phase
Go(g, new) == update' = [update EXCEPT ![g] = new] /\ UNCHANGED listening

\* The server adds its listener when its own update has returned.
Return(g) ==
    /\ update' = [update EXCEPT ![g] = None]
    /\ listening' = (listening \/ g = Main)

\* Mutant: the white list is not applied.
Admitted(raw) == raw

Intersection(raw) == raw \cap whitelist

ReadWhiteList(g) ==
    /\ At(g, "white_list")
    /\ Go(g, [update[g] EXCEPT !.target = Intersection(update[g].raw),
                               !.phase = "table"])
    /\ LET wanted == update[g].raw \cap whitelist
       IN  episode' = [episode EXCEPT !.all = @ \cap wanted,
                                      !.some = @ \cup wanted]
    /\ UNCHANGED <<roster, tables, bounds>>

\* GetTacacsOnDutyUser has no error result: a failure may return too little.
ReadTable(g) ==
    /\ At(g, "table")
    /\ Go(g, [update[g] EXCEPT !.present = duty, !.phase = "delete"])
    /\ UNCHANGED <<roster, tables, episode, bounds>>
MissTable(g) ==
    /\ At(g, "table")
    /\ \E some \in (SUBSET duty) \ {duty} :
           Go(g, [update[g] EXCEPT !.present = some, !.phase = "delete"])
    /\ episode' = [episode EXCEPT !.clean = FALSE]
    /\ Fault
    /\ UNCHANGED <<roster, tables>>

NeedDelete(g) == update[g].present \ update[g].target
NeedAdd(g) == update[g].target \ update[g].present

\* DELETE ... WHERE user IN (needDelete), if there is any.
DeleteOld(g) ==
    /\ At(g, "delete")
    /\ duty' = duty \ NeedDelete(g)
    /\ Go(g, [update[g] EXCEPT !.phase = "insert"])
    /\ UNCHANGED <<roster, whitelist, episode, bounds>>

\* INSERT of needAdd in one statement, ...
InsertNew(g) ==
    /\ At(g, "insert")
    /\ NeedAdd(g) \cap duty = {}
    /\ duty' = duty \cup NeedAdd(g)
    /\ Go(g, [update[g] EXCEPT !.phase = "bump"])
    /\ UNCHANGED <<roster, whitelist, episode, bounds>>

\* ... which the unique key refuses as a whole if one of them is there: the
\* update returns without a bump.
InsertRefused(g) ==
    /\ At(g, "insert")
    /\ NeedAdd(g) \cap duty # {}
    /\ Return(g)
    /\ UNCHANGED <<roster, tables, episode, bounds>>

\* BumpMetaVersion, if there was anything to do (CacheSync follows what comes of
\* it, and of the bumps that InsertRefused and Fails leave out).
Bump(g) ==
    /\ At(g, "bump")
    /\ Return(g)
    /\ UNCHANGED <<roster, tables, episode, bounds>>

\* A statement whose error is seen fails, and the update returns.
Fails(g) ==
    /\ \/ At(g, "white_list")
       \/ At(g, "delete") /\ NeedDelete(g) # {}
       \/ At(g, "insert") /\ NeedAdd(g) # {}
    /\ Return(g)
    /\ Fault
    /\ episode' = [episode EXCEPT !.clean = FALSE]
    /\ UNCHANGED <<roster, tables>>

\* The server dies, between a DELETE and its INSERT perhaps, and starts again.
Restart ==
    /\ Fault
    /\ listening' = FALSE
    /\ update' = Starting(roster)
    /\ episode' = NewEpisode
    /\ UNCHANGED <<roster, tables>>

-----------------------------------------------------------------------------
UpdateOnDutyUsers(g) ==
    \/ ReadWhiteList(g) \/ ReadTable(g) \/ MissTable(g)
    \/ DeleteOld(g) \/ InsertNew(g) \/ InsertRefused(g)
    \/ Bump(g)
    \/ Fails(g)

Next ==
    \/ \E new \in SUBSET Users : ChangeRoster(new) \/ ChangeWhiteList(new)
    \/ \E g \in Updates : UpdateOnDutyUsers(g)
    \/ Restart

Spec == Init /\ [][Next]_vars

-----------------------------------------------------------------------------
TypeOK ==
    /\ roster \in SUBSET Users
    /\ whitelist \in SUBSET Users
    /\ duty \in SUBSET Users
    /\ listening \in BOOLEAN
    /\ update \in [Updates -> Update \cup {None}]
    /\ listening => update[Main] = None
    /\ episode \in [all : SUBSET Users, some : SUBSET Users, clean : BOOLEAN]
    /\ rosters \in Nat /\ lists \in Nat /\ faults \in Nat

\* Updates that overlap may leave a mixture of what they want, but no more: once
\* they have all returned, those whom every roster and the white list wanted are
\* on duty, though an INSERT was refused as a whole, and nobody is whom none of
\* them wanted.  Of a single update, the table is exactly what it wanted.
UpdatesAgree ==
    Running = {} /\ episode.clean =>
        episode.all \subseteq duty /\ duty \subseteq episode.some
=============================================================================
