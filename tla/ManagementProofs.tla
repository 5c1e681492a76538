--------------------------- MODULE ManagementProofs ---------------------------
(* Proofs about the catalogue, the duty table and the login limiter, for any   *)
(* numbers of templates, requests, updates, attempts and buckets.              *)
EXTENDS Management, FiniteSetTheorems, SequenceTheorems, TLAPS

\* A step of the whole is a step of one part, and the others stand still.
LEMMA PartsMove ==
    ASSUME [ManagementNext]_allVars
    PROVE  [Next]_vars /\ [D!Next]_dutyVars /\ [L!Next]_limiterVars
    BY DEF ManagementNext, CatalogueMoves, DutyMoves, LimiterMoves, allVars

-----------------------------------------------------------------------------
(* The duty table *)

\* What an update wants lies between what all and what some of them want.
TargetsInRange ==
    \A g \in D!Running : update[g].phase # "white_list" =>
        episode.all \subseteq update[g].target /\ update[g].target \subseteq episode.some

\* Whom all want is not deleted once an update has seen him on duty.
WantedStay ==
    \A g \in D!Running : update[g].phase \in {"delete", "insert", "bump"} =>
        episode.all \cap update[g].present \subseteq duty

\* While somebody whom all want is missing, no update has come as far as a bump,
\* and none that is about to insert can be refused.
MissingAreInserted ==
    episode.clean /\ ~(episode.all \subseteq duty) =>
        /\ D!Running # {}
        /\ \A g \in D!Running :
               /\ update[g].phase # "bump"
               /\ update[g].phase \in {"delete", "insert"} => duty \subseteq update[g].present

\* While somebody whom nobody wants is there, every update has still to delete
\* him.
UnwantedAreDeleted ==
    episode.clean /\ ~(duty \subseteq episode.some) =>
        /\ D!Running # {}
        /\ \A g \in D!Running :
               /\ update[g].phase \in {"white_list", "table", "delete"}
               /\ update[g].phase = "delete" => duty \ episode.some \subseteq update[g].present

DutyInv ==
    /\ D!TypeOK
    /\ TargetsInRange /\ WantedStay
    /\ MissingAreInserted /\ UnwantedAreDeleted

-----------------------------------------------------------------------------
\* A start, of the program or of the server, makes one update.
LEMMA DutyStarts ==
    ASSUME NEW raw \in SUBSET Users
    PROVE  /\ D!Starting(raw) \in [Updates -> D!Update \cup {None}]
           /\ \A g \in Updates : D!Starting(raw)[g] # None =>
                  g = Main /\ D!Starting(raw)[g].phase = "white_list"
           /\ D!Starting(raw)[Main] # None
<1>1. D!Begun(raw) \in D!Update /\ D!Begun(raw).phase = "white_list"
    BY DEF D!Begun, D!Update
<1> QED
    BY <1>1, DutyAssumption DEF D!Starting

\* What an update is at each phase, once it is named.
LEMMA DutyRecord ==
    ASSUME D!TypeOK, NEW g \in Updates, update[g] # None
    PROVE  update[g] \in D!Update
    BY DEF D!TypeOK

\* No update has read anything yet.
LEMMA DutyInit == D!Init => DutyInv
<1> SUFFICES ASSUME D!Init PROVE DutyInv
    OBVIOUS
<1>1. /\ update = D!Starting(roster) /\ roster \in SUBSET Users
      /\ listening = FALSE /\ episode = D!NewEpisode
    BY DEF D!Init
<1>2. D!TypeOK
    <2>1. episode \in [all : SUBSET Users, some : SUBSET Users, clean : BOOLEAN]
        BY <1>1 DEF D!NewEpisode
    <2> QED
        BY <1>1, <2>1, DutyStarts DEF D!Init, D!TypeOK
<1>3. /\ \A g \in D!Running : update[g].phase = "white_list"
      /\ D!Running # {}
    BY <1>1, DutyStarts, DutyAssumption DEF D!Running
<1> QED
    BY <1>2, <1>3
    DEF DutyInv, TargetsInRange, WantedStay, MissingAreInserted, UnwantedAreDeleted

\* What has to be shown of a step that changes one update: it keeps its type,
\* and the claims of the others still hold of the duty table it leaves.
LEMMA DutyStepOf ==
    ASSUME DutyInv, NEW g \in Updates, NEW new \in D!Update \cup {None},
           update' = [update EXCEPT ![g] = new]
    PROVE  /\ update' \in [Updates -> D!Update \cup {None}]
           /\ update'[g] = new
           /\ \A f \in Updates \ {g} : update'[f] = update[f]
           /\ new = None => D!Running' = D!Running \ {g}
           /\ new # None => D!Running' = D!Running \cup {g}
           /\ new # None /\ g \in D!Running => D!Running' = D!Running
    BY DEF DutyInv, D!TypeOK, D!Running

\* The roster and the white list change; a listener may begin an update.
LEMMA DutyOutside ==
    ASSUME DutyInv, NEW new \in SUBSET Users,
           D!ChangeRoster(new) \/ D!ChangeWhiteList(new)
    PROVE  DutyInv'
<1> USE DEF D!tables, D!bounds
<1>1. CASE UNCHANGED <<duty, listening, update, episode, dutyFaults>>
    <2>1. UNCHANGED D!Running
        BY <1>1 DEF D!Running
    <2>2. D!TypeOK'
        BY <1>1 DEF D!ChangeRoster, D!ChangeWhiteList, DutyInv, D!TypeOK
    <2> QED
        BY <1>1, <2>1, <2>2
        DEF DutyInv, TargetsInRange, WantedStay, MissingAreInserted, UnwantedAreDeleted
<1>2. ASSUME NEW g \in Updates \ {Main}, update[g] = None, listening,
             update' = [update EXCEPT ![g] = D!Begun(new)],
             episode' = IF D!Running = {} THEN D!NewEpisode ELSE episode,
             D!ChangeRoster(new)
      PROVE  DutyInv'
    <2>1. D!Begun(new) \in D!Update /\ D!Begun(new).phase = "white_list"
        BY DEF D!Begun, D!Update
    <2>2. /\ update' \in [Updates -> D!Update \cup {None}]
          /\ update'[g] = D!Begun(new)
          /\ \A f \in Updates \ {g} : update'[f] = update[f]
          /\ D!Running' = D!Running \cup {g}
        BY <1>2, <2>1, DutyStepOf, DutyAssumption
    <2>3. UNCHANGED <<whitelist, duty, listening, lists, dutyFaults>> /\ roster' = new
          /\ rosters' = rosters + 1
        BY <1>2 DEF D!ChangeRoster
    <2>4. D!TypeOK'
        <3>1. episode' \in [all : SUBSET Users, some : SUBSET Users, clean : BOOLEAN]
            BY <1>2 DEF DutyInv, D!TypeOK, D!NewEpisode
        <3>2. update'[Main] = None
            BY <1>2, <2>2, DutyAssumption DEF DutyInv, D!TypeOK
        <3> QED
            BY <2>2, <2>3, <3>1, <3>2 DEF DutyInv, D!TypeOK
    <2>5. CASE D!Running = {}
        BY <2>1, <2>2, <2>4, <2>5
        DEF DutyInv, TargetsInRange, WantedStay, MissingAreInserted, UnwantedAreDeleted
    <2>6. CASE D!Running # {}
        <3>1. episode' = episode /\ duty' = duty
            BY <1>2, <2>3, <2>6
        <3>2. g \notin D!Running
            BY <1>2 DEF D!Running
        <3>3. \A f \in D!Running : update'[f] = update[f]
            BY <2>2, <3>2 DEF D!Running
        <3>4. TargetsInRange' /\ WantedStay'
            BY <2>1, <2>2, <3>1, <3>3 DEF DutyInv, TargetsInRange, WantedStay
        <3>5. MissingAreInserted'
            BY <2>1, <2>2, <3>1, <3>3 DEF DutyInv, MissingAreInserted
        <3>6. UnwantedAreDeleted'
            BY <2>1, <2>2, <3>1, <3>3 DEF DutyInv, UnwantedAreDeleted
        <3> QED
            BY <2>4, <3>4, <3>5, <3>6 DEF DutyInv
    <2> QED
        BY <2>5, <2>6
<1> QED
    BY <1>1, <1>2 DEF D!ChangeRoster, D!ChangeWhiteList

\* Reading the white list and the table.
LEMMA DutyReads ==
    ASSUME DutyInv, NEW g \in Updates,
           D!ReadWhiteList(g) \/ D!ReadTable(g) \/ D!MissTable(g)
    PROVE  DutyInv'
<1> USE DEF D!tables, D!bounds
<1>1. D!TypeOK /\ update[g] \in D!Update /\ g \in D!Running
    BY DutyRecord DEF DutyInv, D!ReadWhiteList, D!ReadTable, D!MissTable, D!At, D!Running
<1>2. ASSUME D!ReadWhiteList(g)
      PROVE  DutyInv'
    <2> DEFINE wanted == update[g].raw \cap whitelist
               new == [update[g] EXCEPT !.target = wanted, !.phase = "table"]
    <2>1. /\ update[g].phase = "white_list" /\ update' = [update EXCEPT ![g] = new]
          /\ episode' = [episode EXCEPT !.all = @ \cap wanted, !.some = @ \cup wanted]
          /\ UNCHANGED <<roster, whitelist, duty, listening, rosters, lists, dutyFaults>>
        BY <1>2 DEF D!ReadWhiteList, D!At, D!Go, D!Intersection
    <2>2. new \in D!Update /\ new # None /\ new.phase = "table" /\ new.target = wanted
        BY <1>1, DutyAssumption DEF D!Update
    <2> HIDE DEF new
    <2>3. /\ update' \in [Updates -> D!Update \cup {None}]
          /\ update'[g] = new
          /\ \A f \in Updates \ {g} : update'[f] = update[f]
          /\ D!Running' = D!Running
        BY <1>1, <2>1, <2>2, DutyStepOf
    <2>4. /\ episode' \in [all : SUBSET Users, some : SUBSET Users, clean : BOOLEAN]
          /\ episode'.all = episode.all \cap wanted /\ episode'.some = episode.some \cup wanted
          /\ episode'.clean = episode.clean
        BY <1>1, <2>1 DEF D!TypeOK, D!Update
    <2>5. D!TypeOK'
        BY <1>1, <2>1, <2>3, <2>4 DEF D!TypeOK, D!Running
    <2>6. TargetsInRange' /\ WantedStay'
        BY <2>1, <2>2, <2>3, <2>4 DEF DutyInv, TargetsInRange, WantedStay, D!Running
    <2>7. MissingAreInserted'
        BY <2>1, <2>2, <2>3, <2>4 DEF DutyInv, MissingAreInserted, D!Running
    <2>8. UnwantedAreDeleted'
        BY <2>1, <2>2, <2>3, <2>4 DEF DutyInv, UnwantedAreDeleted, D!Running
    <2> QED
        BY <2>5, <2>6, <2>7, <2>8 DEF DutyInv
<1>3. ASSUME NEW seen \in SUBSET duty, D!At(g, "table"),
             D!Go(g, [update[g] EXCEPT !.present = seen, !.phase = "delete"]),
             UNCHANGED <<roster, whitelist, duty, rosters, lists>>, dutyFaults' \in Nat,
             \/ seen = duty /\ UNCHANGED episode
             \/ episode' = [episode EXCEPT !.clean = FALSE]
      PROVE  DutyInv'
    <2> DEFINE new == [update[g] EXCEPT !.present = seen, !.phase = "delete"]
    <2>1. update[g].phase = "table" /\ update' = [update EXCEPT ![g] = new]
          /\ listening' = listening
        BY <1>3 DEF D!At, D!Go
    <2>2. /\ new \in D!Update /\ new # None /\ new.phase = "delete" /\ new.present = seen
          /\ new.target = update[g].target
        BY <1>1, <1>3, DutyAssumption DEF D!Update, D!TypeOK
    <2> HIDE DEF new
    <2>3. /\ update' \in [Updates -> D!Update \cup {None}]
          /\ update'[g] = new
          /\ \A f \in Updates \ {g} : update'[f] = update[f]
          /\ D!Running' = D!Running
        BY <1>1, <2>1, <2>2, DutyStepOf
    <2>4. /\ episode' \in [all : SUBSET Users, some : SUBSET Users, clean : BOOLEAN]
          /\ episode'.all = episode.all /\ episode'.some = episode.some
          /\ episode'.clean => episode.clean /\ seen = duty
        BY <1>1, <1>3 DEF D!TypeOK
    <2>5. D!TypeOK'
        BY <1>1, <1>3, <2>1, <2>3, <2>4 DEF D!TypeOK, D!Running
    <2>6. TargetsInRange'
        BY <1>1, <2>1, <2>2, <2>3, <2>4 DEF DutyInv, TargetsInRange, D!Running
    <2>7. WantedStay'
        BY <1>3, <2>2, <2>3, <2>4 DEF DutyInv, WantedStay, D!Running
    <2>8. MissingAreInserted'
        BY <1>3, <2>2, <2>3, <2>4 DEF DutyInv, MissingAreInserted, D!Running
    <2>9. UnwantedAreDeleted'
        BY <1>3, <2>2, <2>3, <2>4 DEF DutyInv, UnwantedAreDeleted, D!Running
    <2> QED
        BY <2>5, <2>6, <2>7, <2>8, <2>9 DEF DutyInv
<1>4. CASE D!ReadTable(g)
    BY <1>1, <1>3, <1>4 DEF D!ReadTable, D!TypeOK
<1>5. CASE D!MissTable(g)
    <2>1. PICK seen \in SUBSET duty :
              D!Go(g, [update[g] EXCEPT !.present = seen, !.phase = "delete"])
        BY <1>5 DEF D!MissTable
    <2>2. /\ D!At(g, "table") /\ UNCHANGED <<roster, whitelist, duty>> /\ D!Fault
          /\ episode' = [episode EXCEPT !.clean = FALSE]
        BY <1>5 DEF D!MissTable
    <2>3. dutyFaults' \in Nat /\ UNCHANGED <<rosters, lists>>
        BY <1>1, <2>2 DEF D!Fault, D!TypeOK
    <2> QED
        BY <1>3, <2>1, <2>2, <2>3
<1> QED
    BY <1>2, <1>4, <1>5

\* DELETE and INSERT: the one spares whom all want and removes whom none wants,
\* the other adds whom all want.
LEMMA DutyWrites ==
    ASSUME DutyInv, NEW g \in Updates, D!DeleteOld(g) \/ D!InsertNew(g)
    PROVE  DutyInv'
<1> USE DEF D!tables, D!bounds
<1> DEFINE next == IF update[g].phase = "delete" THEN "insert" ELSE "bump"
           new == [update[g] EXCEPT !.phase = next]
<1>1. D!TypeOK /\ update[g] \in D!Update /\ g \in D!Running
    BY DutyRecord DEF DutyInv, D!DeleteOld, D!InsertNew, D!At, D!Running
<1>2. /\ update' = [update EXCEPT ![g] = new]
      /\ UNCHANGED <<roster, whitelist, listening, episode, rosters, lists, dutyFaults>>
    BY DEF D!DeleteOld, D!InsertNew, D!At, D!Go
<1>3. /\ new \in D!Update /\ new # None /\ new.phase = next
      /\ new.target = update[g].target /\ new.present = update[g].present
    BY <1>1, DutyAssumption DEF D!Update
<1> HIDE DEF new
<1>4. /\ update' \in [Updates -> D!Update \cup {None}]
      /\ update'[g] = new
      /\ \A f \in Updates \ {g} : update'[f] = update[f]
      /\ D!Running' = D!Running
    BY <1>1, <1>2, <1>3, DutyStepOf
<1>5. /\ \A f \in D!Running : /\ f \in Updates /\ update'[f].target = update[f].target
                              /\ update'[f].present = update[f].present
      /\ \A f \in D!Running \ {g} : update'[f] = update[f]
    BY <1>3, <1>4 DEF D!Running
<1>6. CASE D!DeleteOld(g)
    <2>1. /\ update[g].phase = "delete" /\ new.phase = "insert"
          /\ duty' = duty \ (update[g].present \ update[g].target)
        BY <1>3, <1>6 DEF D!DeleteOld, D!At, D!NeedDelete
    <2>2. D!TypeOK'
        BY <1>1, <1>2, <1>4, <2>1 DEF D!TypeOK, D!Running
    <2>3. episode.all \subseteq update[g].target /\ update[g].target \subseteq episode.some
        BY <1>1, <2>1 DEF DutyInv, TargetsInRange
    <2>4. TargetsInRange'
        BY <1>2, <1>4, <1>5, <2>1, <2>3 DEF DutyInv, TargetsInRange
    <2>5. WantedStay'
        BY <1>1, <1>2, <1>4, <1>5, <2>1, <2>3 DEF DutyInv, WantedStay
    <2>6. MissingAreInserted'
        BY <1>1, <1>2, <1>4, <1>5, <2>1, <2>3 DEF DutyInv, MissingAreInserted
    <2>7. UnwantedAreDeleted'
        BY <1>1, <1>2, <1>4, <1>5, <2>1, <2>3 DEF DutyInv, UnwantedAreDeleted
    <2> QED
        BY <2>2, <2>4, <2>5, <2>6, <2>7 DEF DutyInv
<1>7. CASE D!InsertNew(g)
    <2>1. /\ update[g].phase = "insert" /\ new.phase = "bump"
          /\ duty' = duty \cup (update[g].target \ update[g].present)
        BY <1>3, <1>7 DEF D!InsertNew, D!At, D!NeedAdd
    <2>2. D!TypeOK'
        BY <1>1, <1>2, <1>4, <2>1 DEF D!TypeOK, D!Running, D!Update
    <2>3. episode.all \subseteq update[g].target /\ update[g].target \subseteq episode.some
        BY <1>1, <2>1 DEF DutyInv, TargetsInRange
    <2>4. TargetsInRange'
        BY <1>2, <1>4, <1>5, <2>1, <2>3 DEF DutyInv, TargetsInRange
    <2>5. WantedStay'
        BY <1>1, <1>2, <1>4, <1>5, <2>1 DEF DutyInv, WantedStay
    <2>6. episode.all \subseteq duty'
        BY <1>1, <2>1, <2>3 DEF DutyInv, WantedStay
    <2>7. MissingAreInserted'
        BY <1>2, <2>6 DEF MissingAreInserted
    <2>8. UnwantedAreDeleted'
        BY <1>1, <1>2, <1>4, <1>5, <2>1, <2>3 DEF DutyInv, UnwantedAreDeleted
    <2> QED
        BY <2>2, <2>4, <2>5, <2>7, <2>8 DEF DutyInv
<1> QED
    BY <1>6, <1>7

\* An update returns after its bump, its refused INSERT or a failed statement.
LEMMA DutyReturns ==
    ASSUME DutyInv, NEW g \in Updates,
           D!InsertRefused(g) \/ D!Bump(g) \/ D!Fails(g)
    PROVE  DutyInv'
<1> USE DEF D!tables, D!bounds
<1>1. D!TypeOK /\ update[g] \in D!Update /\ g \in D!Running
    BY DutyRecord DEF DutyInv, D!InsertRefused, D!Bump, D!Fails, D!At, D!Running
<1>2. /\ update' = [update EXCEPT ![g] = None] /\ listening' = (listening \/ g = Main)
      /\ UNCHANGED <<roster, whitelist, duty>>
    BY DEF D!InsertRefused, D!Bump, D!Fails, D!Return
<1>3. /\ update' \in [Updates -> D!Update \cup {None}]
      /\ update'[g] = None
      /\ \A f \in Updates \ {g} : update'[f] = update[f]
      /\ D!Running' = D!Running \ {g}
    BY <1>2, DutyStepOf
<1>4. /\ episode' \in [all : SUBSET Users, some : SUBSET Users, clean : BOOLEAN]
      /\ episode'.all = episode.all /\ episode'.some = episode.some
      /\ episode'.clean => UNCHANGED episode /\ ~D!Fails(g)
    BY <1>1 DEF D!InsertRefused, D!Bump, D!Fails, D!TypeOK
<1>5. D!TypeOK'
    <2>1. rosters' \in Nat /\ lists' \in Nat /\ dutyFaults' \in Nat
        BY <1>1 DEF D!InsertRefused, D!Bump, D!Fails, D!Fault, D!TypeOK
    <2>2. listening' => update'[Main] = None
        BY <1>1, <1>2, <1>3, DutyAssumption DEF D!TypeOK
    <2> QED
        BY <1>1, <1>2, <1>3, <1>4, <2>1, <2>2 DEF D!TypeOK
<1>6. \A f \in D!Running' : f \in D!Running /\ update'[f] = update[f]
    BY <1>3 DEF D!Running
<1>7. TargetsInRange'
    BY <1>4, <1>6 DEF DutyInv, TargetsInRange
<1>8. WantedStay'
    BY <1>2, <1>4, <1>6 DEF DutyInv, WantedStay
<1>9. \* Nobody is missing when an update returns without a failed statement.
      D!InsertRefused(g) \/ D!Bump(g) =>
          (episode.clean => episode.all \subseteq duty /\ duty \subseteq episode.some)
    <2>1. CASE D!Bump(g)
        BY <1>1, <2>1 DEF D!Bump, D!At, DutyInv, MissingAreInserted, UnwantedAreDeleted
    <2>2. CASE D!InsertRefused(g)
        <3>1. /\ update[g].phase = "insert"
              /\ (update[g].target \ update[g].present) \cap duty # {}
            BY <2>2 DEF D!InsertRefused, D!At, D!NeedAdd
        <3> QED
            BY <1>1, <3>1 DEF DutyInv, MissingAreInserted, UnwantedAreDeleted
    <2> QED
        BY <2>1, <2>2
<1>10. MissingAreInserted' /\ UnwantedAreDeleted'
    BY <1>2, <1>4, <1>9 DEF MissingAreInserted, UnwantedAreDeleted
<1> QED
    BY <1>5, <1>7, <1>8, <1>10 DEF DutyInv

\* The server starts again with one update.
LEMMA DutyRestarts ==
    ASSUME DutyInv, D!Restart
    PROVE  DutyInv'
<1> USE DEF D!tables
<1>1. /\ D!TypeOK /\ update' = D!Starting(roster) /\ listening' = FALSE
      /\ episode' = D!NewEpisode /\ UNCHANGED <<roster, whitelist, duty>>
    BY DEF DutyInv, D!Restart
<1>2. rosters' \in Nat /\ lists' \in Nat /\ dutyFaults' \in Nat
    BY <1>1 DEF D!Restart, D!Fault, D!TypeOK
<1>3. episode' \in [all : SUBSET Users, some : SUBSET Users, clean : BOOLEAN]
    BY <1>1 DEF D!NewEpisode
<1>4. D!TypeOK'
    BY <1>1, <1>2, <1>3, DutyStarts DEF D!TypeOK
<1>5. /\ \A g \in D!Running' : update'[g].phase = "white_list"
      /\ D!Running' # {}
    BY <1>1, DutyStarts, DutyAssumption DEF D!Running, D!TypeOK
<1> QED
    BY <1>4, <1>5
    DEF DutyInv, TargetsInRange, WantedStay, MissingAreInserted, UnwantedAreDeleted

\* Every step keeps the invariant.
LEMMA DutyInductive == DutyInv /\ [D!Next]_dutyVars => DutyInv'
<1> SUFFICES ASSUME DutyInv, [D!Next]_dutyVars PROVE DutyInv'
    OBVIOUS
<1>1. ASSUME NEW g \in Updates, D!UpdateOnDutyUsers(g) PROVE DutyInv'
    BY <1>1, DutyReads, DutyWrites, DutyReturns DEF D!UpdateOnDutyUsers
<1>2. CASE UNCHANGED dutyVars
    <2>1. D!TypeOK'
        BY <1>2 DEF dutyVars, DutyInv, D!TypeOK
    <2> QED
        BY <1>2, <2>1
        DEF dutyVars, DutyInv, D!Running, TargetsInRange, WantedStay,
            MissingAreInserted, UnwantedAreDeleted
<1> QED
    BY <1>1, <1>2, DutyOutside, DutyRestarts DEF D!Next

\* Every state of the duty table satisfies its invariant.
LEMMA DutyHolds == ManagementSpec => []DutyInv
<1>1. ManagementInit => DutyInv
    BY DutyInit DEF ManagementInit
<1>2. DutyInv /\ [ManagementNext]_allVars => DutyInv'
    BY DutyInductive, PartsMove
<1> QED
    BY <1>1, <1>2, PTL DEF ManagementSpec

\* Once overlapping updates of the duty table have all returned, and no statement
\* of theirs failed, everybody is on duty whom all of them wanted, and nobody whom
\* none of them wanted.
THEOREM UpdatesDoAgree == ManagementSpec => []UpdatesAgree
<1>1. DutyInv => UpdatesAgree
    BY DEF DutyInv, MissingAreInserted, UnwantedAreDeleted, UpdatesAgree, D!UpdatesAgree
<1> QED
    BY <1>1, DutyHolds, PTL

-----------------------------------------------------------------------------
(* The catalogue *)

\* What a request of each kind consists of by the time it matters.
Shape(q) ==
    /\ request[q].op = "add" => request[q].left >= 1
    /\ request[q].phase \in {"details", "insert"} => request[q].op = "add"
    /\ request[q].phase \in {"held", "lists"} =>
           request[q].op \in {"add", "delete id", "delete"}
    /\ request[q].phase \in {"exists", "count", "referenced", "delete"} =>
           request[q].op \in {"delete id", "delete"}
    /\ request[q].phase \in {"absent", "templates"} => request[q].r \in Roles
    /\ request[q].op = "delete id" =>
           /\ request[q].id \in Ids
           /\ request[q].phase \in {"count", "referenced", "delete"} =>
                  request[q].t # None /\ rows[request[q].id] \in {None, request[q].t}

\* An application that was open ever since gave its role to the list of those under
\* review, or is still passed when the second list is read.
WantedAreSeen(q) ==
    \A a \in since[q].open :
        /\ request[q].phase = "pass" =>
               approvals[a].role \in request[q].names \/ a \in In("pass")
        /\ request[q].phase = "drop" => approvals[a].role \in request[q].names

\* The template a request is about; by id, it is that of the row.
Subject(q) ==
    IF request[q].op = "delete id" /\ request[q].phase = "exists"
    THEN rows[request[q].id] ELSE request[q].t

\* A role held ever since is still to be asked for, or its list is known; after
\* that the request is not about the template the role consists of.
HeldAreSeen(q) ==
    \A shield \in since[q].shields :
        /\ request[q].phase = "lists" =>
               shield.role \in request[q].names \/ shield.lists \subseteq request[q].used
        /\ request[q].phase \in {"details", "insert", "exists", "count", "referenced", "delete"} =>
               {Subject(q)} \notin shield.lists

\* What a request has found is still so, if no other has written since.
FindingsHold(q) ==
    /\ request[q].phase = "templates" =>
           /\ Named(request[q].r) = {}
           /\ \A t \in request[q].list \ request[q].names : RowsOf(t) # {}
    /\ request[q].phase = "delete" /\ request[q].op = "delete id" =>
           \/ ~Referenced(request[q].t)
           \/ \E i, j \in RowsOf(request[q].t) : i # j

RequestSound(q) ==
    request[q] # None =>
        /\ Shape(q)
        /\ since[q].open \subseteq Open /\ since[q].shields \subseteq Shields
        /\ ~request[q].blind => WantedAreSeen(q) /\ HeldAreSeen(q)
        /\ ~request[q].blind /\ since[q].alone => FindingsHold(q)

CatalogueInv == TypeOK /\ \A q \in Requests : RequestSound(q)

-----------------------------------------------------------------------------
\* What the tables hold.
TablesOK ==
    /\ rows \in Seq(Templates \cup {None})
    /\ roles \in Seq(RoleRow \cup {None})
    /\ held \in SUBSET Roles

TableEntries ==
    /\ Ids \subseteq Nat /\ \A i \in Ids : rows[i] \in Templates \cup {None}
    /\ \A i \in RoleIds : roles[i] \in RoleRow
    /\ \A r \in Roles : ListOf(r) \subseteq SUBSET Templates
    /\ Open \subseteq Applications
    /\ Shields \subseteq [role : Roles, lists : SUBSET SUBSET Templates]
    /\ \A shield \in Shields : shield.role \in held /\ shield.lists = ListOf(shield.role)

\* What the tables give to a request that reads them.
LEMMA TableFacts == TablesOK => TableEntries
<1> SUFFICES ASSUME TablesOK PROVE TableEntries
    OBVIOUS
<1>1. Ids \subseteq Nat /\ \A i \in Ids : rows[i] \in Templates \cup {None}
    BY DEF Ids, TablesOK
<1>2. \A i \in RoleIds : roles[i] \in RoleRow
    BY DEF RoleIds, TablesOK
<1>3. \A r \in Roles : ListOf(r) \subseteq SUBSET Templates
    BY <1>2 DEF ListOf, Named, RoleRow
<1>4. held \subseteq Roles
    BY DEF TablesOK
<1> QED
    BY <1>1, <1>2, <1>3, <1>4 DEF Open, In, Shields, TableEntries

\* The same after a step.
LEMMA TableFactsLater == TablesOK' => TableEntries'
    BY TableFacts, PTL

\* The tables of a typed state.
LEMMA TypedTables == TypeOK => TablesOK /\ TableEntries
    BY TableFacts DEF TypeOK, TablesOK

\* What a step leaves of the rows and the approvals that others rely on.
Gentle ==
    /\ \A i \in Ids : i \in Ids' /\ rows'[i] \in {rows[i], None}
    /\ \A a \in Open \cap Open' :
           /\ approvals'[a].role = approvals[a].role
           /\ a \in In("pass") => a \in In("pass")'

\* The history of a request that goes on.
LEMMA Remembered ==
    ASSUME CatalogueInv, Remember, TypeOK', NEW q \in Requests,
           request[q] # None, request'[q] # None
    PROVE  /\ since'[q].open \subseteq since[q].open
           /\ since'[q].shields \subseteq since[q].shields
           /\ since'[q].open \subseteq Open' /\ since'[q].shields \subseteq Shields'
           /\ since'[q].alone => /\ since[q].alone
                                 /\ request'[q] = request[q] => tables' = tables
    BY DEF Remember

\* A request that does nothing in a step loses nothing by it.
LEMMA OthersSound ==
    ASSUME CatalogueInv, TypeOK', Remember, Gentle,
           NEW q \in Requests, request'[q] = request[q]
    PROVE  RequestSound(q)'
<1> SUFFICES ASSUME request[q] # None PROVE RequestSound(q)'
    BY DEF RequestSound
<1>1. /\ TypeOK /\ RequestSound(q) /\ request[q] \in RequestRecord
    BY DEF CatalogueInv, TypeOK
<1>2. /\ since'[q].open \subseteq since[q].open
      /\ since'[q].shields \subseteq since[q].shields
      /\ since'[q].open \subseteq Open' /\ since'[q].shields \subseteq Shields'
      /\ since'[q].alone => since[q].alone /\ tables' = tables
    BY Remembered
<1>3. Shape(q)'
    BY <1>1 DEF RequestSound, Shape, Gentle
<1>4. ASSUME ~request[q].blind
      PROVE  WantedAreSeen(q)'
    <2>1. \A a \in since'[q].open : a \in since[q].open /\ a \in Open \cap Open'
        BY <1>1, <1>2 DEF RequestSound
    <2> QED
        BY <1>1, <1>4, <2>1 DEF RequestSound, WantedAreSeen, Gentle
<1>5. ASSUME ~request[q].blind
      PROVE  HeldAreSeen(q)'
    <2>1. \A shield \in since[q].shields : {None} \notin shield.lists
        <3>1. \A shield \in since[q].shields : shield.lists \subseteq SUBSET Templates
            BY <1>1, TypedTables DEF RequestSound, TableEntries
        <3> QED
            BY <3>1, CatalogueAssumption
    <2>2. Subject(q)' \in {Subject(q), None}
        BY <1>1 DEF Subject, RequestSound, Shape, Gentle
    <2> QED
        BY <1>1, <1>2, <1>5, <2>1, <2>2 DEF RequestSound, HeldAreSeen
<1>6. ASSUME ~request[q].blind, since'[q].alone
      PROVE  FindingsHold(q)'
    <2>1. rows' = rows /\ roles' = roles
        BY <1>2, <1>6 DEF tables
    <2> QED
        BY <1>1, <1>2, <1>6, <2>1
        DEF RequestSound, FindingsHold, Named, RoleIds, RowsOf, Ids, Referenced
<1> QED
    BY <1>2, <1>3, <1>4, <1>5, <1>6 DEF RequestSound

\* The types after a step in which a request moves or ends.
LEMMA TypesKept ==
    ASSUME TypeOK, Remember, TablesOK', request' \in [Requests -> RequestRecord \cup {None}],
           kind' = kind, approvals' \in [Applications -> Application \cup {None}],
           begun' \in Nat, events' \in Nat, faults' \in Nat
    PROVE  TypeOK'
<1>1. TableEntries'
    BY TableFactsLater
<1>2. ASSUME NEW q \in Requests, request'[q] # None
      PROVE  since'[q] \in Memory
    <2>1. Open' \in SUBSET Applications
          /\ Shields' \in SUBSET [role : Roles, lists : SUBSET SUBSET Templates]
        BY <1>1 DEF TableEntries
    <2>2. CASE request[q] = None
        BY <1>2, <2>1, <2>2 DEF Remember, Memory
    <2>3. CASE request[q] # None
        <3>1. since'[q] = [open    |-> since[q].open \cap Open',
                           shields |-> since[q].shields \cap Shields',
                           alone   |-> since[q].alone /\ \/ tables' = tables
                                                         \/ request'[q] # request[q]]
            BY <1>2, <2>3 DEF Remember
        <3>2. since[q].alone \in BOOLEAN
            BY <2>3 DEF TypeOK, Memory
        <3> QED
            BY <2>1, <3>1, <3>2 DEF Memory
    <2> QED
        BY <2>2, <2>3
<1> QED
    BY <1>2 DEF TypeOK, TablesOK

\* What has to be shown of a step of one request.
LEMMA RequestStepOf ==
    ASSUME CatalogueInv, Remember, TypeOK', Gentle, NEW q \in Requests,
           \A f \in Requests \ {q} : request'[f] = request[f],
           RequestSound(q)'
    PROVE  CatalogueInv'
<1>1. \A f \in Requests \ {q} : RequestSound(f)'
    BY OthersSound
<1> QED
    BY <1>1 DEF CatalogueInv

\* A step that writes no table is gentle.
LEMMA ReadsAreGentle ==
    ASSUME TypeOK, UNCHANGED <<tables, others>>
    PROVE  Gentle
    BY DEF Gentle, tables, others, Ids, Open, In

\* What has to be shown of a request that only reads and goes on as new.
LEMMA ReadStepOf ==
    ASSUME CatalogueInv, Remember, NEW q \in Requests, request[q] # None,
           NEW new \in RequestRecord, request' = [request EXCEPT ![q] = new],
           Reads, faults' \in Nat,
           \* The claims, with the tables and the history before the step.
           new.op = request[q].op, new.id = request[q].id,
           new.r = request[q].r, new.left = request[q].left,
           new.phase \in {"details", "insert"} => new.op = "add",
           new.phase \in {"held", "lists"} => new.op \in {"add", "delete id", "delete"},
           new.phase \in {"exists", "count", "referenced", "delete"} =>
               new.op \in {"delete id", "delete"},
           new.phase \in {"absent", "templates"} => new.r \in Roles,
           new.op = "delete id" /\ new.phase \in {"count", "referenced", "delete"} =>
               new.t # None /\ rows[new.id] \in {None, new.t},
           ~new.blind => ~request[q].blind,
           ~new.blind => \A a \in since[q].open :
               /\ new.phase = "pass" =>
                      approvals[a].role \in new.names \/ a \in In("pass")
               /\ new.phase = "drop" => approvals[a].role \in new.names,
           ~new.blind => \A shield \in since[q].shields :
               /\ new.phase = "lists" =>
                      shield.role \in new.names \/ shield.lists \subseteq new.used
               /\ new.phase \in {"details", "insert", "exists", "count", "referenced", "delete"} =>
                      {IF new.op = "delete id" /\ new.phase = "exists"
                       THEN rows[new.id] ELSE new.t} \notin shield.lists,
           ~new.blind /\ since[q].alone =>
               /\ new.phase = "templates" =>
                      /\ Named(new.r) = {}
                      /\ \A t \in new.list \ new.names : RowsOf(t) # {}
               /\ new.phase = "delete" /\ new.op = "delete id" =>
                      \/ ~Referenced(new.t)
                      \/ \E i, j \in RowsOf(new.t) : i # j
    PROVE  CatalogueInv'
<1>1. TypeOK /\ RequestSound(q) /\ new # None
    BY CatalogueAssumption DEF CatalogueInv
<1>2. UNCHANGED <<tables, others, rows, roles, approvals, held, kind, begun, events>>
    BY DEF Reads, tables, others
<1>3. /\ request' \in [Requests -> RequestRecord \cup {None}]
      /\ request'[q] = new
      /\ \A f \in Requests \ {q} : request'[f] = request[f]
    BY <1>1 DEF TypeOK
<1>4. TypeOK'
    <2>1. TablesOK'
        BY <1>1, <1>2 DEF TypeOK, TablesOK
    <2> QED
        BY <1>1, <1>2, <1>3, <2>1, TypesKept DEF TypeOK
<1>5. /\ since'[q].open \subseteq since[q].open
      /\ since'[q].shields \subseteq since[q].shields
      /\ since'[q].open \subseteq Open' /\ since'[q].shields \subseteq Shields'
      /\ since'[q].alone => since[q].alone
    BY <1>1, <1>3, <1>4, Remembered
<1>6. Shape(q)'
    BY <1>1, <1>2, <1>3 DEF RequestSound, Shape, Ids
<1>7. ~new.blind => WantedAreSeen(q)' /\ HeldAreSeen(q)'
    <2>1. In("pass")' = In("pass")
        BY <1>2 DEF In
    <2>2. ~new.blind => WantedAreSeen(q)'
        BY <1>2, <1>3, <1>5, <2>1 DEF WantedAreSeen
    <2>3. ~new.blind => HeldAreSeen(q)'
        BY <1>2, <1>3, <1>5 DEF HeldAreSeen, Subject
    <2> QED
        BY <2>2, <2>3
<1>8. ~new.blind /\ since'[q].alone => FindingsHold(q)'
    <2>1. /\ Named(request[q].r)' = Named(new.r)
          /\ Referenced(request[q].t)' <=> Referenced(new.t)
        BY <1>2, <1>3 DEF Named, RoleIds, Referenced
    <2>2. /\ RowsOf(request[q].t)' = RowsOf(new.t)
          /\ \A t : RowsOf(t)' = RowsOf(t)
        BY <1>2, <1>3 DEF RowsOf, Ids
    <2> QED
        BY <1>3, <1>5, <2>1, <2>2 DEF FindingsHold
<1>9. RequestSound(q)'
    BY <1>3, <1>5, <1>6, <1>7, <1>8 DEF RequestSound
<1> QED
    BY <1>1, <1>2, <1>3, <1>4, <1>9, ReadsAreGentle, RequestStepOf

\* A request that ends.
LEMMA EndStepOf ==
    ASSUME CatalogueInv, Remember, NEW q \in Requests, End(q), Gentle, TablesOK',
           UNCHANGED <<kind, approvals, begun, events>>, faults' \in Nat
    PROVE  CatalogueInv'
<1>1. TypeOK
    BY DEF CatalogueInv
<1>2. /\ request' \in [Requests -> RequestRecord \cup {None}] /\ request'[q] = None
      /\ \A f \in Requests \ {q} : request'[f] = request[f]
    BY <1>1 DEF End, TypeOK
<1>3. TypeOK'
    BY <1>1, <1>2, TypesKept DEF TypeOK
<1>4. RequestSound(q)'
    BY <1>2 DEF RequestSound
<1> QED
    BY <1>2, <1>3, <1>4, RequestStepOf

\* ... after a query.
LEMMA ReadEndOf ==
    ASSUME CatalogueInv, Remember, NEW q \in Requests, End(q), Reads, NoFault \/ Fault
    PROVE  CatalogueInv'
<1>1. TypeOK
    BY DEF CatalogueInv
<1>2. UNCHANGED <<tables, others, kind, rows, roles, held, approvals, begun, events>>
    BY DEF Reads, tables, others
<1>3. faults' \in Nat
    BY <1>1 DEF NoFault, Fault, TypeOK
<1>4. Gentle /\ TablesOK'
    BY <1>1, <1>2, ReadsAreGentle DEF TypeOK, TablesOK
<1> QED
    BY <1>2, <1>3, <1>4, EndStepOf

\* A request that begins knows nothing yet.
LEMMA CatalogueBegins ==
    ASSUME CatalogueInv, Remember, NEW q \in Requests,
           BeginAdd(q) \/ BeginDeleteId(q) \/ BeginDelete(q) \/ BeginCreate(q) \/ BeginDrop(q)
    PROVE  CatalogueInv'
<1>1. TypeOK /\ Ids \subseteq Nat
    BY TypedTables DEF CatalogueInv, TableEntries
<1>2. PICK new \in RequestRecord :
          /\ Begin(q, new)
          /\ new.phase \in {"held", "absent", "present"}
          /\ new.op = "add" => new.left >= 1
          /\ new.phase = "held" => new.op \in {"add", "delete id", "delete"}
          /\ new.phase = "absent" => new.r \in Roles
          /\ new.op = "delete id" => new.id \in Ids
    <2>1. CASE BeginAdd(q)
        <3>1. PICK t \in Templates, n \in {1, 2} :
                  Begin(q, [Idle EXCEPT !.op = "add", !.t = t, !.left = n])
            BY <2>1 DEF BeginAdd
        <3> DEFINE new == [Idle EXCEPT !.op = "add", !.t = t, !.left = n]
        <3>2. n \in Nat /\ n >= 1
            OBVIOUS
        <3>3. new \in RequestRecord /\ new.phase = "held" /\ new.op = "add" /\ new.left = n
            BY <3>2 DEF Idle, RequestRecord
        <3> QED
            BY <3>1, <3>2, <3>3
    <2>2. CASE BeginDeleteId(q)
        <3>1. PICK i \in Ids : Begin(q, [Idle EXCEPT !.op = "delete id", !.id = i])
            BY <2>2 DEF BeginDeleteId
        <3> DEFINE new == [Idle EXCEPT !.op = "delete id", !.id = i]
        <3>2. new \in RequestRecord /\ new.phase = "held" /\ new.op = "delete id" /\ new.id = i
            BY <1>1 DEF Idle, RequestRecord
        <3> QED
            BY <3>1, <3>2
    <2>3. CASE BeginDelete(q)
        <3>1. PICK t \in Templates : Begin(q, [Idle EXCEPT !.op = "delete", !.t = t])
            BY <2>3 DEF BeginDelete
        <3> DEFINE new == [Idle EXCEPT !.op = "delete", !.t = t]
        <3>2. new \in RequestRecord /\ new.phase = "held" /\ new.op = "delete"
            BY DEF Idle, RequestRecord
        <3> QED
            BY <3>1, <3>2
    <2>4. CASE BeginCreate(q)
        <3>1. PICK r \in Roles, list \in SUBSET Templates :
                  Begin(q, [Idle EXCEPT !.op = "create", !.phase = "absent", !.r = r,
                                        !.list = list])
            BY <2>4 DEF BeginCreate
        <3> DEFINE new == [Idle EXCEPT !.op = "create", !.phase = "absent", !.r = r,
                                       !.list = list]
        <3>2. new \in RequestRecord /\ new.phase = "absent" /\ new.op = "create" /\ new.r = r
            BY DEF Idle, RequestRecord
        <3> QED
            BY <3>1, <3>2
    <2>5. CASE BeginDrop(q)
        <3>1. PICK r \in Roles :
                  Begin(q, [Idle EXCEPT !.op = "drop", !.phase = "present", !.r = r])
            BY <2>5 DEF BeginDrop
        <3> DEFINE new == [Idle EXCEPT !.op = "drop", !.phase = "present", !.r = r]
        <3>2. new \in RequestRecord /\ new.phase = "present" /\ new.op = "drop"
            BY DEF Idle, RequestRecord
        <3> QED
            BY <3>1, <3>2
    <2> QED
        BY <2>1, <2>2, <2>3, <2>4, <2>5
<1>3. /\ request[q] = None /\ request' = [request EXCEPT ![q] = new] /\ begun' = begun + 1
      /\ UNCHANGED <<tables, others, kind, rows, roles, held, approvals, events, faults>>
    BY <1>2 DEF Begin, tables, others
<1>4. /\ request' \in [Requests -> RequestRecord \cup {None}]
      /\ request'[q] = new /\ new # None
      /\ \A f \in Requests \ {q} : request'[f] = request[f]
    BY <1>1, <1>3, CatalogueAssumption DEF TypeOK
<1>5. TypeOK'
    <2>1. TablesOK' /\ begun' \in Nat
        BY <1>1, <1>3 DEF TypeOK, TablesOK
    <2> QED
        BY <1>1, <1>3, <1>4, <2>1, TypesKept DEF TypeOK
<1>6. since'[q].open = Open' /\ since'[q].shields = Shields'
    BY <1>3, <1>4 DEF Remember
<1>7. RequestSound(q)'
    BY <1>2, <1>3, <1>4, <1>6
    DEF RequestSound, Shape, Ids, WantedAreSeen, HeldAreSeen, FindingsHold
<1> QED
    BY <1>1, <1>3, <1>4, <1>5, <1>7, ReadsAreGentle, RequestStepOf

\* The checks of use: the roles held, the list of each, the comparison.
LEMMA CatalogueLists ==
    ASSUME CatalogueInv, Remember, NEW q \in Requests,
           \/ ReadHeld(q) \/ MissHeld(q)
           \/ \E r \in Roles : ReadList(q, r) \/ MissList(q, r)
           \/ CheckUse(q) \/ MissUse(q)
    PROVE  CatalogueInv'
<1>1. /\ TypeOK /\ RequestSound(q) /\ request[q] # None /\ request[q] \in RequestRecord
      /\ request[q].phase \in {"held", "lists"} /\ TableEntries /\ Reads
    BY TypedTables
    DEF CatalogueInv, TypeOK, ReadHeld, MissHeld, ReadList, MissList, CheckUse, MissUse, At,
        Blindly
<1>0. request[q].op \in {"add", "delete id", "delete"}
    BY <1>1 DEF RequestSound, Shape
<1>2. /\ \A shield \in since[q].shields :
             shield.role \in held /\ shield.lists = ListOf(shield.role)
                 /\ shield.lists \subseteq SUBSET Templates
      /\ faults' \in Nat
    <2>1. NoFault \/ Fault
        BY DEF ReadHeld, MissHeld, ReadList, MissList, CheckUse, MissUse, Blindly
    <2>2. faults' \in Nat
        BY <1>1, <2>1 DEF NoFault, Fault, TypeOK
    <2> QED
        BY <1>1, <2>2 DEF RequestSound, TableEntries
<1>3. \* A blind request claims nothing.
      ASSUME NEW new \in RequestRecord, request' = [request EXCEPT ![q] = new],
             new.op = request[q].op, new.id = request[q].id,
             new.r = request[q].r, new.left = request[q].left, new.blind,
             new.phase \in {"lists", "exists"},
             new.phase = "exists" => new.op # "add"
      PROVE  CatalogueInv'
    BY <1>0, <1>1, <1>2, <1>3, ReadStepOf
<1>4. CASE ReadHeld(q)
    <2> DEFINE new == [request[q] EXCEPT !.names = held, !.phase = "lists"]
    <2>1. /\ new \in RequestRecord /\ new.names = held /\ new.phase = "lists"
          /\ new.op = request[q].op /\ new.id = request[q].id /\ new.r = request[q].r
          /\ new.left = request[q].left /\ new.blind = request[q].blind
        BY <1>1 DEF RequestRecord, TypeOK
    <2>2. request' = [request EXCEPT ![q] = new]
        BY <1>4 DEF ReadHeld, Go
    <2> HIDE DEF new
    <2> QED
        BY <1>0, <1>1, <1>2, <2>1, <2>2, ReadStepOf
<1>5. CASE MissHeld(q)
    <2> DEFINE new == [[request[q] EXCEPT !.phase = "lists"] EXCEPT !.blind = TRUE]
    <2>1. /\ new \in RequestRecord /\ new.phase = "lists" /\ new.blind
          /\ new.op = request[q].op /\ new.id = request[q].id /\ new.r = request[q].r
          /\ new.left = request[q].left
        BY <1>1 DEF RequestRecord
    <2>2. request' = [request EXCEPT ![q] = new]
        BY <1>5 DEF MissHeld, Blindly, Go
    <2> HIDE DEF new
    <2> QED
        BY <1>3, <2>1, <2>2
<1>6. ASSUME NEW r \in Roles, ReadList(q, r)
      PROVE  CatalogueInv'
    <2> DEFINE new == [request[q] EXCEPT !.names = @ \ {r}, !.used = @ \cup ListOf(r)]
    <2>1. ListOf(r) \subseteq SUBSET Templates
        BY <1>1 DEF TableEntries
    <2>2. /\ new \in RequestRecord /\ new.phase = request[q].phase
          /\ new.names = request[q].names \ {r} /\ new.used = request[q].used \cup ListOf(r)
          /\ new.op = request[q].op /\ new.id = request[q].id /\ new.r = request[q].r
          /\ new.left = request[q].left /\ new.blind = request[q].blind
        BY <1>1, <2>1 DEF RequestRecord
    <2>3. request' = [request EXCEPT ![q] = new] /\ request[q].phase = "lists"
        BY <1>6 DEF ReadList, Go, At
    <2> HIDE DEF new
    <2>4. ~request[q].blind => \A shield \in since[q].shields :
              shield.role \in new.names \/ shield.lists \subseteq new.used
        BY <1>0, <1>1, <1>2, <2>2, <2>3 DEF RequestSound, HeldAreSeen
    <2> QED
        BY <1>0, <1>1, <1>2, <2>2, <2>3, <2>4, ReadStepOf
<1>7. ASSUME NEW r \in Roles, MissList(q, r)
      PROVE  CatalogueInv'
    <2> DEFINE new == [[request[q] EXCEPT !.names = @ \ {r}] EXCEPT !.blind = TRUE]
    <2>1. /\ new \in RequestRecord /\ new.phase = request[q].phase /\ new.blind
          /\ new.op = request[q].op /\ new.id = request[q].id /\ new.r = request[q].r
          /\ new.left = request[q].left
        BY <1>1 DEF RequestRecord
    <2>2. request' = [request EXCEPT ![q] = new] /\ request[q].phase = "lists"
        BY <1>7 DEF MissList, Blindly, Go, At
    <2> HIDE DEF new
    <2> QED
        BY <1>3, <2>1, <2>2
<1>8. CASE CheckUse(q)
    <2> DEFINE next == IF request[q].op = "add" THEN "details" ELSE "exists"
               new == [request[q] EXCEPT !.phase = next]
    <2>1. request[q].names = {} /\ request[q].phase = "lists" /\ NoFault
        BY <1>8 DEF CheckUse, At
    <2>2. CASE End(q)
        BY <1>1, <2>1, <2>2, ReadEndOf
    <2>3. CASE request' = [request EXCEPT ![q] = new] /\ ~InUse(q)
        <3>1. /\ new \in RequestRecord /\ new.phase = next /\ new.t = request[q].t
              /\ new.op = request[q].op /\ new.id = request[q].id /\ new.r = request[q].r
              /\ new.left = request[q].left /\ new.blind = request[q].blind
            BY <1>1 DEF RequestRecord
        <3> DEFINE subject == IF new.op = "delete id" /\ new.phase = "exists"
                              THEN rows[new.id] ELSE new.t
        <3>2. subject = None \/ {subject} \notin request[q].used
            BY <2>3, <3>1 DEF InUse
        <3> HIDE DEF new, subject
        <3>3. ~request[q].blind => \A shield \in since[q].shields : {subject} \notin shield.lists
            <4>1. SUFFICES ASSUME ~request[q].blind, NEW shield \in since[q].shields
                           PROVE  {subject} \notin shield.lists
                OBVIOUS
            <4>2. shield.lists \subseteq request[q].used
                BY <1>1, <2>1, <4>1 DEF RequestSound, HeldAreSeen
            <4>3. {None} \notin shield.lists
                BY <1>2, CatalogueAssumption
            <4> QED
                BY <3>2, <4>2, <4>3
        <3> QED
            BY <1>0, <1>1, <1>2, <2>3, <3>1, <3>3, ReadStepOf DEF subject
    <2> QED
        BY <1>8, <2>2, <2>3 DEF CheckUse, Go
<1>9. CASE MissUse(q)
    <2> DEFINE new == [[request[q] EXCEPT !.phase = "exists"] EXCEPT !.blind = TRUE]
    <2>1. /\ new \in RequestRecord /\ new.phase = "exists" /\ new.blind
          /\ new.op = request[q].op /\ new.id = request[q].id /\ new.r = request[q].r
          /\ new.left = request[q].left
        BY <1>1 DEF RequestRecord
    <2>2. request' = [request EXCEPT ![q] = new] /\ request[q].op = "delete id"
        BY <1>9 DEF MissUse, Blindly, Go
    <2> HIDE DEF new
    <2> QED
        BY <1>3, <2>1, <2>2
<1> QED
    BY <1>4, <1>5, <1>6, <1>7, <1>8, <1>9

\* The questions between the checks of use and the change of a template.
LEMMA CatalogueAsks ==
    ASSUME CatalogueInv, Remember, NEW q \in Requests,
           \/ ReadDetails(q) \/ FindRows(q) \/ CountRows(q)
           \/ FindReference(q) \/ MissReference(q)
    PROVE  CatalogueInv'
<1>1. /\ TypeOK /\ RequestSound(q) /\ request[q] # None /\ request[q] \in RequestRecord
      /\ TableEntries /\ Reads
    BY TypedTables
    DEF CatalogueInv, TypeOK, ReadDetails, FindRows, CountRows, FindReference, MissReference,
        At, Blindly
<1>2. (NoFault \/ Fault) /\ faults' \in Nat
    <2>1. NoFault \/ Fault
        BY DEF ReadDetails, FindRows, CountRows, FindReference, MissReference, Blindly
    <2> QED
        BY <1>1, <2>1 DEF NoFault, Fault, TypeOK
<1>3. CASE End(q)
    BY <1>1, <1>2, <1>3, ReadEndOf
<1>4. CASE ReadDetails(q) /\ ~End(q)
    <2> DEFINE new == [request[q] EXCEPT !.phase = "insert"]
    <2>1. /\ new \in RequestRecord /\ new.phase = "insert" /\ new.t = request[q].t
          /\ new.op = request[q].op /\ new.id = request[q].id /\ new.r = request[q].r
          /\ new.left = request[q].left /\ new.blind = request[q].blind
        BY <1>1 DEF RequestRecord
    <2>2. request' = [request EXCEPT ![q] = new] /\ request[q].phase = "details"
        BY <1>4 DEF ReadDetails, Go, At
    <2>3. request[q].op = "add"
        BY <1>1, <2>2 DEF RequestSound, Shape
    <2> HIDE DEF new
    <2>4. ~request[q].blind => \A shield \in since[q].shields : {new.t} \notin shield.lists
        BY <1>1, <2>1, <2>2 DEF RequestSound, HeldAreSeen, Subject
    <2> QED
        BY <1>1, <1>2, <2>1, <2>2, <2>3, <2>4, ReadStepOf
<1>5. CASE FindRows(q) /\ ~End(q)
    <2> DEFINE t == IF request[q].op = "delete id" THEN rows[request[q].id] ELSE request[q].t
               new == [request[q] EXCEPT !.t = t, !.phase = "count"]
    <2>1. /\ t # None /\ request[q].phase = "exists"
          /\ request' = [request EXCEPT ![q] = new]
        BY <1>5 DEF FindRows, Go, At
    <2>2. t \in Templates \cup {None}
        BY <1>1 DEF RequestSound, Shape, TableEntries, RequestRecord
    <2>3. t = Subject(q) /\ request[q].op \in {"delete id", "delete"}
        BY <1>1, <2>1 DEF Subject, RequestSound, Shape
    <2> HIDE DEF t
    <2>4. /\ new \in RequestRecord /\ new.phase = "count" /\ new.t = t
          /\ new.op = request[q].op /\ new.id = request[q].id /\ new.r = request[q].r
          /\ new.left = request[q].left /\ new.blind = request[q].blind
        BY <1>1, <2>2 DEF RequestRecord
    <2> HIDE DEF new
    <2>5. new.op = "delete id" => rows[new.id] = t
        BY <2>4 DEF t
    <2>6. ~request[q].blind => \A shield \in since[q].shields : {t} \notin shield.lists
        BY <1>1, <2>1, <2>3 DEF RequestSound, HeldAreSeen
    <2> QED
        BY <1>1, <1>2, <2>1, <2>3, <2>4, <2>5, <2>6, ReadStepOf
\* The questions after FindRows keep the template.
<1>6. ASSUME NEW next \in {"referenced", "delete"}, NEW b \in {request[q].blind, TRUE},
             request' = [request EXCEPT ![q] =
                            [request[q] EXCEPT !.phase = next, !.blind = b]],
             request[q].phase \in {"count", "referenced"},
             next = "delete" /\ request[q].op = "delete id" =>
                 \/ b
                 \/ ~Referenced(request[q].t)
                 \/ \E i, j \in RowsOf(request[q].t) : i # j
      PROVE  CatalogueInv'
    <2> DEFINE new == [request[q] EXCEPT !.phase = next, !.blind = b]
    <2>1. /\ new \in RequestRecord /\ new.phase = next /\ new.t = request[q].t
          /\ new.op = request[q].op /\ new.id = request[q].id /\ new.r = request[q].r
          /\ new.left = request[q].left /\ new.blind = b
        BY <1>1 DEF RequestRecord
    <2>4. request' = [request EXCEPT ![q] = new]
        BY <1>6
    <2>5. ~b => ~request[q].blind
        OBVIOUS
    <2> HIDE DEF new
    <2>2. request[q].op = "delete id" =>
              request[q].t # None /\ rows[request[q].id] \in {None, request[q].t}
        BY <1>1, <1>6 DEF RequestSound, Shape
    <2>3. ~request[q].blind => \A shield \in since[q].shields : {new.t} \notin shield.lists
        BY <1>1, <1>6, <2>1 DEF RequestSound, HeldAreSeen, Subject
    <2>6. ~new.blind => \A shield \in since[q].shields :
              {IF new.op = "delete id" /\ new.phase = "exists"
               THEN rows[new.id] ELSE new.t} \notin shield.lists
        BY <2>1, <2>3, <2>5
    <2>7. ~new.blind /\ new.phase = "delete" /\ new.op = "delete id" =>
              \/ ~Referenced(new.t)
              \/ \E i, j \in RowsOf(new.t) : i # j
        BY <1>6, <2>1
    <2>8. new.op = "delete id" => new.t # None /\ rows[new.id] \in {None, new.t}
        BY <2>1, <2>2
    <2>9. /\ new.phase \in {"referenced", "delete"} /\ (~new.blind => ~request[q].blind)
          /\ request[q].op \in {"delete id", "delete"}
        BY <1>1, <1>6, <2>1, <2>5 DEF RequestSound, Shape
    <2> QED
        BY <1>1, <1>2, <2>1, <2>4, <2>6, <2>7, <2>8, <2>9, ReadStepOf
<1>7. CASE CountRows(q)
    <2>1. PICK next \in {"referenced", "delete"} :
              /\ request' = [request EXCEPT ![q] = [request[q] EXCEPT !.phase = next]]
              /\ next = "delete" => ~Only(request[q].t)
        BY <1>7 DEF CountRows, Go
    <2>2. [request[q] EXCEPT !.phase = next]
              = [request[q] EXCEPT !.phase = next, !.blind = request[q].blind]
        BY <1>1 DEF RequestRecord
    <2>3. request[q].phase = "count"
        BY <1>7 DEF CountRows, At
    <2> QED
        BY <1>6, <2>1, <2>2, <2>3 DEF Only
<1>8. CASE FindReference(q) /\ ~End(q)
    <2>1. /\ request' = [request EXCEPT ![q] = [request[q] EXCEPT !.phase = "delete"]]
          /\ ~Referenced(request[q].t) /\ request[q].phase = "referenced"
        BY <1>8 DEF FindReference, Go, At
    <2>2. [request[q] EXCEPT !.phase = "delete"]
              = [request[q] EXCEPT !.phase = "delete", !.blind = request[q].blind]
        BY <1>1 DEF RequestRecord
    <2> QED
        BY <1>6, <2>1, <2>2
<1>9. CASE MissReference(q)
    <2>1. /\ request' = [request EXCEPT ![q] =
                            [[request[q] EXCEPT !.phase = "delete"] EXCEPT !.blind = TRUE]]
          /\ request[q].phase = "referenced"
        BY <1>9 DEF MissReference, Blindly, Go, At
    <2>2. [[request[q] EXCEPT !.phase = "delete"] EXCEPT !.blind = TRUE]
              = [request[q] EXCEPT !.phase = "delete", !.blind = TRUE]
        BY <1>1 DEF RequestRecord
    <2> QED
        BY <1>6, <2>1, <2>2
<1> QED
    BY <1>3, <1>4, <1>5, <1>7, <1>8, <1>9

\* The change of a template: rows are added or removed.
LEMMA CatalogueWrites ==
    ASSUME CatalogueInv, Remember, NEW q \in Requests, InsertRow(q) \/ DeleteRows(q)
    PROVE  CatalogueInv'
<1>1. /\ TypeOK /\ RequestSound(q) /\ request[q] # None /\ request[q] \in RequestRecord
      /\ UNCHANGED <<kind, roles, held, approvals, events, begun, faults>>
    BY DEF CatalogueInv, TypeOK, InsertRow, DeleteRows, At, others, NoFault
<1>2. rows \in Seq(Templates \cup {None})
    BY <1>1 DEF TypeOK
<1>3. TablesOK' /\ Gentle
    <2>1. CASE InsertRow(q)
        <3>1. rows' = Append(rows, request[q].t) /\ request[q].t \in Templates \cup {None}
            BY <1>1, <2>1 DEF InsertRow, RequestRecord
        <3>2. /\ rows' \in Seq(Templates \cup {None}) /\ Len(rows') = Len(rows) + 1
              /\ \A i \in 1..Len(rows) : rows'[i] = rows[i]
            BY <1>2, <3>1
        <3>3. Ids = 1..Len(rows) /\ Ids' = 1..Len(rows') /\ Len(rows) \in Nat
            BY <1>2, <3>2 DEF Ids
        <3>4. \A i \in Ids : i \in Ids'
            BY <3>2, <3>3
        <3> QED
            BY <1>1, <3>2, <3>3, <3>4 DEF TablesOK, Gentle, TypeOK, Open, In
    <2>2. CASE DeleteRows(q)
        <3>1. PICK gone : rows' = [i \in Ids |-> IF i \in gone THEN None ELSE rows[i]]
            BY <2>2 DEF DeleteRows
        <3>2. Ids = 1..Len(rows) /\ Len(rows) \in Nat
            BY <1>2 DEF Ids
        <3>3. rows' \in [1..Len(rows) -> Templates \cup {None}]
            BY <1>2, <3>1, <3>2
        <3>4. rows' \in Seq(Templates \cup {None})
            BY <3>2, <3>3, SeqDef
        <3>5. Gentle
            BY <1>1, <3>1 DEF Gentle, Ids, Open, In
        <3> QED
            BY <1>1, <3>4, <3>5 DEF TablesOK, TypeOK
    <2> QED
        BY <2>1, <2>2
<1>4. faults' \in Nat
    BY <1>1 DEF TypeOK
<1>5. CASE End(q)
    BY <1>1, <1>3, <1>4, <1>5, EndStepOf
<1>6. CASE InsertRow(q) /\ request[q].left # 1
    <2> DEFINE new == [request[q] EXCEPT !.left = @ - 1]
    <2>1. request' = [request EXCEPT ![q] = new] /\ request[q].phase = "insert"
        BY <1>6 DEF InsertRow, Go, At
    <2>2. request[q].op = "add" /\ request[q].left \in Nat /\ request[q].left >= 1
        BY <1>1, <2>1 DEF RequestSound, Shape, RequestRecord
    <2>3. /\ new \in RequestRecord /\ new.phase = "insert" /\ new.t = request[q].t
          /\ new.op = "add" /\ new.left >= 1 /\ new.blind = request[q].blind
        <3>1. request[q].left - 1 \in Nat /\ request[q].left - 1 >= 1
            BY <1>6, <2>2
        <3> DEFINE left == request[q].left - 1
        <3> HIDE DEF left
        <3>2. left \in Nat /\ left >= 1
            BY <3>1 DEF left
        <3>3. new = [request[q] EXCEPT !.left = left]
            BY DEF left
        <3> HIDE DEF new
        <3> QED
            BY <1>1, <2>1, <2>2, <3>2, <3>3 DEF RequestRecord
    <2> HIDE DEF new
    <2>4. /\ request' \in [Requests -> RequestRecord \cup {None}]
          /\ request'[q] = new /\ new # None
          /\ \A f \in Requests \ {q} : request'[f] = request[f]
        BY <1>1, <2>1, <2>3, CatalogueAssumption DEF TypeOK
    <2>5. TypeOK'
        BY <1>1, <1>3, <1>4, <2>4, TypesKept DEF TypeOK
    <2>6. /\ since'[q].open \subseteq Open' /\ since'[q].shields \subseteq Shields'
          /\ since'[q].shields \subseteq since[q].shields
        BY <1>1, <2>4, <2>5, Remembered
    <2>7. Shape(q)'
        BY <2>3, <2>4 DEF Shape
    <2>8. ~new.blind => HeldAreSeen(q)'
        BY <1>1, <2>1, <2>2, <2>3, <2>4, <2>6 DEF RequestSound, HeldAreSeen, Subject
    <2>9. WantedAreSeen(q)' /\ FindingsHold(q)'
        BY <2>3, <2>4 DEF WantedAreSeen, FindingsHold
    <2>10. RequestSound(q)'
        BY <2>4, <2>6, <2>7, <2>8, <2>9 DEF RequestSound
    <2> QED
        BY <1>3, <2>4, <2>5, <2>10, RequestStepOf
<1> QED
    BY <1>5, <1>6 DEF InsertRow, DeleteRows

\* A role is created: what its request has found so far.
LEMMA CatalogueCreates ==
    ASSUME CatalogueInv, Remember, NEW q \in Requests,
           \/ FindAbsent(q) \/ MissAbsent(q)
           \/ \E t \in Templates : FindTemplate(q, t)
           \/ InsertRole(q)
    PROVE  CatalogueInv'
<1>1. /\ TypeOK /\ RequestSound(q) /\ request[q] # None /\ request[q] \in RequestRecord
      /\ TableEntries /\ request[q].phase \in {"absent", "templates"}
    BY TypedTables
    DEF CatalogueInv, TypeOK, FindAbsent, MissAbsent, FindTemplate, InsertRole, At
<1>2. NoFault \/ Fault
    BY DEF FindAbsent, MissAbsent, FindTemplate, InsertRole, Blindly
<1>3. faults' \in Nat /\ request[q].r \in Roles
    <2>1. faults' \in Nat
        BY <1>1, <1>2 DEF NoFault, Fault, TypeOK
    <2>2. request[q].r \in Roles
        BY <1>1 DEF RequestSound, Shape
    <2> QED
        BY <2>1, <2>2
<1>4. CASE End(q) /\ ~InsertRole(q)
    <2>1. Reads
        BY <1>4 DEF FindAbsent, MissAbsent, FindTemplate, Blindly
    <2> QED
        BY <1>2, <1>4, <2>1, ReadEndOf
<1>5. CASE (FindAbsent(q) \/ MissAbsent(q)) /\ ~End(q)
    <2> DEFINE b == IF MissAbsent(q) THEN TRUE ELSE request[q].blind
               new == [request[q] EXCEPT !.names = request[q].list, !.phase = "templates",
                                         !.blind = b]
    <2>1. request' = [request EXCEPT ![q] = new] /\ Reads
        <3>1. CASE MissAbsent(q)
            BY <1>1, <3>1 DEF MissAbsent, Blindly, Go, RequestRecord
        <3>2. CASE FindAbsent(q) /\ ~MissAbsent(q)
            BY <1>1, <1>5, <3>2 DEF FindAbsent, Go, RequestRecord
        <3> QED
            BY <1>5, <3>1, <3>2
    <2>2. ~b => Named(request[q].r) = {} /\ ~request[q].blind
        BY <1>5 DEF FindAbsent
    <2>3. b \in BOOLEAN
        BY <1>1 DEF RequestRecord
    <2> HIDE DEF b
    <2>4. /\ new \in RequestRecord /\ new.phase = "templates" /\ new.names = new.list
          /\ new.op = request[q].op /\ new.id = request[q].id /\ new.r = request[q].r
          /\ new.left = request[q].left /\ new.blind = b
        BY <1>1, <2>3 DEF RequestRecord
    <2> HIDE DEF new
    <2> QED
        BY <1>1, <1>3, <2>1, <2>2, <2>4, ReadStepOf
<1>6. ASSUME NEW t \in Templates, FindTemplate(q, t), ~End(q)
      PROVE  CatalogueInv'
    <2> DEFINE new == [request[q] EXCEPT !.names = @ \ {t}]
    <2>1. request' = [request EXCEPT ![q] = new] /\ Reads /\ RowsOf(t) # {}
          /\ request[q].phase = "templates"
        BY <1>6 DEF FindTemplate, Go, At
    <2>2. /\ new \in RequestRecord /\ new.phase = "templates" /\ new.list = request[q].list
          /\ new.names = request[q].names \ {t}
          /\ new.op = request[q].op /\ new.id = request[q].id /\ new.r = request[q].r
          /\ new.left = request[q].left /\ new.blind = request[q].blind
        BY <1>1, <2>1 DEF RequestRecord
    <2> HIDE DEF new
    <2>3. ~request[q].blind /\ since[q].alone =>
              /\ Named(request[q].r) = {}
              /\ \A u \in new.list \ new.names : RowsOf(u) # {}
        BY <1>1, <2>1, <2>2 DEF RequestSound, FindingsHold
    <2> QED
        BY <1>1, <1>3, <2>1, <2>2, <2>3, ReadStepOf
<1>7. CASE InsertRole(q)
    <2> DEFINE row == [name |-> request[q].r, list |-> request[q].list]
    <2>1. /\ roles' = Append(roles, row) /\ End(q)
          /\ UNCHANGED <<kind, rows, held, approvals, events, begun>>
        BY <1>7 DEF InsertRole, others
    <2>2. row \in RoleRow
        BY <1>1, <1>3 DEF RoleRow, RequestRecord
    <2> HIDE DEF row
    <2>3. TablesOK'
        <3>1. roles \in Seq(RoleRow \cup {None})
            BY <1>1 DEF TypeOK
        <3>2. roles' \in Seq(RoleRow \cup {None})
            BY <2>1, <2>2, <3>1
        <3> QED
            BY <1>1, <2>1, <3>2 DEF TablesOK, TypeOK
    <2>4. Gentle
        BY <1>1, <2>1 DEF Gentle, Ids, Open, In
    <2> QED
        BY <1>3, <2>1, <2>3, <2>4, EndStepOf
<1> QED
    BY <1>4, <1>5, <1>6, <1>7

\* A role is deleted: it must be there, and in no approval of either list.
LEMMA CatalogueDrops ==
    ASSUME CatalogueInv, Remember, NEW q \in Requests,
           \/ FindPresent(q)
           \/ \E status \in {"review", "pass"} :
                  ReadApprovals(q, status) \/ MissApprovals(q, status)
           \/ DropRole(q)
    PROVE  CatalogueInv'
<1>1. /\ TypeOK /\ RequestSound(q) /\ request[q] # None /\ request[q] \in RequestRecord
      /\ request[q].phase \in {"present", "review", "pass", "drop"}
    BY DEF CatalogueInv, TypeOK, FindPresent, ReadApprovals, MissApprovals, DropRole, At,
           Blindly
<1>2. faults' \in Nat
    <2>1. NoFault \/ Fault
        BY DEF FindPresent, ReadApprovals, MissApprovals, DropRole, Blindly
    <2> QED
        BY <1>1, <2>1 DEF NoFault, Fault, TypeOK
<1>3. CASE FindPresent(q)
    <2>1. Reads /\ NoFault
        BY <1>3 DEF FindPresent
    <2>2. CASE End(q)
        BY <2>1, <2>2, ReadEndOf
    <2>3. CASE Go(q, [request[q] EXCEPT !.phase = ReadAfter.present])
        <3> DEFINE new == [request[q] EXCEPT !.phase = "review"]
        <3>1. request' = [request EXCEPT ![q] = new]
            BY <2>3 DEF Go, ReadAfter
        <3>2. /\ new \in RequestRecord /\ new.phase = "review"
              /\ new.op = request[q].op /\ new.id = request[q].id /\ new.r = request[q].r
              /\ new.left = request[q].left /\ new.blind = request[q].blind
            BY <1>1 DEF RequestRecord
        <3> HIDE DEF new
        <3> QED
            BY <1>1, <1>2, <2>1, <3>1, <3>2, ReadStepOf
    <2> QED
        BY <1>3, <2>2, <2>3 DEF FindPresent
<1>4. ASSUME ReadApprovals(q, "review")
      PROVE  CatalogueInv'
    <2> DEFINE found == RolesIn("review")
               new == [request[q] EXCEPT !.names = @ \cup found, !.phase = "pass"]
    <2>1. request' = [request EXCEPT ![q] = new] /\ Reads
        BY <1>4 DEF ReadApprovals, Go, ReadAfter
    <2>2. /\ new \in RequestRecord /\ new.phase = "pass" /\ found \subseteq new.names
          /\ new.op = request[q].op /\ new.id = request[q].id /\ new.r = request[q].r
          /\ new.left = request[q].left /\ new.blind = request[q].blind
        <3>1. found \subseteq Roles
            BY <1>1, CatalogueAssumption DEF TypeOK, RolesIn, In, Application
        <3> HIDE DEF found
        <3> QED
            BY <1>1, <3>1 DEF RequestRecord
    <2>3. \A a \in since[q].open : approvals[a].role \in found \/ a \in In("pass")
        BY <1>1 DEF RequestSound, Open, RolesIn
    <2> HIDE DEF new, found
    <2> QED
        BY <1>1, <1>2, <2>1, <2>2, <2>3, ReadStepOf
<1>5. ASSUME ReadApprovals(q, "pass")
      PROVE  CatalogueInv'
    <2> DEFINE found == RolesIn("pass")
               new == [request[q] EXCEPT !.names = @ \cup found, !.phase = "drop"]
    <2>1. request' = [request EXCEPT ![q] = new] /\ Reads /\ request[q].phase = "pass"
        BY <1>5 DEF ReadApprovals, Go, ReadAfter, At
    <2>2. /\ new \in RequestRecord /\ new.phase = "drop"
          /\ new.names = request[q].names \cup found
          /\ new.op = request[q].op /\ new.id = request[q].id /\ new.r = request[q].r
          /\ new.left = request[q].left /\ new.blind = request[q].blind
        <3>1. found \subseteq Roles
            BY <1>1, CatalogueAssumption DEF TypeOK, RolesIn, In, Application
        <3> HIDE DEF found
        <3> QED
            BY <1>1, <3>1 DEF RequestRecord
    <2>3. ~request[q].blind =>
              \A a \in since[q].open : approvals[a].role \in request[q].names \cup found
        BY <1>1, <2>1 DEF RequestSound, WantedAreSeen, RolesIn
    <2> HIDE DEF new, found
    <2> QED
        BY <1>1, <1>2, <2>1, <2>2, <2>3, ReadStepOf
<1>6. ASSUME NEW status \in {"review", "pass"}, MissApprovals(q, status)
      PROVE  CatalogueInv'
    <2> DEFINE next == ReadAfter[status]
               new == [[request[q] EXCEPT !.phase = next] EXCEPT !.blind = TRUE]
    <2>1. request' = [request EXCEPT ![q] = new] /\ Reads
        BY <1>6 DEF MissApprovals, Blindly, Go
    <2>2. next \in {"pass", "drop"}
        BY DEF ReadAfter
    <2> HIDE DEF next
    <2>3. /\ new \in RequestRecord /\ new.phase \in {"pass", "drop"} /\ new.blind
          /\ new.op = request[q].op /\ new.id = request[q].id /\ new.r = request[q].r
          /\ new.left = request[q].left
        BY <1>1, <2>2 DEF RequestRecord
    <2> HIDE DEF new
    <2> QED
        BY <1>1, <1>2, <2>1, <2>3, ReadStepOf
<1>7. CASE DropRole(q)
    <2>1. /\ End(q) /\ UNCHANGED <<kind, rows, held, approvals, events, begun>>
        BY <1>7 DEF DropRole, others
    <2>2. roles \in Seq(RoleRow \cup {None})
        BY <1>1 DEF TypeOK
    <2>3. roles' \in Seq(RoleRow \cup {None})
        <3>1. CASE roles' = roles
            BY <2>2, <3>1
        <3>2. CASE roles' = [i \in DOMAIN roles |-> IF i \in Named(request[q].r)
                                                    THEN None ELSE roles[i]]
            <4>1. DOMAIN roles = 1..Len(roles) /\ Len(roles) \in Nat
                BY <2>2
            <4>2. roles' \in [1..Len(roles) -> RoleRow \cup {None}]
                BY <2>2, <3>2, <4>1
            <4> QED
                BY <4>1, <4>2, SeqDef
        <3> QED
            BY <1>7, <3>1, <3>2 DEF DropRole
    <2>4. TablesOK' /\ Gentle
        BY <1>1, <2>1, <2>3 DEF TablesOK, Gentle, Ids, TypeOK, Open, In
    <2> QED
        BY <1>2, <2>1, <2>4, EndStepOf
<1> QED
    BY <1>3, <1>4, <1>5, <1>6, <1>7

\* What goes on beside the requests leaves an application its role, and passed
\* applications passed or closed.
ApprovalsOnward ==
    /\ held' \in SUBSET Roles
    /\ approvals' \in [Applications -> Application \cup {None}]
    /\ \A a \in Open \cap Open' :
           /\ approvals'[a].role = approvals[a].role
           /\ a \in In("pass") => a \in In("pass")'

\* Applicants, administrators and the permission daemon.
LEMMA CatalogueOthers ==
    ASSUME CatalogueInv, Remember, Others
    PROVE  CatalogueInv'
<1>1. TypeOK
    BY DEF CatalogueInv
<1>2. /\ UNCHANGED <<tables, kind, rows, roles, request, begun, faults>>
      /\ events' = events + 1
    BY DEF Others, Apply, Approve, Close, GiveRole, TakeRole, Event, tables
<1>3. ApprovalsOnward
    <2>1. approvals \in [Applications -> Application \cup {None}] /\ held \in SUBSET Roles
        BY <1>1 DEF TypeOK
    <2>2. ASSUME NEW a \in Applications, NEW r \in Roles, Apply(a, r)
          PROVE  ApprovalsOnward
        BY <2>1, <2>2, CatalogueAssumption DEF ApprovalsOnward, Apply, Application, Open, In
    <2>3. ASSUME NEW a \in Applications, Approve(a) \/ Close(a)
          PROVE  ApprovalsOnward
        BY <2>1, <2>3, CatalogueAssumption
           DEF ApprovalsOnward, Approve, Close, Application, Open, In
    <2>4. ASSUME NEW r \in Roles, GiveRole(r) \/ TakeRole(r)
          PROVE  ApprovalsOnward
        <3>1. held' \in SUBSET Roles /\ approvals' = approvals
            BY <2>1, <2>4 DEF GiveRole, TakeRole
        <3> QED
            BY <2>1, <3>1 DEF ApprovalsOnward, Open, In
    <2> QED
        BY <2>2, <2>3, <2>4 DEF Others
<1>4. TypeOK'
    <2>1. TablesOK'
        BY <1>1, <1>2, <1>3 DEF TypeOK, TablesOK, ApprovalsOnward
    <2>2. request' \in [Requests -> RequestRecord \cup {None}] /\ events' \in Nat
        BY <1>1, <1>2 DEF TypeOK
    <2> QED
        BY <1>1, <1>2, <1>3, <2>1, <2>2, TypesKept DEF TypeOK, ApprovalsOnward
<1>5. Gentle
    BY <1>2, <1>3 DEF Gentle, Ids, ApprovalsOnward
<1>6. \A q \in Requests : RequestSound(q)'
    BY <1>2, <1>4, <1>5, OthersSound
<1> QED
    BY <1>4, <1>6 DEF CatalogueInv

\* One step of a request.
LEMMA CatalogueSteps ==
    ASSUME CatalogueInv, Remember, NEW q \in Requests, Step(q)
    PROVE  CatalogueInv'
<1>1. CASE Fails(q)
    <2>1. End(q) /\ Reads /\ Fault
        BY <1>1 DEF Fails
    <2> QED
        BY <2>1, ReadEndOf
<1> QED
    BY <1>1, CatalogueBegins, CatalogueLists, CatalogueAsks, CatalogueWrites,
       CatalogueCreates, CatalogueDrops DEF Step

\* No request is under way at first.
LEMMA CatalogueInit == Init => CatalogueInv
<1> SUFFICES ASSUME Init PROVE CatalogueInv
    OBVIOUS
<1>1. \A q \in Requests : request[q] = None
    BY DEF Init
<1>2. TypeOK
    <2>1. rows \in Seq(Templates \cup {None})
        <3>1. rows \in Seq(Templates)
            BY CatalogueAssumption DEF Init
        <3> QED
            BY <3>1
    <2>2. roles \in Seq(RoleRow \cup {None})
        <3>1. roles \in Seq(RoleRow)
            BY CatalogueAssumption DEF Init
        <3> QED
            BY <3>1
    <2>3. approvals \in [Applications -> Application \cup {None}] /\ held \in SUBSET Roles
        <3>1. approvals \in [Applications -> Application \cup {None}]
            BY DEF Init
        <3>2. RolesIn("pass") \subseteq Roles
            BY <3>1, CatalogueAssumption DEF RolesIn, In, Application
        <3> QED
            BY <3>1, <3>2 DEF Init
    <2>4. /\ request \in [Requests -> RequestRecord \cup {None}]
          /\ kind \in Kinds /\ begun \in Nat /\ events \in Nat /\ faults \in Nat
        BY DEF Init
    <2> QED
        BY <1>1, <2>1, <2>2, <2>3, <2>4 DEF TypeOK
<1> QED
    BY <1>1, <1>2 DEF CatalogueInv, RequestSound

\* Every step keeps the invariant of the catalogue.
LEMMA CatalogueInductive == CatalogueInv /\ [Next]_vars => CatalogueInv'
<1> SUFFICES ASSUME CatalogueInv, [Next]_vars PROVE CatalogueInv'
    OBVIOUS
<1>1. CASE Next
    BY <1>1, CatalogueSteps, CatalogueOthers DEF Next
<1>2. CASE UNCHANGED vars
    <2>1. /\ kind' = kind /\ rows' = rows /\ roles' = roles /\ held' = held
          /\ approvals' = approvals /\ request' = request /\ since' = since
          /\ begun' = begun /\ events' = events /\ faults' = faults
        BY <1>2 DEF vars, tables, others
    <2>2. TypeOK'
        BY <2>1 DEF CatalogueInv, TypeOK
    <2>3. Open' = Open /\ Shields' = Shields
        BY <2>1 DEF Open, In, Shields, ListOf, Named, RoleIds
    <2>4. \A q \in Requests : /\ Shape(q) => Shape(q)'
                              /\ WantedAreSeen(q) => WantedAreSeen(q)'
                              /\ HeldAreSeen(q) => HeldAreSeen(q)'
                              /\ FindingsHold(q) => FindingsHold(q)'
        <3> TAKE q \in Requests
        <3>1. Shape(q) => Shape(q)'
            BY <2>1 DEF Shape, Ids
        <3>2. WantedAreSeen(q) => WantedAreSeen(q)'
            BY <2>1 DEF WantedAreSeen, In
        <3>3. HeldAreSeen(q) => HeldAreSeen(q)'
            BY <2>1 DEF HeldAreSeen, Subject
        <3>4. /\ Named(request[q].r)' = Named(request[q].r)
              /\ Referenced(request[q].t)' <=> Referenced(request[q].t)
            BY <2>1 DEF Named, RoleIds, Referenced
        <3>5. /\ RowsOf(request[q].t)' = RowsOf(request[q].t)
              /\ \A t : RowsOf(t)' = RowsOf(t)
            BY <2>1 DEF RowsOf, Ids
        <3>6. FindingsHold(q) => FindingsHold(q)'
            BY <2>1, <3>4, <3>5 DEF FindingsHold
        <3> QED
            BY <3>1, <3>2, <3>3, <3>6
    <2> QED
        BY <2>1, <2>2, <2>3, <2>4 DEF CatalogueInv, RequestSound
<1> QED
    BY <1>1, <1>2

\* Every state of the catalogue satisfies its invariant.
LEMMA CatalogueHolds == ManagementSpec => []CatalogueInv
<1>1. ManagementInit => CatalogueInv
    BY CatalogueInit DEF ManagementInit
<1>2. CatalogueInv /\ [ManagementNext]_allVars => CatalogueInv'
    BY CatalogueInductive, PartsMove
<1> QED
    BY <1>1, <1>2, PTL DEF ManagementSpec

\* For an action property: a step of the whole is one of the catalogue or leaves
\* it alone.
LEMMA CatalogueAct ==
    ASSUME CatalogueInv, [ManagementNext]_allVars,
           NEW q \in Requests, Acts(q)
    PROVE  /\ Remember /\ Step(q)
           /\ TypeOK /\ RequestSound(q) /\ request[q] \in RequestRecord
           /\ TablesOK /\ TableEntries
           /\ request[q].phase \notin {"delete", "insert", "drop"} /\ ~InsertRole(q) =>
                  UNCHANGED tables
<1>1. Next
    BY PartsMove DEF Acts, vars
<1>2. TypeOK /\ RequestSound(q) /\ request[q] \in RequestRecord /\ request[q] # None
    BY DEF CatalogueInv, TypeOK, Acts
<1>3. ~Others
    BY DEF Others, Apply, Approve, Close, GiveRole, TakeRole, Event, Acts
<1>4. PICK f \in Requests : Step(f)
    BY <1>1, <1>3 DEF Next
<1>5. PICK new : request' = [request EXCEPT ![f] = new]
    BY <1>4
    DEF Step, BeginAdd, BeginDeleteId, BeginDelete, BeginCreate, BeginDrop, Begin,
        ReadHeld, MissHeld, ReadList, MissList, CheckUse, MissUse, ReadDetails, InsertRow,
        FindRows, CountRows, FindReference, MissReference, DeleteRows, FindAbsent,
        MissAbsent, FindTemplate, InsertRole, FindPresent, ReadApprovals, MissApprovals,
        DropRole, Fails, Blindly, Go, End
<1>6. f = q
    BY <1>2, <1>5 DEF Acts, TypeOK
<1>7. Step(q)
    BY <1>4, <1>6
<1>8. ASSUME request[q].phase \notin {"delete", "insert", "drop"}, ~InsertRole(q)
      PROVE  UNCHANGED tables
    BY <1>2, <1>7, <1>8
    DEF Step, BeginAdd, BeginDeleteId, BeginDelete, BeginCreate, BeginDrop, Begin,
        ReadHeld, MissHeld, ReadList, MissList, CheckUse, MissUse, ReadDetails, InsertRow,
        FindRows, CountRows, FindReference, MissReference, DeleteRows, FindAbsent,
        MissAbsent, FindTemplate, FindPresent, ReadApprovals, MissApprovals,
        DropRole, Fails, Blindly, At, Reads
<1> QED
    BY <1>1, <1>2, <1>7, <1>8, TypedTables DEF Next

\* A phase decides which steps there are.
LEMMA WriteOfPhase ==
    ASSUME NEW q \in Requests, request[q] # None, Step(q)
    PROVE  /\ request[q].phase = "insert" => InsertRow(q) \/ Fails(q)
           /\ request[q].phase = "delete" => DeleteRows(q) \/ Fails(q)
           /\ request[q].phase = "drop" => DropRole(q) \/ Fails(q)
           /\ Fails(q) => UNCHANGED tables
    BY DEF Step, BeginAdd, BeginDeleteId, BeginDelete, BeginCreate, BeginDrop, Begin,
        ReadHeld, MissHeld, ReadList, MissList, CheckUse, MissUse, ReadDetails, InsertRow,
        FindRows, CountRows, FindReference, MissReference, DeleteRows, FindAbsent,
        MissAbsent, FindTemplate, InsertRole, FindPresent, ReadApprovals, MissApprovals,
        DropRole, Fails, Blindly, At, Reads

\* httpApiRoleDelete: a role is not deleted if one application for it was under
\* review or passed all the while the request ran, also if that moves from the one
\* list to the other between the two queries.
THEOREM WantedRolesAreKept == ManagementSpec => WantedRoleIsKept
<1>1. CatalogueInv /\ [ManagementNext]_allVars =>
          [\A q \in Requests :
               Acts(q) /\ RoleIds \ RoleIds' # {} /\ ~request[q].blind =>
                   \A a \in since[q].open : approvals[a].role # request[q].r]_vars
    <2> SUFFICES ASSUME CatalogueInv, [ManagementNext]_allVars, NEW q \in Requests,
                        Acts(q), RoleIds \ RoleIds' # {}, ~request[q].blind
                 PROVE  \A a \in since[q].open : approvals[a].role # request[q].r
        OBVIOUS
    <2>1. /\ Step(q) /\ RequestSound(q) /\ TypeOK /\ request[q] # None
          /\ request[q].phase \notin {"delete", "insert", "drop"} /\ ~InsertRole(q) =>
                 UNCHANGED tables
        BY CatalogueAct DEF Acts
    <2>2. roles' # roles
        BY DEF RoleIds
    <2>3. ~InsertRole(q)
        <3>1. SUFFICES ASSUME InsertRole(q) PROVE RoleIds \subseteq RoleIds'
            OBVIOUS
        <3>2. PICK row : roles' = Append(roles, row)
            BY <3>1 DEF InsertRole
        <3>3. roles \in Seq(RoleRow \cup {None})
            BY <2>1 DEF TypeOK
        <3>4. /\ DOMAIN roles = 1..Len(roles) /\ DOMAIN roles' = 1..(Len(roles) + 1)
              /\ Len(roles) \in Nat /\ \A i \in 1..Len(roles) : roles'[i] = roles[i]
            BY <3>2, <3>3
        <3> QED
            BY <3>4 DEF RoleIds
    <2>4. request[q].phase \in {"delete", "insert", "drop"} /\ ~Fails(q)
        BY <2>1, <2>2, <2>3, WriteOfPhase DEF tables
    <2>5. ~InsertRow(q) /\ ~DeleteRows(q)
        BY <2>2 DEF InsertRow, DeleteRows
    <2>6. DropRole(q) /\ request[q].phase = "drop"
        BY <2>1, <2>4, <2>5, WriteOfPhase
    <2>7. request[q].r \notin request[q].names
        BY <2>2, <2>6 DEF DropRole
    <2> QED
        BY <2>1, <2>6, <2>7 DEF RequestSound, WantedAreSeen
<1> QED
    BY <1>1, CatalogueHolds, PTL DEF ManagementSpec, WantedRoleIsKept

\* httpApiTemplateServerAdd, -Delete and their command counterparts: the template
\* of a role that an account held, with this list, all the while the request ran
\* is not changed under that account.
THEOREM HeldTemplatesAreFixed == ManagementSpec => HeldTemplateIsFixed
<1>1. CatalogueInv /\ [ManagementNext]_allVars =>
          [\A q \in Requests, t \in Templates :
               Acts(q) /\ Touched(t) /\ ~request[q].blind =>
                   \A shield \in since[q].shields : {t} \notin shield.lists]_vars
    <2> SUFFICES ASSUME CatalogueInv, [ManagementNext]_allVars,
                        NEW q \in Requests, NEW t \in Templates,
                        Acts(q), Touched(t), ~request[q].blind
                 PROVE  \A shield \in since[q].shields : {t} \notin shield.lists
        OBVIOUS
    <2>1. /\ Step(q) /\ RequestSound(q) /\ TypeOK /\ TableEntries /\ request[q] # None
          /\ request[q].phase \notin {"delete", "insert", "drop"} /\ ~InsertRole(q) =>
                 UNCHANGED tables
        BY CatalogueAct DEF Acts
    <2>2. rows' # rows
        BY DEF Touched, RowsOf, Ids
    <2>3. ~InsertRole(q) /\ ~DropRole(q)
        BY <2>2 DEF InsertRole, DropRole
    <2>4. InsertRow(q) \/ DeleteRows(q)
        BY <2>1, <2>2, <2>3, WriteOfPhase DEF tables
    <2>5. request[q].phase \in {"insert", "delete"}
        BY <2>4 DEF InsertRow, DeleteRows, At
    <2>6. \A shield \in since[q].shields : {request[q].t} \notin shield.lists
        BY <2>1, <2>5 DEF RequestSound, HeldAreSeen, Subject
    <2>7. t = request[q].t
        <3>1. SUFFICES ASSUME t # request[q].t PROVE RowsOf(t) = RowsOf(t)'
            BY DEF Touched
        <3>2. rows \in Seq(Templates \cup {None}) /\ t # None
            BY <2>1, CatalogueAssumption DEF TypeOK
        <3>3. CASE InsertRow(q)
            <4>1. rows' = Append(rows, request[q].t)
                BY <3>3 DEF InsertRow
            <4>2. /\ Ids = 1..Len(rows) /\ Ids' = 1..(Len(rows) + 1) /\ Len(rows) \in Nat
                  /\ \A i \in 1..Len(rows) : rows'[i] = rows[i]
                  /\ rows'[Len(rows) + 1] = request[q].t
                BY <3>2, <4>1 DEF Ids
            <4>3. \A i \in Ids' : i \in Ids \/ rows'[i] = request[q].t
                BY <4>2
            <4>4. \A i \in Ids : i \in Ids' /\ rows'[i] = rows[i]
                BY <4>2
            <4> QED
                BY <3>1, <4>3, <4>4 DEF RowsOf
        <3>4. CASE DeleteRows(q)
            <4> DEFINE gone == IF request[q].op = "delete id" THEN {request[q].id}
                                                              ELSE RowsOf(request[q].t)
            <4>1. rows' = [i \in Ids |-> IF i \in gone THEN None ELSE rows[i]]
                BY <3>4 DEF DeleteRows
            <4>2. \A i \in gone : rows[i] \in {None, request[q].t}
                BY <2>1, <2>5, <3>4 DEF RequestSound, Shape, RowsOf, DeleteRows, At
            <4> HIDE DEF gone
            <4>3. Ids' = Ids /\ \A i \in Ids : rows'[i] = t <=> rows[i] = t
                BY <3>1, <3>2, <4>1, <4>2 DEF Ids
            <4> QED
                BY <4>3 DEF RowsOf
        <3> QED
            BY <2>4, <3>3, <3>4
    <2> QED
        BY <2>6, <2>7
<1> QED
    BY <1>1, CatalogueHolds, PTL DEF ManagementSpec, HeldTemplateIsFixed

\* Adding, deleting by id, creating and dropping: a role never gets a second row,
\* and a role that consists of one template is not left without it, unless
\* requests overlap or a query fails.
THEOREM AloneKeepsTablesSound == ManagementSpec => AloneKeepsSound
<1>1. CatalogueInv /\ [ManagementNext]_allVars =>
          [\A q \in Requests :
               Acts(q) /\ since[q].alone /\ ~request[q].blind
                       /\ request[q].op # "delete" =>
                   (Sound => Sound')]_vars
    <2> SUFFICES ASSUME CatalogueInv, [ManagementNext]_allVars, NEW q \in Requests,
                        Acts(q), since[q].alone, ~request[q].blind,
                        request[q].op # "delete", Sound
                 PROVE  Sound'
        OBVIOUS
    <2>1. /\ Step(q) /\ TypeOK /\ request[q] # None /\ request[q] \in RequestRecord
          /\ Shape(q) /\ FindingsHold(q)
          /\ request[q].phase \notin {"delete", "insert", "drop"} /\ ~InsertRole(q) =>
                 UNCHANGED tables
        BY CatalogueAct DEF Acts, RequestSound
    <2>2. rows \in Seq(Templates \cup {None}) /\ roles \in Seq(RoleRow \cup {None})
        BY <2>1 DEF TypeOK
    \* What is enough: the new roles are old ones, and no template is lost.
    <2>3. ASSUME RoleIds' \subseteq RoleIds,
                 \A i \in RoleIds' : roles'[i] = roles[i],
                 \A t \in Templates : Referenced(t) /\ RowsOf(t) # {} => RowsOf(t)' # {}
          PROVE  Sound'
        <3>1. \A i, j \in RoleIds' : roles'[i].name = roles'[j].name => i = j
            BY <2>3 DEF Sound
        <3>2. \A t \in Templates : Referenced(t)' => Referenced(t)
            BY <2>3 DEF Referenced
        <3>3. \A t \in Templates : Referenced(t) => RowsOf(t) # {}
            BY DEF Sound
        <3> QED
            BY <2>3, <3>1, <3>2, <3>3 DEF Sound
    <2>4. CASE UNCHANGED tables
        <3>1. rows' = rows /\ roles' = roles
            BY <2>4 DEF tables
        <3> QED
            BY <2>3, <3>1 DEF RoleIds, RowsOf, Ids
    <2>5. CASE InsertRow(q)
        <3>1. roles' = roles /\ rows' = Append(rows, request[q].t)
            BY <2>5 DEF InsertRow
        <3>2. /\ Ids = 1..Len(rows) /\ Ids' = 1..(Len(rows) + 1) /\ Len(rows) \in Nat
              /\ \A i \in 1..Len(rows) : rows'[i] = rows[i]
            BY <2>2, <3>1 DEF Ids
        <3>3. \A i \in Ids : i \in Ids' /\ rows'[i] = rows[i]
            BY <3>2
        <3> QED
            BY <2>3, <3>1, <3>3 DEF RoleIds, RowsOf
    <2>6. CASE DeleteRows(q)
        <3>1. request[q].phase = "delete" /\ request[q].op = "delete id"
            BY <2>1, <2>6 DEF DeleteRows, At, Shape
        <3>2. /\ roles' = roles
              /\ rows' = [i \in Ids |-> IF i = request[q].id THEN None ELSE rows[i]]
            BY <2>6, <3>1 DEF DeleteRows
        <3>3. /\ request[q].id \in Ids /\ rows[request[q].id] \in {None, request[q].t}
              /\ \/ ~Referenced(request[q].t)
                 \/ \E i, j \in RowsOf(request[q].t) : i # j
            BY <2>1, <3>1 DEF Shape, FindingsHold
        <3>4. ASSUME NEW t \in Templates, Referenced(t), RowsOf(t) # {}
              PROVE  RowsOf(t)' # {}
            <4>1. PICK i \in Ids : rows[i] = t /\ i # request[q].id
                <5>1. CASE t = request[q].t
                    BY <3>3, <3>4, <5>1 DEF RowsOf
                <5>2. CASE t # request[q].t
                    <6>1. t # None
                        BY CatalogueAssumption
                    <6> QED
                        BY <3>3, <3>4, <5>2, <6>1 DEF RowsOf
                <5> QED
                    BY <5>1, <5>2
            <4>2. i \in Ids' /\ rows'[i] = t
                BY <3>2, <4>1 DEF Ids
            <4> QED
                BY <4>2 DEF RowsOf
        <3> QED
            BY <2>3, <3>2, <3>4 DEF RoleIds
    <2>7. CASE DropRole(q)
        <3>1. rows' = rows
            BY <2>7 DEF DropRole
        <3>2. RoleIds' \subseteq RoleIds /\ \A i \in RoleIds' : roles'[i] = roles[i]
            BY <2>7 DEF DropRole, RoleIds
        <3> QED
            BY <2>3, <3>1, <3>2 DEF RowsOf, Ids
    <2>8. CASE InsertRole(q)
        <3> DEFINE row == [name |-> request[q].r, list |-> request[q].list]
                   last == Len(roles) + 1
        <3>1. /\ roles' = Append(roles, row) /\ rows' = rows
              /\ request[q].phase = "templates" /\ request[q].names = {}
            BY <2>8 DEF InsertRole, At
        <3>2. /\ DOMAIN roles = 1..Len(roles) /\ DOMAIN roles' = 1..last /\ Len(roles) \in Nat
              /\ \A i \in 1..Len(roles) : roles'[i] = roles[i]
              /\ roles'[last] = row
            BY <2>2, <3>1
        <3>3. \A i \in RoleIds' : (i \in RoleIds /\ roles'[i] = roles[i])
                                      \/ (i = last /\ roles'[i] = row)
            BY <3>2 DEF RoleIds
        <3>4. \A i \in RoleIds : roles[i].name # row.name
            BY <2>1, <3>1 DEF FindingsHold, Named
        <3>5. \A t \in row.list : RowsOf(t) # {}
            BY <2>1, <3>1 DEF FindingsHold
        <3> HIDE DEF row, last
        <3>6. \A i, j \in RoleIds' : roles'[i].name = roles'[j].name => i = j
            BY <3>3, <3>4 DEF Sound
        <3>7. \A t \in Templates : Referenced(t)' => RowsOf(t) # {}
            BY <3>3, <3>5 DEF Sound, Referenced
        <3>8. \A t \in Templates : RowsOf(t)' = RowsOf(t)
            BY <3>1 DEF RowsOf, Ids
        <3> QED
            BY <3>6, <3>7, <3>8 DEF Sound
    <2> QED
        BY <2>1, <2>4, <2>5, <2>6, <2>7, <2>8, WriteOfPhase
<1> QED
    BY <1>1, CatalogueHolds, PTL DEF ManagementSpec, AloneKeepsSound

-----------------------------------------------------------------------------
(* The login limiter *)

\* The sets of the instance are the sets of this module.
LEMMA LimiterSets ==
    /\ \A S : L!IsFiniteSet(S) <=> IsFiniteSet(S)
    /\ \A S : L!Cardinality(S) = Cardinality(S)
<1>1. \A S : L!IsFiniteSet(S) <=> IsFiniteSet(S)
    BY DEF L!IsFiniteSet, IsFiniteSet
<1>2. \A S : L!Cardinality(S) = Cardinality(S)
    BY DEF L!Cardinality, Cardinality
<1> QED
    BY <1>1, <1>2

\* There are finitely many buckets.
LEMMA KeysAreFinite == IsFiniteSet(L!Keys)
<1>1. IsFiniteSet(Sources) /\ IsFiniteSet(Accounts)
    BY LimiterSets, LimiterAssumption
<1>2. IsFiniteSet(Sources \cup Accounts)
    BY <1>1, FS_Union
<1> QED
    BY <1>2, FS_AddElement DEF L!Keys

\* The keys of a request: two or three.
IsKeys(keys) ==
    /\ keys \in Seq(L!Keys)
    /\ Len(keys) \in {2, 3}

\* rateLimitKeys gives two or three keys.
LEMMA KeysOfAreKeys ==
    ASSUME NEW s \in Sources, NEW u \in Accounts \cup {None}
    PROVE  IsKeys(L!KeysOf(s, u))
<1> DEFINE two == <<s, Global>>
           more == IF u = None THEN <<>> ELSE <<u>>
<1>1. two \in Seq(L!Keys) /\ Len(two) = 2
    BY DEF L!Keys
<1>2. more \in Seq(L!Keys) /\ Len(more) \in {0, 1}
    <2>1. CASE u = None
        BY <2>1
    <2>2. CASE u # None
        <3>1. u \in L!Keys
            BY <2>2 DEF L!Keys
        <3> QED
            BY <2>2, <3>1
    <2> QED
        BY <2>1, <2>2
<1>3. L!KeysOf(s, u) = two \o more
    BY DEF L!KeysOf
<1> HIDE DEF two, more
<1>4. two \o more \in Seq(L!Keys) /\ Len(two \o more) = Len(two) + Len(more)
    BY <1>1, <1>2, ConcatProperties
<1> QED
    BY <1>1, <1>2, <1>3, <1>4 DEF IsKeys

\* The loops read keys only.
LEMMA KeysInRange ==
    ASSUME NEW keys, IsKeys(keys)
    PROVE  /\ keys[1] \in L!Keys /\ keys[2] \in L!Keys
           /\ Len(keys) # 2 => keys[3] \in L!Keys
    BY DEF IsKeys

Used(bs) == {k \in L!Keys : bs[k] # None}

\* What holds of the buckets also in the middle of a loop.
BucketsOK(bs) ==
    /\ bs \in [L!Keys -> L!Bucket \cup {None}]
    /\ Cardinality(Used(bs)) <= MaxBuckets
    /\ \A k \in L!Keys : bs[k] # None => bs[k].until <= now + LockFor

\* No lock-out is shortened.
KeepsLocks(bs, cs) ==
    \A k \in L!Keys :
        L!Locked(bs, k) => cs[k] # None /\ cs[k].until >= bs[k].until

\* A bucket goes on in its window, begins another one, or is forgotten long after
\* its window.
Succeeds(b, c) ==
    \/ c = None /\ (b = None \/ now > b.start + Window + Window)
    \/ c # None /\ c.start = now /\ (b = None \/ now > b.start + Window)
    \/ c # None /\ b # None /\ c.start = b.start /\ c.count >= b.count

\* ... and has counted an attempt, which falls into its window.
Raised(b, c) ==
    c # None =>
        /\ now <= c.start + Window
        /\ \/ c.start = now /\ (b = None \/ now > b.start + Window) /\ c.count >= 1
           \/ b # None /\ c.start = b.start /\ c.count >= b.count + 1

Keeps(bs, cs) ==
    /\ KeepsLocks(bs, cs)
    /\ \A k \in L!Keys : Succeeds(bs[k], cs[k])

\* The number of buckets is a number.
LEMMA UsedIsFinite ==
    ASSUME NEW bs
    PROVE  IsFiniteSet(Used(bs)) /\ Cardinality(Used(bs)) \in Nat
<1>1. Used(bs) \in SUBSET L!Keys
    BY DEF Used
<1> QED
    BY <1>1, KeysAreFinite, FS_Subset, FS_CardinalityType

\* Fewer buckets are not too many.
LEMMA UsedShrinks ==
    ASSUME NEW bs, NEW cs, Used(cs) \subseteq Used(bs)
    PROVE  Cardinality(Used(cs)) <= Cardinality(Used(bs))
    BY UsedIsFinite, FS_Subset

\* Two steps of a loop that keep the lock-outs keep them together.
LEMMA LocksCompose ==
    ASSUME now \in Nat, NEW bs, NEW cs, NEW ds,
           BucketsOK(bs), BucketsOK(cs), BucketsOK(ds), KeepsLocks(bs, cs), KeepsLocks(cs, ds)
    PROVE  KeepsLocks(bs, ds)
<1> SUFFICES ASSUME NEW k \in L!Keys, L!Locked(bs, k)
             PROVE  ds[k] # None /\ ds[k].until >= bs[k].until
    BY DEF KeepsLocks
<1>1. bs[k] # None /\ now < bs[k].until
    BY DEF L!Locked
<1>2. cs[k] # None /\ cs[k].until >= bs[k].until
    BY DEF KeepsLocks
<1>3. bs[k].until \in Nat /\ cs[k].until \in Nat
    BY <1>1, <1>2 DEF BucketsOK, L!Bucket
<1>4. L!Locked(cs, k)
    BY <1>1, <1>2, <1>3 DEF L!Locked
<1>5. ds[k] # None /\ ds[k].until >= cs[k].until
    BY <1>4 DEF KeepsLocks
<1>6. ds[k].until \in Nat
    BY <1>5 DEF BucketsOK, L!Bucket
<1> QED
    BY <1>2, <1>3, <1>5, <1>6

\* One bucket after another.
LEMMA BucketsSucceed ==
    ASSUME now \in Nat, NEW b \in L!Bucket \cup {None}, NEW c \in L!Bucket \cup {None},
           NEW d \in L!Bucket \cup {None}, Succeeds(b, c)
    PROVE  /\ Succeeds(c, d) => Succeeds(b, d)
           /\ Raised(c, d) => Raised(b, d)
<1>1. /\ b # None => b.start \in Nat /\ b.count \in Nat
      /\ c # None => c.start \in Nat /\ c.count \in Nat
      /\ d # None => d.start \in Nat /\ d.count \in Nat
      /\ Window \in Nat
    BY LimiterAssumption DEF L!Bucket
<1>2. Succeeds(c, d) => Succeeds(b, d)
    BY <1>1 DEF Succeeds
<1>3. Raised(c, d) => Raised(b, d)
    BY <1>1 DEF Succeeds, Raised
<1> QED
    BY <1>2, <1>3

\* Two steps of a loop together.
LEMMA KeepsComposes ==
    ASSUME now \in Nat, NEW bs, NEW cs, NEW ds,
           BucketsOK(bs), BucketsOK(cs), BucketsOK(ds), Keeps(bs, cs), Keeps(cs, ds)
    PROVE  Keeps(bs, ds)
<1>1. KeepsLocks(bs, ds)
    BY LocksCompose DEF Keeps
<1>2. ASSUME NEW k \in L!Keys
      PROVE  Succeeds(bs[k], ds[k])
    <2>1. bs[k] \in L!Bucket \cup {None} /\ cs[k] \in L!Bucket \cup {None}
          /\ ds[k] \in L!Bucket \cup {None}
        BY DEF BucketsOK
    <2> QED
        BY <2>1, BucketsSucceed DEF Keeps
<1> QED
    BY <1>1, <1>2 DEF Keeps

\* Buckets that stay are kept.
LEMMA KeepsStays == ASSUME NEW bs, BucketsOK(bs) PROVE Keeps(bs, bs)
<1>1. KeepsLocks(bs, bs)
    BY DEF KeepsLocks, L!Locked, BucketsOK, L!Bucket
<1>2. \A k \in L!Keys : bs[k] # None => bs[k].count \in Nat
    BY DEF BucketsOK, L!Bucket
<1>3. \A k \in L!Keys : Succeeds(bs[k], bs[k])
    BY <1>2 DEF Succeeds
<1> QED
    BY <1>1, <1>3 DEF Keeps

\* One bucket is replaced, with a lock-out no shorter.
LEMMA ReplaceOne ==
    ASSUME now \in Nat, NEW bs, BucketsOK(bs), NEW k \in L!Keys, bs[k] # None,
           NEW b \in L!Bucket, b.until <= now + LockFor,
           now < bs[k].until => b.until >= bs[k].until,
           Succeeds(bs[k], b)
    PROVE  LET cs == [bs EXCEPT ![k] = b]
           IN  /\ BucketsOK(cs) /\ Keeps(bs, cs) /\ cs[k] = b
               /\ \A n \in L!Keys \ {k} : cs[n] = bs[n]
<1> DEFINE cs == [bs EXCEPT ![k] = b]
<1>1. bs \in [L!Keys -> L!Bucket \cup {None}] /\ b # None
    BY LimiterAssumption DEF BucketsOK
<1>2. /\ cs \in [L!Keys -> L!Bucket \cup {None}] /\ cs[k] = b
      /\ \A n \in L!Keys \ {k} : cs[n] = bs[n]
    BY <1>1
<1> HIDE DEF cs
<1>3. Used(cs) = Used(bs)
    BY <1>1, <1>2 DEF Used
<1>4. BucketsOK(cs)
    BY <1>1, <1>2, <1>3 DEF BucketsOK
<1>5. \A n \in L!Keys : bs[n] # None => bs[n].until \in Nat
    BY <1>1 DEF L!Bucket
<1>6. KeepsLocks(bs, cs)
    BY <1>1, <1>2, <1>5 DEF KeepsLocks, L!Locked
<1>7. \A n \in L!Keys : Succeeds(bs[n], bs[n])
    BY KeepsStays DEF Keeps
<1>8. \A n \in L!Keys : Succeeds(bs[n], cs[n])
    BY <1>2, <1>7
<1> QED
    BY <1>2, <1>4, <1>6, <1>8 DEF cs, Keeps

\* A fresh bucket, and one whose window begins anew.
LEMMA BucketsFresh ==
    ASSUME now \in Nat
    PROVE  /\ L!NewBucket \in L!Bucket /\ L!NewBucket.until = 0
           /\ \A b \in L!Bucket :
                  /\ L!Refreshed(b) \in L!Bucket
                  /\ L!Refreshed(b).until \in {b.until, 0}
                  /\ now < b.until => L!Refreshed(b).until = b.until
                  /\ Succeeds(b, L!Refreshed(b)) /\ now <= L!Refreshed(b).start + Window
<1>1. /\ L!NewBucket \in L!Bucket /\ L!NewBucket.until = 0 /\ L!NewBucket.start = now
    BY DEF L!NewBucket, L!Bucket
<1>2. ASSUME NEW b \in L!Bucket
      PROVE  /\ L!Refreshed(b) \in L!Bucket
             /\ L!Refreshed(b).until \in {b.until, 0}
             /\ now < b.until => L!Refreshed(b).until = b.until
             /\ Succeeds(b, L!Refreshed(b)) /\ now <= L!Refreshed(b).start + Window
    <2> DEFINE c == [b EXCEPT !.start = now, !.count = 0]
    <2>1. c \in L!Bucket /\ c.until = b.until /\ c.start = now
        BY DEF L!Bucket
    <2>2. L!Refreshed(b) \in {c, L!NewBucket, b}
          /\ (now < b.until => L!Refreshed(b) \in {c, b})
        BY DEF L!Refreshed
    <2>3. b.start \in Nat /\ b.count \in Nat /\ Window \in Nat /\ None \notin L!Bucket
        BY LimiterAssumption DEF L!Bucket
    <2>4. CASE now - b.start > Window
        <3>1. L!Refreshed(b) \in {c, L!NewBucket}
            BY <2>4 DEF L!Refreshed
        <3>2. L!Refreshed(b) # None /\ L!Refreshed(b).start = now
            BY <1>1, <2>1, <2>3, <3>1
        <3>3. now > b.start + Window
            BY <2>3, <2>4
        <3>4. Succeeds(b, L!Refreshed(b)) /\ now <= L!Refreshed(b).start + Window
            BY <2>3, <3>2, <3>3 DEF Succeeds
        <3> HIDE DEF c
        <3> QED
            BY <1>1, <2>1, <2>2, <3>4
    <2>5. CASE ~(now - b.start > Window)
        <3>1. L!Refreshed(b) = b
            BY <2>5 DEF L!Refreshed
        <3>2. now <= b.start + Window /\ b.count >= b.count
            BY <2>3, <2>5
        <3> QED
            BY <2>3, <3>1, <3>2 DEF Succeeds
    <2> QED
        BY <2>4, <2>5
<1> QED
    BY <1>1, <1>2

\* Forgetting buckets ends no lock-out.
LEMMA ForgetStep ==
    ASSUME now \in Nat, NEW bs, BucketsOK(bs)
    PROVE  /\ BucketsOK(L!Forgotten(bs)) /\ Keeps(bs, L!Forgotten(bs))
           /\ \A n \in L!Keys : L!Forgotten(bs)[n] \in {bs[n], None}
<1> DEFINE cs == L!Forgotten(bs)
<1>1. bs \in [L!Keys -> L!Bucket \cup {None}]
    BY DEF BucketsOK
<1>2. /\ cs \in [L!Keys -> L!Bucket \cup {None}]
      /\ \A k \in L!Keys : cs[k] # bs[k] =>
             /\ cs[k] = None /\ bs[k] # None /\ now > bs[k].until
             /\ now - bs[k].start > 2 * Window
    <2> DEFINE gone(k) == bs[k] # None /\ L!Forgettable(bs[k])
    <2>1. cs = [k \in L!Keys |-> IF gone(k) THEN None ELSE bs[k]]
        BY DEF L!Forgotten
    <2>2. \A k \in L!Keys : gone(k) =>
              /\ bs[k] # None /\ now > bs[k].until
              /\ now - bs[k].start > 2 * Window
        BY DEF L!Forgettable
    <2> HIDE DEF gone, cs
    <2> QED
        BY <1>1, <2>1, <2>2
<1> HIDE DEF cs
<1>3. Used(cs) \subseteq Used(bs)
    BY <1>2 DEF Used
<1>4. Cardinality(Used(cs)) <= MaxBuckets
    BY <1>3, UsedShrinks, UsedIsFinite, LimiterAssumption DEF BucketsOK
<1>5. BucketsOK(cs)
    BY <1>2, <1>4 DEF BucketsOK
<1>6. \A k \in L!Keys : bs[k] # None => bs[k].until \in Nat
    BY <1>1 DEF L!Bucket
<1>7. KeepsLocks(bs, cs)
    BY <1>2, <1>6 DEF KeepsLocks, L!Locked
<1>8. ASSUME NEW k \in L!Keys
      PROVE  Succeeds(bs[k], cs[k])
    <2>1. CASE cs[k] = bs[k]
        BY <2>1, KeepsStays DEF Keeps
    <2>2. CASE cs[k] # bs[k]
        <3>1. cs[k] = None /\ bs[k] # None /\ now - bs[k].start > 2 * Window
            BY <1>2, <2>2
        <3>2. bs[k].start \in Nat /\ Window \in Nat
            BY <1>1, <3>1, LimiterAssumption DEF L!Bucket
        <3>3. now > bs[k].start + Window + Window
            BY <3>1, <3>2
        <3> QED
            BY <3>1, <3>3 DEF Succeeds
    <2> QED
        BY <2>1, <2>2
<1> QED
    BY <1>2, <1>5, <1>7, <1>8 DEF cs, Keeps

\* getBucketLocked: there is room for the bucket it makes.
LEMMA FetchStep ==
    ASSUME now \in Nat, NEW bs, BucketsOK(bs), NEW k \in L!Keys
    PROVE  /\ BucketsOK(L!Fetch(bs, k)) /\ Keeps(bs, L!Fetch(bs, k))
           /\ L!Fetch(bs, k)[k] # None => now <= L!Fetch(bs, k)[k].start + Window
           /\ \A n \in L!Keys \ {k} : L!Fetch(bs, k)[n] \in {bs[n], None}
<1> DEFINE room == IF L!Full(bs) THEN L!Forgotten(bs) ELSE bs
<1>1. bs \in [L!Keys -> L!Bucket \cup {None}]
    BY DEF BucketsOK
<1>2. /\ BucketsOK(room) /\ Keeps(bs, room)
      /\ \A n \in L!Keys : room[n] \in {bs[n], None}
    BY ForgetStep, KeepsStays
<1>3. CASE bs[k] # None
    <2> DEFINE b == L!Refreshed(bs[k])
    <2>1. bs[k] \in L!Bucket
        BY <1>1, <1>3
    <2>2. /\ b \in L!Bucket /\ b.until \in {bs[k].until, 0}
          /\ now < bs[k].until => b.until = bs[k].until
          /\ Succeeds(bs[k], b) /\ now <= b.start + Window
        BY <2>1, BucketsFresh
    <2>3. bs[k].until \in Nat /\ bs[k].until <= now + LockFor
        BY <1>3, <2>1 DEF BucketsOK, L!Bucket
    <2>4. L!Fetch(bs, k) = [bs EXCEPT ![k] = b]
        BY <1>3 DEF L!Fetch
    <2> HIDE DEF b
    <2>5. b.until <= now + LockFor /\ (now < bs[k].until => b.until >= bs[k].until)
        BY <2>2, <2>3, LimiterAssumption
    <2> DEFINE cs == [bs EXCEPT ![k] = b]
    <2>6. /\ BucketsOK(cs) /\ Keeps(bs, cs) /\ cs[k] = b
          /\ \A n \in L!Keys \ {k} : cs[n] = bs[n]
        BY <1>3, <2>2, <2>5, ReplaceOne
    <2> HIDE DEF cs
    <2> QED
        BY <2>2, <2>4, <2>6 DEF cs
<1>4. CASE bs[k] = None /\ L!Full(room)
    <2>1. L!Fetch(bs, k) = room
        BY <1>4 DEF L!Fetch
    <2>2. room[k] = None
        BY <1>2, <1>4
    <2> HIDE DEF room
    <2> QED
        BY <1>2, <2>1, <2>2
<1>5. CASE bs[k] = None /\ ~L!Full(room)
    <2> DEFINE cs == [room EXCEPT ![k] = L!NewBucket]
    <2>1. L!Fetch(bs, k) = cs
        BY <1>5 DEF L!Fetch
    <2>2. Cardinality(Used(room)) < MaxBuckets
        <3>1. ~(Cardinality(Used(room)) >= MaxBuckets)
            BY <1>5, LimiterSets DEF L!Full, Used
        <3> QED
            BY <3>1, UsedIsFinite, LimiterAssumption
    <2>3. room \in [L!Keys -> L!Bucket \cup {None}] /\ L!NewBucket \in L!Bucket
          /\ L!NewBucket.until = 0
        BY <1>2, BucketsFresh DEF BucketsOK
    <2>4. room[k] = None
        BY <1>1, <1>5 DEF L!Forgotten
    <2> HIDE DEF room
    <2>5. /\ cs \in [L!Keys -> L!Bucket \cup {None}] /\ cs[k] = L!NewBucket
          /\ \A n \in L!Keys \ {k} : cs[n] = room[n]
          /\ L!NewBucket.start = now /\ now <= L!NewBucket.start + Window
        BY <2>3, LimiterAssumption DEF L!NewBucket
    <2> HIDE DEF cs
    <2>6. Used(cs) \subseteq Used(room) \cup {k}
        BY <2>5 DEF Used
    <2>7. Cardinality(Used(cs)) <= MaxBuckets
        <3>1. IsFiniteSet(Used(room) \cup {k})
              /\ Cardinality(Used(room) \cup {k}) <= Cardinality(Used(room)) + 1
            <4> DEFINE used == Used(room)
            <4>1. IsFiniteSet(used) /\ Cardinality(used) \in Nat
                BY UsedIsFinite
            <4> HIDE DEF used
            <4>2. IsFiniteSet(used \cup {k}) /\ Cardinality(used \cup {k}) =
                      IF k \in used THEN Cardinality(used) ELSE Cardinality(used) + 1
                BY <4>1, FS_AddElement
            <4>3. Cardinality(used \cup {k}) <= Cardinality(used) + 1
                BY <4>1, <4>2
            <4> QED
                BY <4>2, <4>3 DEF used
        <3>2. Cardinality(Used(cs)) <= Cardinality(Used(room) \cup {k})
            BY <2>6, <3>1, FS_Subset
        <3>3. Cardinality(Used(room) \cup {k}) \in Nat
            BY <3>1, FS_CardinalityType
        <3> QED
            BY <2>2, <3>1, <3>2, <3>3, UsedIsFinite, LimiterAssumption
    <2>8. BucketsOK(cs)
        BY <1>2, <2>3, <2>5, <2>7, LimiterAssumption DEF BucketsOK
    <2>9. KeepsLocks(bs, cs)
        BY <1>2, <1>5, <2>5 DEF Keeps, KeepsLocks, L!Locked
    <2>10. Succeeds(bs[k], cs[k])
        BY <1>5, <2>3, <2>5, LimiterAssumption DEF Succeeds
    <2>11. Keeps(bs, cs)
        BY <1>2, <2>5, <2>9, <2>10 DEF Keeps
    <2> QED
        BY <1>2, <2>1, <2>5, <2>8, <2>11
<1> QED
    BY <1>3, <1>4, <1>5

\* A key that is counted after another step of the loop.
LEMMA RaisedLater ==
    ASSUME now \in Nat, NEW bs, NEW cs, NEW ds, BucketsOK(bs), BucketsOK(cs), BucketsOK(ds),
           Keeps(bs, cs), NEW k \in L!Keys, Raised(cs[k], ds[k])
    PROVE  Raised(bs[k], ds[k])
<1>1. bs[k] \in L!Bucket \cup {None} /\ cs[k] \in L!Bucket \cup {None}
      /\ ds[k] \in L!Bucket \cup {None}
    BY DEF BucketsOK
<1> QED
    BY <1>1, BucketsSucceed DEF Keeps

\* The keys of a request as a set.
LEMMA KeysInSet ==
    ASSUME NEW keys, IsKeys(keys)
    PROVE  /\ L!ToSet(keys) = IF Len(keys) = 2 THEN {keys[1], keys[2]}
                                               ELSE {keys[1], keys[2], keys[3]}
           /\ L!ToSet(keys) \subseteq L!Keys
<1>1. DOMAIN keys = 1..Len(keys) /\ Len(keys) \in {2, 3}
    BY DEF IsKeys
<1>2. CASE Len(keys) = 2
    <2>1. DOMAIN keys = {1, 2}
        BY <1>1, <1>2
    <2> QED
        BY <1>2, <2>1, KeysInRange DEF L!ToSet
<1>3. CASE Len(keys) = 3
    <2>1. DOMAIN keys = {1, 2, 3}
        BY <1>1, <1>3
    <2> QED
        BY <1>3, <2>1, KeysInRange DEF L!ToSet
<1> QED
    BY <1>1, <1>2, <1>3

\* One key of the loop that counts.
LEMMA CountStep ==
    ASSUME now \in Nat, NEW bs, BucketsOK(bs), NEW k \in L!Keys, NEW cs,
           cs = LET fetched == L!Fetch(bs, k)
                IN  IF fetched[k] = None THEN fetched
                    ELSE [fetched EXCEPT ![k].count = @ + 1]
    PROVE  /\ BucketsOK(cs) /\ Keeps(bs, cs)
           /\ Raised(bs[k], cs[k])
           /\ \A n \in L!Keys \ {k} : cs[n] \in {bs[n], None}
<1> DEFINE fetched == L!Fetch(bs, k)
           b == [fetched[k] EXCEPT !.count = @ + 1]
<1>1. /\ BucketsOK(fetched) /\ Keeps(bs, fetched)
      /\ fetched[k] # None => now <= fetched[k].start + Window
      /\ \A n \in L!Keys \ {k} : fetched[n] \in {bs[n], None}
    BY FetchStep
<1>2. CASE fetched[k] = None
    <2>1. cs = fetched
        BY <1>2
    <2> HIDE DEF fetched
    <2> QED
        BY <1>1, <1>2, <2>1 DEF Raised
<1>3. CASE fetched[k] # None
    <2>1. cs = [fetched EXCEPT ![k] = b]
        BY <1>3
    <2> HIDE DEF fetched
    <2>2. fetched[k] \in L!Bucket /\ fetched[k].until <= now + LockFor
        BY <1>1, <1>3 DEF BucketsOK
    <2>3. /\ b \in L!Bucket /\ b.until = fetched[k].until
          /\ b.start = fetched[k].start /\ b.count = fetched[k].count + 1
        BY <2>2 DEF L!Bucket
    <2> HIDE DEF b
    <2>4. /\ b.until <= now + LockFor /\ b.until >= fetched[k].until
          /\ fetched[k].count \in Nat /\ b # None
        <3>1. fetched[k].until \in Nat /\ fetched[k].count \in Nat
            BY <2>2 DEF L!Bucket
        <3>2. b # None
            BY <2>3, LimiterAssumption
        <3> QED
            BY <2>2, <2>3, <3>1, <3>2
    <2>5. Succeeds(fetched[k], b)
        BY <1>3, <2>3, <2>4 DEF Succeeds
    <2> DEFINE ds == [fetched EXCEPT ![k] = b]
    <2>6. /\ BucketsOK(cs) /\ Keeps(fetched, cs) /\ cs[k] = b
          /\ \A n \in L!Keys \ {k} : cs[n] = fetched[n]
        <3>1. /\ BucketsOK(ds) /\ Keeps(fetched, ds) /\ ds[k] = b
              /\ \A n \in L!Keys \ {k} : ds[n] = fetched[n]
            BY <1>1, <1>3, <2>3, <2>4, <2>5, ReplaceOne
        <3>2. cs = ds
            BY <2>1
        <3> HIDE DEF ds
        <3> QED
            BY <3>1, <3>2
    <2>7. Raised(fetched[k], cs[k])
        <3>1. b.count >= fetched[k].count + 1 /\ now <= b.start + Window
            BY <1>1, <1>3, <2>3, <2>4
        <3> QED
            BY <1>3, <2>3, <2>6, <3>1 DEF Raised
    <2>8. Raised(bs[k], cs[k])
        <3>1. bs[k] \in L!Bucket \cup {None} /\ cs[k] \in L!Bucket \cup {None}
            BY <2>6 DEF BucketsOK
        <3> QED
            BY <1>1, <2>2, <2>7, <3>1, BucketsSucceed DEF Keeps
    <2>9. Keeps(bs, cs)
        BY <1>1, <2>6, KeepsComposes
    <2> QED
        BY <1>1, <2>6, <2>8, <2>9
<1> QED
    BY <1>2, <1>3

\* One key of the loop that records a failure: the lock-out it begins ends after
\* any that was there before.
LEMMA FailStep ==
    ASSUME now \in Nat, NEW bs, BucketsOK(bs), NEW k \in L!Keys, NEW cs,
           cs = LET fetched == L!Fetch(bs, k)
                IN  IF fetched[k] = None THEN fetched
                    ELSE [fetched EXCEPT ![k] = L!Failed(@, k)]
    PROVE  BucketsOK(cs) /\ Keeps(bs, cs)
<1> DEFINE fetched == L!Fetch(bs, k)
           b == L!Failed(fetched[k], k)
<1>1. BucketsOK(fetched) /\ Keeps(bs, fetched)
    BY FetchStep
<1>2. CASE fetched[k] = None
    BY <1>1, <1>2
<1>3. CASE fetched[k] # None
    <2>1. cs = [fetched EXCEPT ![k] = b]
        BY <1>3
    <2> HIDE DEF fetched
    <2>2. fetched[k] \in L!Bucket /\ fetched[k].until <= now + LockFor
          /\ fetched[k].until \in Nat
        BY <1>1, <1>3 DEF BucketsOK, L!Bucket
    <2>3. now + LockFor \in Nat
        BY LimiterAssumption
    <2>4. /\ b \in L!Bucket /\ b.until \in {fetched[k].until, now + LockFor}
          /\ b.start = fetched[k].start /\ b.count = fetched[k].count
        <3> DEFINE locked == [fetched[k] EXCEPT !.fails = 0, !.until = now + LockFor]
                   counted == [fetched[k] EXCEPT !.fails = @ + 1]
        <3>1. locked \in L!Bucket /\ locked.until = now + LockFor
              /\ locked.start = fetched[k].start /\ locked.count = fetched[k].count
            BY <2>2, <2>3 DEF L!Bucket
        <3>2. counted \in L!Bucket /\ counted.until = fetched[k].until
              /\ counted.start = fetched[k].start /\ counted.count = fetched[k].count
            BY <2>2 DEF L!Bucket
        <3>3. b \in {locked, counted}
            BY DEF L!Failed
        <3> QED
            BY <3>1, <3>2, <3>3
    <2> HIDE DEF b
    <2>5. b.until <= now + LockFor /\ b.until >= fetched[k].until
        BY <2>2, <2>3, <2>4
    <2>6. Succeeds(fetched[k], b)
        BY <1>3, <2>2, <2>4, LimiterAssumption DEF Succeeds, L!Bucket
    <2>7. BucketsOK(cs) /\ Keeps(fetched, cs)
        BY <1>1, <1>3, <2>1, <2>4, <2>5, <2>6, ReplaceOne
    <2> QED
        BY <1>1, <2>7, KeepsComposes
<1> QED
    BY <1>2, <1>3

\* The loop that counts, over two or three keys.
LEMMA CountKeeps ==
    ASSUME now \in Nat, NEW bs, BucketsOK(bs), NEW keys, IsKeys(keys)
    PROVE  /\ BucketsOK(L!Count(bs, keys)) /\ Keeps(bs, L!Count(bs, keys))
           /\ \A k \in L!ToSet(keys) : Raised(bs[k], L!Count(bs, keys)[k])
<1> DEFINE Body(acc, k) ==
               LET fetched == L!Fetch(acc, k)
               IN  IF fetched[k] = None THEN fetched
                   ELSE [fetched EXCEPT ![k].count = @ + 1]
           one == Body(bs, keys[1])
           two == Body(one, keys[2])
           three == Body(two, keys[3])
<1>1. L!Count(bs, keys) = IF Len(keys) = 2 THEN two ELSE three
    BY DEF L!Count, L!Loop
<1>2. \A acc, k, cs : cs = Body(acc, k) /\ BucketsOK(acc) /\ k \in L!Keys =>
          /\ BucketsOK(cs) /\ Keeps(acc, cs) /\ Raised(acc[k], cs[k])
          /\ \A n \in L!Keys \ {k} : cs[n] \in {acc[n], None}
    BY CountStep
<1> HIDE DEF Body
<1>3. /\ BucketsOK(one) /\ Keeps(bs, one) /\ Raised(bs[keys[1]], one[keys[1]])
    BY <1>2, KeysInRange
<1>4. /\ BucketsOK(two) /\ Keeps(one, two) /\ Raised(one[keys[2]], two[keys[2]])
      /\ \A n \in L!Keys \ {keys[2]} : two[n] \in {one[n], None}
    BY <1>2, <1>3, KeysInRange
<1>5. Len(keys) # 2 =>
          /\ BucketsOK(three) /\ Keeps(two, three) /\ Raised(two[keys[3]], three[keys[3]])
          /\ \A n \in L!Keys \ {keys[3]} : three[n] \in {two[n], None}
    BY <1>2, <1>4, KeysInRange
<1> HIDE DEF one, two, three
<1>6. Keeps(bs, two)
    BY <1>3, <1>4, KeepsComposes
<1>7. Len(keys) # 2 => Keeps(bs, three)
    BY <1>4, <1>5, <1>6, KeepsComposes
\* A key that was counted keeps its count, or loses its bucket.
<1>8. \A k \in L!Keys : Raised(bs[k], None)
    BY DEF Raised
<1>9. \A k \in {keys[1], keys[2]} : Raised(bs[k], two[k])
    <2>1. Raised(bs[keys[2]], two[keys[2]])
        BY <1>3, <1>4, KeysInRange, RaisedLater
    <2>2. keys[1] # keys[2] => Raised(bs[keys[1]], two[keys[1]])
        BY <1>3, <1>4, <1>8, KeysInRange
    <2> QED
        BY <2>1, <2>2
<1>10. Len(keys) # 2 => \A k \in {keys[1], keys[2], keys[3]} : Raised(bs[k], three[k])
    <2> SUFFICES ASSUME Len(keys) # 2
                 PROVE  \A k \in {keys[1], keys[2], keys[3]} : Raised(bs[k], three[k])
        OBVIOUS
    <2>1. Raised(bs[keys[3]], three[keys[3]])
        BY <1>4, <1>5, <1>6, KeysInRange, RaisedLater
    <2>2. \A k \in {keys[1], keys[2]} : k # keys[3] => Raised(bs[k], three[k])
        BY <1>5, <1>8, <1>9, KeysInRange
    <2> QED
        BY <2>1, <2>2
<1>11. L!ToSet(keys) = IF Len(keys) = 2 THEN {keys[1], keys[2]}
                                        ELSE {keys[1], keys[2], keys[3]}
    BY KeysInSet
<1> QED
    BY <1>1, <1>4, <1>5, <1>6, <1>7, <1>9, <1>10, <1>11

\* The loop that records a failure.
LEMMA FailuresKeep ==
    ASSUME now \in Nat, BucketsOK(buckets), NEW a \in Attempts, IsKeys(attempt[a]),
           L!RecordLoginFailure(a)
    PROVE  BucketsOK(buckets') /\ Keeps(buckets, buckets')
<1> DEFINE keys == attempt[a]
           Body(acc, k) ==
               LET bs == L!Fetch(acc, k)
               IN  IF bs[k] = None THEN bs
                   ELSE [bs EXCEPT ![k] = L!Failed(@, k)]
           one == Body(buckets, keys[1])
           two == Body(one, keys[2])
           three == Body(two, keys[3])
<1>1. buckets' = IF Len(keys) = 2 THEN two ELSE three
    BY DEF L!RecordLoginFailure, L!Loop
<1>2. \A acc, k, cs : cs = Body(acc, k) /\ BucketsOK(acc) /\ k \in L!Keys =>
          BucketsOK(cs) /\ Keeps(acc, cs)
    BY FailStep
<1> HIDE DEF Body
<1>3. BucketsOK(one) /\ Keeps(buckets, one)
    BY <1>2, KeysInRange
<1>4. BucketsOK(two) /\ Keeps(one, two)
    BY <1>2, <1>3, KeysInRange
<1>5. Len(keys) # 2 => BucketsOK(three) /\ Keeps(two, three)
    BY <1>2, <1>4, KeysInRange
<1> HIDE DEF one, two, three
<1>6. Keeps(buckets, two)
    BY <1>3, <1>4, KeepsComposes
<1>7. Len(keys) # 2 => Keeps(buckets, three)
    BY <1>4, <1>5, <1>6, KeepsComposes
<1> QED
    BY <1>1, <1>4, <1>5, <1>6, <1>7

\* The loop that looks for a locked key.
LEMMA FetchAllKeeps ==
    ASSUME now \in Nat, BucketsOK(buckets), NEW keys, IsKeys(keys)
    PROVE  BucketsOK(L!FetchAll(keys).bs) /\ Keeps(buckets, L!FetchAll(keys).bs)
<1> DEFINE Body(acc, k) ==
               IF acc.locked THEN acc
               ELSE LET bs == L!Fetch(acc.bs, k)
                    IN  [bs |-> bs, locked |-> L!Locked(bs, k)]
           start == [bs |-> buckets, locked |-> FALSE]
           one == Body(start, keys[1])
           two == Body(one, keys[2])
           three == Body(two, keys[3])
<1>1. L!FetchAll(keys) = IF Len(keys) = 2 THEN two ELSE three
    BY DEF L!FetchAll, L!Loop
<1>2. \A acc, k, cs : cs = Body(acc, k) /\ BucketsOK(acc.bs) /\ k \in L!Keys =>
          BucketsOK(cs.bs) /\ Keeps(acc.bs, cs.bs)
    BY FetchStep, KeepsStays
<1>3. start.bs = buckets
    OBVIOUS
<1> HIDE DEF Body, start
<1>4. BucketsOK(one.bs) /\ Keeps(buckets, one.bs)
    BY <1>2, <1>3, KeysInRange
<1>5. BucketsOK(two.bs) /\ Keeps(one.bs, two.bs)
    BY <1>2, <1>4, KeysInRange
<1>6. Len(keys) # 2 => BucketsOK(three.bs) /\ Keeps(two.bs, three.bs)
    BY <1>2, <1>5, KeysInRange
<1> HIDE DEF one, two, three
<1>7. Keeps(buckets, two.bs)
    BY <1>4, <1>5, KeepsComposes
<1>8. Len(keys) # 2 => Keeps(buckets, three.bs)
    BY <1>5, <1>6, <1>7, KeepsComposes
<1> QED
    BY <1>1, <1>5, <1>6, <1>7, <1>8

-----------------------------------------------------------------------------
\* What a bucket has let pass: a the attempts, b the bucket, n the time.  In the
\* window that began last, no more than it counted; in as long a stretch before
\* that, no more than its limit.
Sparse(a, b, n, limit) ==
    /\ \A pass \in a : pass[2] <= n
    /\ b = None => \A pass \in a : pass[2] + Window < n
    /\ b # None =>
           /\ b.start <= n
           /\ \A pass \in a : pass[2] <= b.start + Window
           /\ Cardinality({pass \in a : b.start <= pass[2]}) <= b.count
           /\ Cardinality({pass \in a : b.start <= pass[2]}) <= limit
           /\ Cardinality({pass \in a : b.start <= pass[2] + Window /\ pass[2] < b.start})
                  <= limit

Passes == (1..MaxAttempts) \X (1..MaxTime)

LimiterInv ==
    /\ L!TypeOK
    /\ BucketsOK(buckets)
    /\ \A a \in Attempts : attempt[a] # None => IsKeys(attempt[a])
    /\ \A k \in L!Keys : Sparse(admitted[k], buckets[k], now, L!Limit(k))

\* Attempts that passed are finitely many.
LEMMA PassesAreFinite ==
    ASSUME NEW a \in SUBSET Passes
    PROVE  /\ IsFiniteSet(a) /\ Cardinality(a) \in Nat
           /\ \A c \in SUBSET a : /\ IsFiniteSet(c) /\ Cardinality(c) \in Nat
                                 /\ Cardinality(c) <= Cardinality(a)
           /\ \A pass \in a : pass[2] \in Nat
<1>1. MaxAttempts \in Nat /\ MaxTime \in Nat
    BY LimiterAssumption
<1>2. IsFiniteSet(1..MaxAttempts) /\ IsFiniteSet(1..MaxTime)
    BY <1>1, FS_Interval
<1>3. IsFiniteSet(Passes)
    BY <1>2, FS_Product DEF Passes
<1>4. IsFiniteSet(a)
    BY <1>3, FS_Subset
<1>5. \A c \in SUBSET a : IsFiniteSet(c) /\ Cardinality(c) <= Cardinality(a)
    BY <1>4, FS_Subset
<1>6. \A pass \in a : pass[2] \in Nat
    BY <1>1 DEF Passes
<1> QED
    BY <1>4, <1>5, <1>6, FS_CardinalityType

\* globalAttemptMax and loginAttemptMax.
LEMMA LimitsAreNumbers == \A k \in L!Keys : L!Limit(k) \in Nat
    BY LimiterAssumption DEF L!Limit

\* A bucket that succeeds another, while nothing passes.
LEMMA SparseKept ==
    ASSUME now \in Nat, NEW a \in SUBSET Passes, NEW limit \in Nat,
           NEW b \in L!Bucket \cup {None}, NEW c \in L!Bucket \cup {None},
           Sparse(a, b, now, limit), Succeeds(b, c)
    PROVE  Sparse(a, c, now, limit)
<1>1. Window \in Nat /\ \A pass \in a : pass[2] \in Nat /\ pass[2] <= now
    BY PassesAreFinite, LimiterAssumption DEF Sparse
<1>2. CASE c = None
    <2>1. \A pass \in a : pass[2] + Window < now
        <3>1. CASE b = None
            BY <3>1 DEF Sparse
        <3>2. CASE b # None /\ now > b.start + Window + Window
            <4>1. b.start \in Nat
                BY <3>2 DEF L!Bucket
            <4>2. \A pass \in a : pass[2] <= b.start + Window
                BY <3>2 DEF Sparse
            <4> QED
                BY <1>1, <3>2, <4>1, <4>2
        <3> QED
            BY <1>2, <3>1, <3>2 DEF Succeeds
    <2> QED
        BY <1>1, <1>2, <2>1 DEF Sparse
<1>3. CASE c # None /\ c.start = now /\ (b = None \/ now > b.start + Window)
    <2> DEFINE new == {pass \in a : c.start <= pass[2]}
               old == {pass \in a : c.start <= pass[2] + Window /\ pass[2] < c.start}
    <2>1. b # None => b.start \in Nat /\ b.start <= now
        BY DEF L!Bucket, Sparse
    <2>2. \A pass \in a : pass[2] < now
        <3>1. CASE b = None
            BY <1>1, <3>1 DEF Sparse
        <3>2. CASE b # None
            <4>1. \A pass \in a : pass[2] <= b.start + Window
                BY <3>2 DEF Sparse
            <4> QED
                BY <1>1, <1>3, <2>1, <3>2, <4>1
        <3> QED
            BY <3>1, <3>2
    <2>3. new = {}
        BY <1>1, <1>3, <2>2
    <2>4. Cardinality(new) = 0
        BY <2>3, FS_EmptySet
    <2>5. Cardinality(old) <= limit
        <3>1. CASE b = None
            <4>1. old = {}
                BY <1>1, <1>3, <3>1 DEF Sparse
            <4>2. Cardinality(old) = 0
                BY <4>1, FS_EmptySet
            <4> HIDE DEF old
            <4> QED
                BY <4>2
        <3>2. CASE b # None
            <4> DEFINE last == {pass \in a : b.start <= pass[2]}
            <4>1. old \subseteq last
                BY <1>1, <1>3, <2>1, <3>2
            <4>2. last \in SUBSET Passes /\ Cardinality(last) <= limit
                BY <3>2 DEF Sparse
            <4> HIDE DEF last, old
            <4>3. Cardinality(old) <= Cardinality(last) /\ Cardinality(old) \in Nat
                  /\ Cardinality(last) \in Nat
                BY <4>1, <4>2, PassesAreFinite
            <4> QED
                BY <4>2, <4>3
        <3> QED
            BY <3>1, <3>2
    <2>6. c.count \in Nat
        BY <1>3 DEF L!Bucket
    <2>7. \A pass \in a : pass[2] <= c.start + Window
        BY <1>1, <1>3, <2>2
    <2> QED
        BY <1>1, <1>3, <2>4, <2>5, <2>6, <2>7 DEF Sparse
<1>4. CASE c # None /\ b # None /\ c.start = b.start /\ c.count >= b.count
    <2> DEFINE last == {pass \in a : b.start <= pass[2]}
    <2>1. b.count \in Nat /\ c.count \in Nat
        BY <1>4 DEF L!Bucket
    <2>2. Cardinality(last) \in Nat
        BY PassesAreFinite
    <2>3. Cardinality(last) <= b.count
        BY <1>4 DEF Sparse
    <2>4. Cardinality(last) <= c.count
        BY <1>4, <2>1, <2>2, <2>3
    <2> QED
        BY <1>4, <2>4 DEF Sparse
<1> QED
    BY <1>2, <1>3, <1>4 DEF Succeeds

\* A bucket that counted an attempt and let it pass.
LEMMA SparseGrows ==
    ASSUME now \in Nat, NEW a \in SUBSET Passes, NEW limit \in Nat,
           NEW b \in L!Bucket \cup {None}, NEW c \in L!Bucket,
           Sparse(a, b, now, limit), Raised(b, c), c.count <= limit,
           NEW pass \in Passes, pass[2] = now
    PROVE  Sparse(a \cup {pass}, c, now, limit)
<1> DEFINE new == {p \in a \cup {pass} : c.start <= p[2]}
           old == {p \in a \cup {pass} : c.start <= p[2] + Window /\ p[2] < c.start}
           before == {p \in a : c.start <= p[2]}
<1>1. /\ Window \in Nat /\ \A p \in a : p[2] \in Nat
      /\ c # None /\ c.start \in Nat /\ c.count \in Nat
      /\ b # None => b.start \in Nat /\ b.count \in Nat
    BY PassesAreFinite, LimiterAssumption DEF L!Bucket
<1>2. now <= c.start + Window
    BY <1>1 DEF Raised
\* But for the attempt itself, nothing passes; b with c's count less one would do.
<1>3. PICK d \in L!Bucket : /\ Sparse(a, d, now, limit)
                            /\ d.start = c.start /\ d.count + 1 <= c.count
    <2>1. CASE c.start = now /\ (b = None \/ now > b.start + Window) /\ c.count >= 1
        <3> DEFINE d == [c EXCEPT !.count = 0]
        <3>1. d \in L!Bucket /\ d.start = c.start /\ d.count = 0
            BY DEF L!Bucket
        <3>2. d # None
            BY <3>1, LimiterAssumption
        <3> HIDE DEF d
        <3>3. Succeeds(b, d)
            BY <2>1, <3>1, <3>2 DEF Succeeds
        <3> QED
            BY <1>1, <2>1, <3>1, <3>3, SparseKept
    <2>2. CASE b # None /\ c.start = b.start /\ c.count >= b.count + 1
        BY <1>1, <2>2
    <2> QED
        BY <1>1, <2>1, <2>2 DEF Raised
<1>4. d # None /\ d.count \in Nat
    BY <1>3, LimiterAssumption DEF L!Bucket
<1>5. /\ c.start <= now
      /\ \A p \in a : p[2] <= now /\ p[2] <= c.start + Window
      /\ Cardinality(before) <= d.count
      /\ Cardinality({p \in a : c.start <= p[2] + Window /\ p[2] < c.start}) <= limit
    BY <1>3, <1>4 DEF Sparse
<1>6. new \subseteq before \cup {pass} /\ before \in SUBSET Passes
    OBVIOUS
<1>7. old = {p \in a : c.start <= p[2] + Window /\ p[2] < c.start}
    BY <1>1, <1>5
<1>8. Cardinality(new) <= c.count
    <2> HIDE DEF new, before
    <2>1. IsFiniteSet(before) /\ Cardinality(before) \in Nat
        BY <1>6, PassesAreFinite
    <2>2. /\ IsFiniteSet(before \cup {pass})
          /\ Cardinality(before \cup {pass})
                 = IF pass \in before THEN Cardinality(before) ELSE Cardinality(before) + 1
        BY <2>1, FS_AddElement
    <2>3. Cardinality(new) <= Cardinality(before \cup {pass}) /\ IsFiniteSet(new)
        BY <1>6, <2>2, FS_Subset
    <2>4. Cardinality(new) \in Nat
        BY <2>3, FS_CardinalityType
    <2> QED
        BY <1>1, <1>3, <1>4, <1>5, <2>1, <2>2, <2>3, <2>4
<1>9. Cardinality(new) <= limit
    <2>1. Cardinality(new) \in Nat
        BY PassesAreFinite
    <2> QED
        BY <1>1, <1>8, <2>1
<1>10. \A p \in a \cup {pass} : p[2] <= now /\ p[2] <= c.start + Window
    BY <1>2, <1>5
<1> HIDE DEF new, old
<1>11. Cardinality(old) <= limit
    BY <1>5, <1>7
<1> QED
    BY <1>1, <1>5, <1>8, <1>9, <1>10, <1>11 DEF Sparse, new, old

\* The lock-outs the success of a login ends.
EndedBy(k) ==
    k # Global /\ \E a \in Attempts :
        L!ResetLoginCounter(a) /\ k \in L!ToSet(attempt[a])

\* A lock-out is not shortened in a step but by such a success.
LocksEndRightly ==
    \A k \in L!Keys : L!Locked(buckets, k) =>
        \/ buckets'[k] # None /\ buckets'[k].until >= buckets[k].until
        \/ EndedBy(k)


\* Buckets that are kept, while nothing passes, stay sparse.
LEMMA SparseKeptAll ==
    ASSUME LimiterInv, BucketsOK(buckets'), admitted' = admitted, now' = now,
           \A k \in L!Keys : Succeeds(buckets[k], buckets'[k])
    PROVE  \A k \in L!Keys : Sparse(admitted'[k], buckets'[k], now', L!Limit(k))
<1> SUFFICES ASSUME NEW k \in L!Keys
             PROVE  Sparse(admitted[k], buckets'[k], now, L!Limit(k))
    OBVIOUS
<1>1. /\ now \in Nat /\ admitted[k] \in SUBSET Passes /\ L!Limit(k) \in Nat
      /\ Sparse(admitted[k], buckets[k], now, L!Limit(k))
    BY LimitsAreNumbers DEF LimiterInv, L!TypeOK, Passes
<1>2. buckets[k] \in L!Bucket \cup {None} /\ buckets'[k] \in L!Bucket \cup {None}
    BY DEF LimiterInv, BucketsOK
<1> QED
    BY <1>1, <1>2, SparseKept

\* One step of the limiter.
LEMMA LimiterStep ==
    ASSUME LimiterInv, L!Next
    PROVE  LimiterInv' /\ LocksEndRightly
<1>1. /\ L!TypeOK /\ BucketsOK(buckets) /\ now \in Nat
      /\ \A a \in Attempts : attempt[a] # None => IsKeys(attempt[a])
      /\ admitted \in [L!Keys -> SUBSET Passes]
    BY DEF LimiterInv, L!TypeOK, Passes
\* What is enough.
<1>2. ASSUME now' \in 1..MaxTime, made' \in 0..MaxAttempts, now <= now',
             BucketsOK(buckets'), attempt' \in [Attempts -> Seq(L!Keys) \cup {None}],
             \A a \in Attempts : attempt'[a] # None => IsKeys(attempt'[a]),
             KeepsLocks(buckets, buckets') \/ LocksEndRightly,
             admitted' \in [L!Keys -> SUBSET Passes],
             \A k \in L!Keys : Sparse(admitted'[k], buckets'[k], now', L!Limit(k))
      PROVE  LimiterInv' /\ LocksEndRightly
    <2>1. LocksEndRightly
        BY <1>2 DEF KeepsLocks, LocksEndRightly
    <2>2. buckets' \in [L!Keys -> L!Bucket \cup {None}]
        BY <1>2 DEF BucketsOK
    <2>3. Used(buckets') = {k \in L!Keys : buckets'[k] # None}
        BY DEF Used
    <2>4. L!Cardinality({k \in L!Keys : buckets'[k] # None}) <= MaxBuckets
        BY <1>2, <2>3, LimiterSets DEF BucketsOK
    <2>5. \A k \in L!Keys : buckets'[k] # None => buckets'[k].until <= now' + LockFor
        <3>1. SUFFICES ASSUME NEW k \in L!Keys, buckets'[k] # None
                       PROVE  buckets'[k].until <= now' + LockFor
            OBVIOUS
        <3>2. buckets'[k].until <= now + LockFor /\ buckets'[k].until \in Nat
            BY <1>2, <2>2, <3>1 DEF BucketsOK, L!Bucket
        <3>3. now' \in Nat /\ LockFor \in Nat
            BY <1>2, LimiterAssumption
        <3> QED
            BY <1>1, <1>2, <3>2, <3>3
    <2>6. BucketsOK(buckets)'
        BY <1>2, <2>2, <2>5 DEF BucketsOK, Used
    <2>7. L!TypeOK'
        BY <1>2, <2>2, <2>4 DEF L!TypeOK, Passes
    <2> QED
        BY <1>2, <2>1, <2>6, <2>7 DEF LimiterInv
<1>3. ASSUME NEW a \in Attempts, NEW s \in Sources, NEW u \in Accounts \cup {None},
             L!LoginRateLimit(a, L!KeysOf(s, u))
      PROVE  /\ BucketsOK(buckets') /\ KeepsLocks(buckets, buckets')
             /\ attempt' \in [Attempts -> Seq(L!Keys) \cup {None}]
             /\ \A b \in Attempts : attempt'[b] # None => IsKeys(attempt'[b])
             /\ now' = now /\ made' \in 0..MaxAttempts
             /\ admitted' \in [L!Keys -> SUBSET Passes]
             /\ \A k \in L!Keys : Sparse(admitted'[k], buckets'[k], now', L!Limit(k))
    <2> DEFINE keys == L!KeysOf(s, u)
               fetched == L!FetchAll(keys)
               counting == L!Count(fetched.bs, keys)
               counted == {k \in L!ToSet(keys) : counting[k] # None}
               pass == <<made', now>>
    <2>1. IsKeys(keys)
        BY KeysOfAreKeys
    <2>2. /\ now' = now
          /\ attempt' = attempt \/ attempt' = [attempt EXCEPT ![a] = keys]
          /\ made < MaxAttempts /\ made' = made + 1
          /\ \/ buckets' \in {fetched.bs, counting} /\ admitted' = admitted
             \/ /\ buckets' = counting
                /\ \A k \in counted : ~L!Over(counting[k], k)
                /\ admitted' = [k \in L!Keys |-> IF k \in counted THEN admitted[k] \cup {pass}
                                                                ELSE admitted[k]]
        BY <1>3 DEF L!LoginRateLimit
    <2> HIDE DEF keys
    <2>3. BucketsOK(fetched.bs) /\ Keeps(buckets, fetched.bs)
        BY <1>1, <2>1, FetchAllKeeps
    <2> DEFINE bs == fetched.bs
    <2> HIDE DEF fetched
    <2>4. /\ BucketsOK(counting) /\ Keeps(bs, counting)
          /\ \A k \in L!ToSet(keys) : Raised(bs[k], counting[k])
        BY <1>1, <2>1, <2>3, CountKeeps
    <2> HIDE DEF counting
    <2>5. Keeps(buckets, counting)
        BY <1>1, <2>3, <2>4, KeepsComposes
    <2>6. /\ attempt' \in [Attempts -> Seq(L!Keys) \cup {None}]
          /\ \A b \in Attempts : attempt'[b] # None => IsKeys(attempt'[b])
        <3>1. keys \in Seq(L!Keys) /\ attempt \in [Attempts -> Seq(L!Keys) \cup {None}]
            BY <1>1, <2>1 DEF IsKeys, L!TypeOK
        <3>2. \A b \in Attempts : attempt'[b] \in {attempt[b], keys}
            BY <2>2, <3>1
        <3>3. attempt' \in [Attempts -> Seq(L!Keys) \cup {None}]
            BY <2>2, <3>1
        <3> QED
            BY <1>1, <2>1, <3>2, <3>3
    <2>7. made' \in 0..MaxAttempts /\ made' \in 1..MaxAttempts
        BY <1>1, <2>2, LimiterAssumption DEF L!TypeOK
    <2>8. BucketsOK(buckets') /\ Keeps(buckets, buckets')
        BY <2>2, <2>3, <2>4, <2>5
    <2>9. pass \in Passes /\ pass[2] = now
        BY <1>1, <2>7 DEF Passes, L!TypeOK
    <2> HIDE DEF pass
    <2>10. admitted' \in [L!Keys -> SUBSET Passes]
        <3>1. CASE admitted' = admitted
            BY <1>1, <3>1
        <3>2. CASE admitted' = [k \in L!Keys |-> IF k \in counted THEN admitted[k] \cup {pass}
                                                               ELSE admitted[k]]
            BY <1>1, <2>9, <3>2
        <3> QED
            BY <2>2, <3>1, <3>2
    <2>11. \A k \in L!Keys : Sparse(admitted'[k], buckets'[k], now', L!Limit(k))
        <3>1. CASE admitted' = admitted
            BY <2>2, <2>8, <3>1, SparseKeptAll DEF Keeps
        <3>2. CASE /\ buckets' = counting
                   /\ \A k \in counted : ~L!Over(counting[k], k)
                   /\ admitted' = [k \in L!Keys |-> IF k \in counted
                                                    THEN admitted[k] \cup {pass}
                                                    ELSE admitted[k]]
            <4> SUFFICES ASSUME NEW k \in L!Keys
                         PROVE  Sparse(admitted'[k], counting[k], now, L!Limit(k))
                BY <2>2, <3>2
            <4>1. /\ buckets[k] \in L!Bucket \cup {None} /\ counting[k] \in L!Bucket \cup {None}
                  /\ bs[k] \in L!Bucket \cup {None}
                  /\ admitted[k] \in SUBSET Passes /\ L!Limit(k) \in Nat
                  /\ Sparse(admitted[k], buckets[k], now, L!Limit(k))
                BY <1>1, <2>3, <2>4, LimitsAreNumbers DEF BucketsOK, LimiterInv
            <4>2. CASE k \notin counted
                BY <1>1, <2>5, <3>2, <4>1, <4>2, SparseKept DEF Keeps
            <4>3. CASE k \in counted
                <5>1. /\ counting[k] \in L!Bucket /\ Raised(bs[k], counting[k])
                      /\ Succeeds(buckets[k], bs[k]) /\ ~L!Over(counting[k], k)
                      /\ admitted'[k] = admitted[k] \cup {pass}
                    BY <2>3, <2>4, <3>2, <4>1, <4>3 DEF Keeps
                <5>2. Sparse(admitted[k], bs[k], now, L!Limit(k))
                    BY <1>1, <4>1, <5>1, SparseKept
                <5>3. counting[k].count <= L!Limit(k)
                    <6>1. counting[k].count \in Nat
                        BY <5>1 DEF L!Bucket
                    <6> QED
                        BY <4>1, <5>1, <6>1 DEF L!Over
                <5> HIDE DEF bs, counted
                <5>4. Sparse(admitted[k] \cup {pass}, counting[k], now, L!Limit(k))
                    BY <1>1, <2>9, <4>1, <5>1, <5>2, <5>3, SparseGrows
                <5> QED
                    BY <5>1, <5>4
            <4> QED
                BY <4>2, <4>3
        <3> QED
            BY <2>2, <3>1, <3>2
    <2> QED
        BY <2>2, <2>6, <2>7, <2>8, <2>10, <2>11 DEF Keeps
<1>4. ASSUME NEW a \in Attempts, L!Done(a)
      PROVE  /\ attempt' \in [Attempts -> Seq(L!Keys) \cup {None}]
             /\ \A b \in Attempts : attempt'[b] # None => IsKeys(attempt'[b])
             /\ now' = now /\ made' = made /\ attempt[a] # None /\ attempt'[a] = None
             /\ admitted' = admitted
    BY <1>1, <1>4 DEF L!Done, L!TypeOK
<1>5. CASE L!Tick
    <2>1. /\ now < MaxTime /\ now' = now + 1
          /\ UNCHANGED <<buckets, attempt, admitted, made>>
        BY <1>5 DEF L!Tick
    <2>2. now' \in 1..MaxTime /\ now <= now'
        BY <1>1, <2>1, LimiterAssumption DEF L!TypeOK
    <2>3. BucketsOK(buckets') /\ KeepsLocks(buckets, buckets')
        BY <1>1, <2>1, KeepsStays DEF Keeps
    <2>4. ASSUME NEW k \in L!Keys
          PROVE  Sparse(admitted[k], buckets[k], now + 1, L!Limit(k))
        <3>1. /\ Sparse(admitted[k], buckets[k], now, L!Limit(k))
              /\ buckets[k] # None => buckets[k].start \in Nat
              /\ \A pass \in admitted[k] : pass[2] \in Nat
            BY <1>1, PassesAreFinite DEF LimiterInv, BucketsOK, L!Bucket
        <3>2. \A pass \in admitted[k] : pass[2] <= now + 1
            BY <1>1, <3>1 DEF Sparse
        <3>3. buckets[k] = None => \A pass \in admitted[k] : pass[2] + Window < now + 1
            BY <1>1, <3>1, LimiterAssumption DEF Sparse
        <3>4. buckets[k] # None => buckets[k].start <= now + 1
            BY <1>1, <3>1 DEF Sparse
        <3> QED
            BY <3>1, <3>2, <3>3, <3>4 DEF Sparse
    <2> QED
        BY <1>1, <1>2, <2>1, <2>2, <2>3, <2>4 DEF L!TypeOK
<1>6. CASE \E a \in Attempts, s \in Sources, u \in Accounts \cup {None} :
               L!LoginRateLimit(a, L!KeysOf(s, u))
    <2>1. /\ BucketsOK(buckets') /\ KeepsLocks(buckets, buckets')
          /\ attempt' \in [Attempts -> Seq(L!Keys) \cup {None}]
          /\ \A b \in Attempts : attempt'[b] # None => IsKeys(attempt'[b])
          /\ now' = now /\ made' \in 0..MaxAttempts
          /\ admitted' \in [L!Keys -> SUBSET Passes]
          /\ \A k \in L!Keys : Sparse(admitted'[k], buckets'[k], now', L!Limit(k))
        BY <1>3, <1>6
    <2> QED
        BY <1>1, <1>2, <2>1 DEF L!TypeOK
<1>7. ASSUME NEW a \in Attempts, L!RecordLoginFailure(a)
      PROVE  BucketsOK(buckets') /\ Keeps(buckets, buckets') /\ L!Done(a)
    <2>1. L!Done(a) /\ IsKeys(attempt[a])
        BY <1>1, <1>4, <1>7 DEF L!RecordLoginFailure
    <2> QED
        BY <1>1, <1>7, <2>1, FailuresKeep
<1>8. ASSUME NEW a \in Attempts, L!ResetLoginCounter(a)
      PROVE  /\ BucketsOK(buckets') /\ LocksEndRightly /\ L!Done(a)
             /\ \A k \in L!Keys : Succeeds(buckets[k], buckets'[k])
    <2>1. L!Done(a)
        BY <1>8 DEF L!ResetLoginCounter
    <2>2. attempt[a] # None /\ attempt'[a] = None
        BY <1>4, <2>1
    <2>3. buckets \in [L!Keys -> L!Bucket \cup {None}]
        BY <1>1 DEF BucketsOK
    <2>4. \A b \in L!Bucket :
              LET c == [b EXCEPT !.fails = 0, !.until = 0]
              IN  /\ c \in L!Bucket /\ c.until = 0
                  /\ c.start = b.start /\ c.count = b.count /\ b.count \in Nat
        BY DEF L!Bucket
    <2>5. buckets' = [k \in L!Keys |->
                        IF k # Global /\ k \in L!ToSet(attempt[a]) /\ buckets[k] # None
                        THEN [buckets[k] EXCEPT !.fails = 0, !.until = 0]
                        ELSE buckets[k]]
        BY <1>8 DEF L!ResetLoginCounter
    <2>6. \A k \in L!Keys :
              /\ buckets'[k] \in L!Bucket \cup {None}
              /\ buckets'[k] = None <=> buckets[k] = None
              /\ buckets'[k] # None => buckets'[k].until \in {buckets[k].until, 0}
              /\ buckets'[k] # buckets[k] => k # Global /\ k \in L!ToSet(attempt[a])
              /\ buckets'[k] # None => /\ buckets'[k].start = buckets[k].start
                                      /\ buckets'[k].count = buckets[k].count
        BY <2>3, <2>4, <2>5, LimiterAssumption
    <2>7. BucketsOK(buckets')
        <3>1. Used(buckets') = Used(buckets)
            BY <2>6 DEF Used
        <3>2. buckets' \in [L!Keys -> L!Bucket \cup {None}]
            BY <2>5, <2>6
        <3>3. \A k \in L!Keys : buckets'[k] # None => buckets'[k].until <= now + LockFor
            BY <1>1, <2>6, LimiterAssumption DEF BucketsOK
        <3> QED
            BY <1>1, <3>1, <3>2, <3>3 DEF BucketsOK
    <2>8. LocksEndRightly
        <3>1. SUFFICES ASSUME NEW k \in L!Keys, L!Locked(buckets, k), ~EndedBy(k)
                       PROVE  buckets'[k] # None /\ buckets'[k].until >= buckets[k].until
            BY DEF LocksEndRightly
        <3>2. buckets'[k] = buckets[k]
            BY <1>8, <2>6, <3>1 DEF EndedBy
        <3>3. buckets[k] # None /\ buckets[k].until \in Nat
            BY <2>3, <3>1 DEF L!Locked, L!Bucket
        <3> QED
            BY <3>2, <3>3
    <2>9. \A k \in L!Keys : Succeeds(buckets[k], buckets'[k])
        <3>1. \A k \in L!Keys : buckets[k] # None => buckets[k].count \in Nat
            BY <2>3, <2>4
        <3> QED
            BY <2>6, <3>1 DEF Succeeds
    <2> QED
        BY <2>1, <2>7, <2>8, <2>9
<1>9. CASE \E a \in Attempts :
               L!RecordLoginFailure(a) \/ L!ResetLoginCounter(a) \/ L!RecordNothing(a)
    <2>1. PICK a \in Attempts :
              L!RecordLoginFailure(a) \/ L!ResetLoginCounter(a) \/ L!RecordNothing(a)
        BY <1>9
    <2>2. /\ L!Done(a) /\ BucketsOK(buckets')
          /\ KeepsLocks(buckets, buckets') \/ LocksEndRightly
          /\ \A k \in L!Keys : Succeeds(buckets[k], buckets'[k])
        <3>1. CASE L!RecordNothing(a)
            BY <1>1, <3>1, KeepsStays DEF L!RecordNothing, Keeps
        <3>2. CASE L!RecordLoginFailure(a)
            BY <1>7, <3>2 DEF Keeps
        <3>3. CASE L!ResetLoginCounter(a)
            BY <1>8, <3>3
        <3> QED
            BY <2>1, <3>1, <3>2, <3>3
    <2>3. \A k \in L!Keys : Sparse(admitted'[k], buckets'[k], now', L!Limit(k))
        BY <1>4, <2>2, SparseKeptAll
    <2> QED
        BY <1>1, <1>2, <1>4, <2>2, <2>3 DEF L!TypeOK
<1>10. CASE L!Cleanup
    <2>1. buckets' = L!Forgotten(buckets) /\ UNCHANGED <<now, attempt, admitted, made>>
        BY <1>10 DEF L!Cleanup
    <2>2. BucketsOK(buckets') /\ Keeps(buckets, buckets')
        BY <1>1, <2>1, ForgetStep
    <2>3. \A k \in L!Keys : Sparse(admitted'[k], buckets'[k], now', L!Limit(k))
        BY <2>1, <2>2, SparseKeptAll DEF Keeps
    <2> QED
        BY <1>1, <1>2, <2>1, <2>2, <2>3 DEF L!TypeOK, Keeps
<1> QED
    BY <1>5, <1>6, <1>9, <1>10 DEF L!Next

\* There are no buckets at first.
LEMMA LimiterInit == L!Init => LimiterInv
<1> SUFFICES ASSUME L!Init PROVE LimiterInv
    OBVIOUS
<1>1. /\ now = 1 /\ made = 0
      /\ buckets = [k \in L!Keys |-> None] /\ attempt = [a \in Attempts |-> None]
      /\ admitted = [k \in L!Keys |-> {}]
    BY DEF L!Init
<1>2. Used(buckets) = {}
    BY <1>1 DEF Used
<1>3. Cardinality(Used(buckets)) = 0
    BY <1>2, FS_EmptySet
<1>4. BucketsOK(buckets)
    BY <1>1, <1>3, LimiterAssumption DEF BucketsOK
<1>5. L!Cardinality({k \in L!Keys : buckets[k] # None}) <= MaxBuckets
    BY <1>3, LimiterSets, LimiterAssumption DEF Used
<1>6. L!TypeOK
    BY <1>1, <1>5, LimiterAssumption DEF L!TypeOK
<1>7. \A k \in L!Keys : Sparse(admitted[k], buckets[k], now, L!Limit(k))
    BY <1>1 DEF Sparse
<1> QED
    BY <1>1, <1>4, <1>6, <1>7 DEF LimiterInv

\* What leaves the limiter alone keeps its invariant.
LEMMA LimiterStutters == LimiterInv /\ UNCHANGED limiterVars => LimiterInv'
    BY DEF LimiterInv, limiterVars, L!TypeOK, BucketsOK, Used

\* Every state of the limiter satisfies its invariant.
LEMMA LimiterHolds == ManagementSpec => []LimiterInv
<1>1. ManagementInit => LimiterInv
    BY LimiterInit DEF ManagementInit
<1>2. LimiterInv /\ [ManagementNext]_allVars => LimiterInv'
    BY LimiterStep, LimiterStutters
    DEF ManagementNext, CatalogueMoves, DutyMoves, LimiterMoves, allVars
<1> QED
    BY <1>1, <1>2, PTL DEF ManagementSpec

\* getBucketLocked, RecordLoginFailure, ResetLoginCounter and the cleanup: no
\* window, no forgotten bucket and no further failure shortens a lock-out; only
\* ResetLoginCounter does, for a login of that source or account that succeeds.
THEOREM LockOutsLast == ManagementSpec => LockOutLasts
<1>1. LimiterInv /\ [ManagementNext]_allVars =>
          [\A k \in L!Keys : L!Locked(buckets, k) =>
               \/ buckets'[k] # None /\ buckets'[k].until >= buckets[k].until
               \/ k # Global /\ \E a \in Attempts :
                      L!ResetLoginCounter(a) /\ k \in L!ToSet(attempt[a])]_limiterVars
    BY LimiterStep
    DEF ManagementNext, CatalogueMoves, DutyMoves, LimiterMoves, allVars, limiterVars,
        LocksEndRightly, EndedBy
<1> QED
    BY <1>1, LimiterHolds, PTL DEF ManagementSpec, LockOutLasts, L!LockOutLasts, limiterVars,
       L!vars

\* LoginRateLimit: in a stretch of time as long as a window, a bucket lets at most
\* twice its limit pass, although windows begin anew and buckets are forgotten and
\* made again: the stretch meets at most two windows.
THEOREM BurstsAreBounded == ManagementSpec => []BurstIsBounded
<1>1. LimiterInv => BurstIsBounded
    <2> SUFFICES ASSUME LimiterInv, NEW k \in L!Keys
                 PROVE  L!Cardinality({pass \in admitted[k] : now - Window <= pass[2]})
                            <= 2 * L!Limit(k)
        BY DEF BurstIsBounded, L!BurstIsBounded
    <2> DEFINE a == admitted[k]
               b == buckets[k]
               burst == {pass \in a : now - Window <= pass[2]}
               new == {pass \in a : b.start <= pass[2]}
               old == {pass \in a : b.start <= pass[2] + Window /\ pass[2] < b.start}
    <2>1. /\ now \in Nat /\ a \in SUBSET Passes /\ L!Limit(k) \in Nat
          /\ Sparse(a, b, now, L!Limit(k)) /\ Window \in Nat
          /\ b \in L!Bucket \cup {None}
        BY LimitsAreNumbers, LimiterAssumption DEF LimiterInv, L!TypeOK, Passes, BucketsOK
    <2>2. \A pass \in a : pass[2] \in Nat
        BY <2>1, PassesAreFinite
    <2>3. Cardinality(burst) <= 2 * L!Limit(k)
        <3>1. CASE b = None
            <4>1. burst = {}
                BY <2>1, <2>2, <3>1 DEF Sparse
            <4>2. Cardinality(burst) = 0
                BY <4>1, FS_EmptySet
            <4> HIDE DEF burst
            <4> QED
                BY <2>1, <4>2
        <3>2. CASE b # None
            <4>1. b.start \in Nat /\ b.start <= now
                BY <2>1, <3>2 DEF Sparse, L!Bucket
            <4>2. burst \subseteq new \cup old
                BY <2>1, <2>2, <4>1
            <4>3. Cardinality(new) <= L!Limit(k) /\ Cardinality(old) <= L!Limit(k)
                BY <2>1, <3>2 DEF Sparse
            <4>4. new \in SUBSET a /\ old \in SUBSET a
                OBVIOUS
            <4> HIDE DEF burst, new, old, a, b
            <4>5. /\ IsFiniteSet(new) /\ IsFiniteSet(old)
                  /\ Cardinality(new) \in Nat /\ Cardinality(old) \in Nat
                BY <2>1, <4>4, PassesAreFinite
            <4>6. /\ IsFiniteSet(new \cup old)
                  /\ Cardinality(new \cup old)
                         = Cardinality(new) + Cardinality(old) - Cardinality(new \cap old)
                BY <4>5, FS_Union
            <4>7. Cardinality(new \cap old) \in Nat
                <5>1. new \cap old \in SUBSET new
                    OBVIOUS
                <5> QED
                    BY <4>5, <5>1, FS_Subset, FS_CardinalityType
            <4>8. Cardinality(burst) <= Cardinality(new \cup old) /\ IsFiniteSet(burst)
                BY <4>2, <4>6, FS_Subset
            <4>9. Cardinality(burst) \in Nat
                BY <4>8, FS_CardinalityType
            <4> QED
                BY <2>1, <4>3, <4>5, <4>6, <4>7, <4>8, <4>9
        <3> QED
            BY <3>1, <3>2
    <2> QED
        BY <2>3, LimiterSets
<1> QED
    BY <1>1, LimiterHolds, PTL

\* The types of the three parts; the limiter's says as well that there are never
\* more than maxRateBuckets buckets.
THEOREM TypesAreCorrect == ManagementSpec => []TypesOK
<1>1. CatalogueInv => TypeOK
    BY DEF CatalogueInv
<1>2. DutyInv => D!TypeOK
    BY DEF DutyInv
<1>3. LimiterInv => L!TypeOK
    BY DEF LimiterInv
<1> QED
    BY <1>1, <1>2, <1>3, CatalogueHolds, DutyHolds, LimiterHolds, PTL DEF TypesOK
=============================================================================
