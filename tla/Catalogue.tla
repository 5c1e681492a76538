------------------------------ MODULE Catalogue ------------------------------
(***************************************************************************)
(* The catalogue of role, server and command templates behind the          *)
(* management API (pkg/server/http/handler_role.go, handler_template_*.go  *)
(* and pkg/public/db/tacacs_*_template.go).                                *)
(*                                                                         *)
(* No transaction spans a request: every check is a query of its own, and  *)
(* requests, the permission daemon and the approvals run in between.  Most *)
(* checks take a failed query for an empty result, which switches the      *)
(* protection off; such a request is blind.                                *)
(*                                                                         *)
(* The server templates and the command templates are two tables with      *)
(* nearly the same code; kind says which of them rows is.  A role's list   *)
(* is the set of the names in its comma-separated column, and the          *)
(* comparison of the whole column with one name is list = {t}.             *)
(***************************************************************************)
EXTENDS Sequences, Naturals

CONSTANTS
    Templates, Roles,  \* names
    Requests,          \* administrators' requests in flight
    Applications,      \* rows of tacacs_approval, of any account and period
    InitialRows, InitialRoles,
    None,              \* no row, a deleted one, no request
    MaxRows,           \* bound on rows ever inserted
    MaxRequests,       \* bound on requests
    MaxEvents,         \* bound on changes of approvals and of held roles
    MaxFaults          \* bound on failed queries

Kinds == {"server", "command"}
RoleRow == [name : Roles, list : SUBSET Templates]
Application == [role : Roles, status : {"review", "pass", "closed"}]

\* A request of an administrator that is under way.
RequestRecord ==
    [op : {"none", "add", "delete id", "delete", "create", "drop"},
     phase : {"held", "lists", "details", "insert", "exists", "count",
              "referenced", "delete", "absent", "templates", "present",
              "review", "pass", "drop"},
     t : Templates \cup {None}, r : Roles \cup {None}, id : Nat,
     list : SUBSET Templates, left : Nat,
     names : SUBSET (Roles \cup Templates), used : SUBSET SUBSET Templates,
     blind : BOOLEAN]

\* What is remembered of the time since it began.
Memory == [open : SUBSET Applications,
           shields : SUBSET [role : Roles, lists : SUBSET SUBSET Templates],
           alone : BOOLEAN]

ASSUME CatalogueAssumption ==
    /\ InitialRows \in Seq(Templates)
    /\ InitialRoles \in Seq(RoleRow)
    /\ None \notin Templates \cup Roles
    /\ None \notin RoleRow /\ None \notin RequestRecord /\ None \notin Application

VARIABLES
    kind,       \* which of the two template tables rows is
    rows,       \* the template of each row; None once it is deleted
    roles,      \* tacacs_role_template likewise
    held,       \* the roles of the accounts in normal status
    approvals,  \* tacacs_approval; None: the row is not there yet
    request,    \* what each request is about and has read; None: none runs
    since,      \* history: what was so ever since the request began
    begun, events, faults

tables == <<kind, rows, roles>>
others == <<held, approvals, events>>
vars   == <<tables, others, request, since, begun, faults>>

-----------------------------------------------------------------------------
(* Queries. *)

Ids == DOMAIN rows
RowsOf(t) == {i \in Ids : rows[i] = t}
RoleIds == {i \in DOMAIN roles : roles[i] # None}
Named(r) == {i \in RoleIds : roles[i].name = r}

\* The lists GetTacacsRoleTemplateByTemplate finds: that of the first row.
ListOf(r) == {roles[i].list : i \in {n \in Named(r) : \A m \in Named(r) : n <= m}}

\* GetTacacsRoleTemplateByServerTemplate.
Referenced(t) == \E i \in RoleIds : roles[i].list = {t}

\* Mutant: the count is compared the wrong way round.
OnlyIfMany(t) == kind = "command" \/ \E i, j \in RowsOf(t) : i # j

\* IsTemplateOnlyServer counts; IsTemplateOnlyCommand quotes its placeholder,
\* so that its query always fails and every template counts as the only one.
Only(t) == kind = "command" \/ \A i, j \in RowsOf(t) : i = j

-----------------------------------------------------------------------------
(* What the history variable keeps of a request in flight: the applications  *)
(* that are under review or passed and the held roles with their lists, as   *)
(* far as they have been so since it began, and whether no other request     *)
(* wrote meanwhile.                                                          *)

In(status) == {a \in Applications :
                  approvals[a] # None /\ approvals[a].status = status}
RolesIn(status) == {approvals[a].role : a \in In(status)}
Open == In("review") \cup In("pass")
Shields == {[role |-> r, lists |-> ListOf(r)] : r \in held}

Remember ==
    since' = [q \in Requests |->
        IF request'[q] = None
        THEN None
        ELSE IF request[q] = None
        THEN [open |-> Open', shields |-> Shields', alone |-> TRUE]
        ELSE [open    |-> since[q].open \cap Open',
              shields |-> since[q].shields \cap Shields',
              alone   |-> since[q].alone
                              /\ \/ tables' = tables
                                 \/ request'[q] # request[q]]]

-----------------------------------------------------------------------------
(* A request begins. *)

Idle == [op |-> "none", phase |-> "held", t |-> None, r |-> None, id |-> 0,
         list |-> {}, left |-> 0, names |-> {}, used |-> {}, blind |-> FALSE]

Init ==
    /\ kind \in Kinds
    /\ rows = InitialRows
    /\ roles = InitialRoles
    /\ approvals \in [Applications -> Application \cup {None}]
    /\ \A a \in Applications :
          approvals[a] # None => a \in Open /\ Named(approvals[a].role) # {}
    /\ held \in SUBSET RolesIn("pass")
    /\ request = [q \in Requests |-> None]
    /\ since = [q \in Requests |-> None]
    /\ begun = 0 /\ events = 0 /\ faults = 0

Begin(q, new) ==
    /\ request[q] = None
    /\ begun < MaxRequests
    /\ request' = [request EXCEPT ![q] = new]
    /\ begun' = begun + 1
    /\ UNCHANGED <<tables, others, faults>>

\* httpApiTemplateServerAdd and httpApiTemplateCmdAdd: one or two details.
BeginAdd(q) ==
    \E t \in Templates, n \in {1, 2} :
        Begin(q, [Idle EXCEPT !.op = "add", !.t = t, !.left = n])

\* httpApiTemplateServerDelete and httpApiTemplateCmdDelete, by id or by name.
BeginDeleteId(q) ==
    \E i \in Ids : Begin(q, [Idle EXCEPT !.op = "delete id", !.id = i])
BeginDelete(q) ==
    \E t \in Templates : Begin(q, [Idle EXCEPT !.op = "delete", !.t = t])

\* httpApiRoleCreate and httpApiRoleDelete.
BeginCreate(q) ==
    \E r \in Roles, list \in (SUBSET Templates) \ {{}} :
        Begin(q, [Idle EXCEPT !.op = "create", !.phase = "absent", !.r = r,
                              !.list = list])
BeginDrop(q) ==
    \E r \in Roles :
        Begin(q, [Idle EXCEPT !.op = "drop", !.phase = "present", !.r = r])

-----------------------------------------------------------------------------
(* The steps of a request. *)

At(q, phase) == request[q] # None /\ request[q].phase = phase
End(q) == request' = [request EXCEPT ![q] = None]
Go(q, new) == request' = [request EXCEPT ![q] = new]
Reads == UNCHANGED <<tables, others, begun>>
NoFault == UNCHANGED faults
Fault ==
    /\ faults < MaxFaults
    /\ faults' = faults + 1

\* A query fails, which is taken for an empty result.
Blindly(q, new) ==
    /\ Go(q, [new EXCEPT !.blind = TRUE])
    /\ Reads
    /\ Fault

\* GetInUsedRole: the roles of the accounts in normal status.
ReadHeld(q) ==
    /\ At(q, "held")
    /\ Go(q, [request[q] EXCEPT !.names = held, !.phase = "lists"])
    /\ Reads /\ NoFault
MissHeld(q) ==
    /\ At(q, "held")
    /\ Blindly(q, [request[q] EXCEPT !.phase = "lists"])

\* GetTemplateServerInUsed asks for the row of one role after another.
ReadList(q, r) ==
    /\ At(q, "lists")
    /\ r \in request[q].names
    /\ Go(q, [request[q] EXCEPT !.names = @ \ {r}, !.used = @ \cup ListOf(r)])
    /\ Reads /\ NoFault
MissList(q, r) ==
    /\ At(q, "lists")
    /\ r \in request[q].names
    /\ Blindly(q, [request[q] EXCEPT !.names = @ \ {r}])

\* Mutant: by id, the template of the row is not looked up.
InUseByName(q) == {request[q].t} \in request[q].used

\* IsTemplateServerInUsed: is the column of a used role the template's name?
\* By id, the template is that of the listed row.
InUse(q) ==
    LET t == IF request[q].op = "delete id" THEN rows[request[q].id]
                                            ELSE request[q].t
    IN  t # None /\ {t} \in request[q].used

CheckUse(q) ==
    /\ At(q, "lists")
    /\ request[q].names = {}
    /\ IF InUse(q)
       THEN End(q)
       ELSE Go(q, [request[q] EXCEPT !.phase =
                     IF request[q].op = "add" THEN "details" ELSE "exists"])
    /\ Reads /\ NoFault
MissUse(q) ==
    /\ At(q, "lists")
    /\ request[q].names = {}
    /\ request[q].op = "delete id"
    /\ Blindly(q, [request[q] EXCEPT !.phase = "exists"])

\* GetTacacsServerTemplatesByTemplate: details already there are not added.
ReadDetails(q) ==
    /\ At(q, "details")
    /\ \/ Go(q, [request[q] EXCEPT !.phase = "insert"])
       \/ RowsOf(request[q].t) # {} /\ End(q)
    /\ Reads /\ NoFault

\* Mutant: the loop over the details does not end.
InsertRowAgain(q) ==
    /\ At(q, "insert")
    /\ Len(rows) < MaxRows
    /\ rows' = Append(rows, request[q].t)
    /\ Go(q, [request[q] EXCEPT !.left = @ - 1])
    /\ UNCHANGED <<kind, roles, others, begun>> /\ NoFault

\* AddTacacsServerTemplates: one INSERT per detail.
InsertRow(q) ==
    /\ At(q, "insert")
    /\ Len(rows) < MaxRows
    /\ rows' = Append(rows, request[q].t)
    /\ IF request[q].left = 1 THEN End(q)
                              ELSE Go(q, [request[q] EXCEPT !.left = @ - 1])
    /\ UNCHANGED <<kind, roles, others, begun>> /\ NoFault

\* IsIdExistsInTacacsServerTemplate, and the template of the row.
FindRows(q) ==
    /\ At(q, "exists")
    /\ LET t == IF request[q].op = "delete id" THEN rows[request[q].id]
                                               ELSE request[q].t
       IN  IF t = None \/ RowsOf(t) = {}
           THEN End(q)
           ELSE Go(q, [request[q] EXCEPT !.t = t, !.phase = "count"])
    /\ Reads /\ NoFault

\* A failed count makes the template the only one: that is the safe side.
CountRows(q) ==
    /\ At(q, "count")
    /\ \/ /\ Go(q, [request[q] EXCEPT !.phase =
                       IF Only(request[q].t) THEN "referenced" ELSE "delete"])
          /\ NoFault
       \/ /\ Go(q, [request[q] EXCEPT !.phase = "referenced"])
          /\ Fault
    /\ Reads

FindReference(q) ==
    /\ At(q, "referenced")
    /\ IF Referenced(request[q].t)
       THEN End(q)
       ELSE Go(q, [request[q] EXCEPT !.phase = "delete"])
    /\ Reads /\ NoFault
MissReference(q) ==
    /\ At(q, "referenced")
    /\ Blindly(q, [request[q] EXCEPT !.phase = "delete"])

\* DelTacacsServerTemplate.
DeleteRows(q) ==
    /\ At(q, "delete")
    /\ LET gone == IF request[q].op = "delete id" THEN {request[q].id}
                                                  ELSE RowsOf(request[q].t)
       IN  rows' = [i \in Ids |-> IF i \in gone THEN None ELSE rows[i]]
    /\ End(q)
    /\ UNCHANGED <<kind, roles, others, begun>> /\ NoFault

\* httpApiRoleCreate: the name must be free.
FindAbsent(q) ==
    /\ At(q, "absent")
    /\ IF Named(request[q].r) # {}
       THEN End(q)
       ELSE Go(q, [request[q] EXCEPT !.names = request[q].list,
                                     !.phase = "templates"])
    /\ Reads /\ NoFault
MissAbsent(q) ==
    /\ At(q, "absent")
    /\ Blindly(q, [request[q] EXCEPT !.names = request[q].list,
                                     !.phase = "templates"])

\* Every template of its lists must have a row.
FindTemplate(q, t) ==
    /\ At(q, "templates")
    /\ t \in request[q].names
    /\ IF RowsOf(t) = {} THEN End(q)
                         ELSE Go(q, [request[q] EXCEPT !.names = @ \ {t}])
    /\ Reads /\ NoFault

InsertRole(q) ==
    /\ At(q, "templates")
    /\ request[q].names = {}
    /\ roles' = Append(roles, [name |-> request[q].r, list |-> request[q].list])
    /\ End(q)
    /\ UNCHANGED <<kind, rows, others, begun>> /\ NoFault

\* Mutant: the two lists are read the other way round.
PassedFirst == [present |-> "pass", pass |-> "review", review |-> "drop"]

ReadAfter == [present |-> "review", review |-> "pass", pass |-> "drop"]

\* httpApiRoleDelete: the role must be there ...
FindPresent(q) ==
    /\ At(q, "present")
    /\ IF Named(request[q].r) = {}
       THEN End(q)
       ELSE Go(q, [request[q] EXCEPT !.phase = ReadAfter.present])
    /\ Reads /\ NoFault

\* ... and in no approval: first those under review are read, then those
\* passed.  A request that is passed in between is in the first list.
ReadApprovals(q, status) ==
    /\ At(q, status)
    /\ Go(q, [request[q] EXCEPT
                !.names = @ \cup RolesIn(status),
                !.phase = ReadAfter[status]])
    /\ Reads /\ NoFault
MissApprovals(q, status) ==
    /\ At(q, status)
    /\ Blindly(q, [request[q] EXCEPT !.phase = ReadAfter[status]])

\* DeleteRole, unless the role is in one of the two lists.
DropRole(q) ==
    /\ At(q, "drop")
    /\ roles' = IF request[q].r \in request[q].names THEN roles
                ELSE [i \in DOMAIN roles |-> IF i \in Named(request[q].r)
                                            THEN None ELSE roles[i]]
    /\ End(q)
    /\ UNCHANGED <<kind, rows, others, begun>> /\ NoFault

\* The queries whose failure ends the request; a failed INSERT leaves the rows
\* inserted before it.
Fails(q) ==
    /\ request[q] # None
    /\ request[q].phase \in {"details", "insert", "exists", "delete",
                             "templates", "present", "drop"}
    /\ End(q)
    /\ Reads
    /\ Fault

-----------------------------------------------------------------------------
(* What goes on beside the requests: applicants, administrators and the      *)
(* permission daemon (Approvals).                                            *)

Event ==
    /\ events < MaxEvents
    /\ events' = events + 1
    /\ UNCHANGED <<tables, request, begun, faults>>

Apply(a, r) ==
    /\ approvals[a] = None /\ Named(r) # {}
    /\ approvals' = [approvals EXCEPT ![a] = [role |-> r, status |-> "review"]]
    /\ UNCHANGED held /\ Event
Approve(a) ==
    /\ a \in In("review")
    /\ approvals' = [approvals EXCEPT ![a].status = "pass"]
    /\ UNCHANGED held /\ Event

\* An application is rejected, closed by its applicant, or over.
Close(a) ==
    /\ a \in Open
    /\ approvals' = [approvals EXCEPT ![a].status = "closed"]
    /\ UNCHANGED held /\ Event
GiveRole(r) ==
    /\ r \in RolesIn("pass") \ held
    /\ held' = held \cup {r}
    /\ UNCHANGED approvals /\ Event
TakeRole(r) ==
    /\ r \in held
    /\ held' = held \ {r}
    /\ UNCHANGED approvals /\ Event

-----------------------------------------------------------------------------
Step(q) ==
    \/ BeginAdd(q) \/ BeginDeleteId(q) \/ BeginDelete(q)
    \/ BeginCreate(q) \/ BeginDrop(q)
    \/ ReadHeld(q) \/ MissHeld(q)
    \/ \E r \in Roles : ReadList(q, r) \/ MissList(q, r)
    \/ CheckUse(q) \/ MissUse(q)
    \/ ReadDetails(q) \/ InsertRow(q)
    \/ FindRows(q) \/ CountRows(q)
    \/ FindReference(q) \/ MissReference(q) \/ DeleteRows(q)
    \/ FindAbsent(q) \/ MissAbsent(q)
    \/ \E t \in Templates : FindTemplate(q, t)
    \/ InsertRole(q)
    \/ FindPresent(q)
    \/ \E status \in {"review", "pass"} :
           ReadApprovals(q, status) \/ MissApprovals(q, status)
    \/ DropRole(q)
    \/ Fails(q)

Others ==
    \/ \E a \in Applications :
           Approve(a) \/ Close(a) \/ \E r \in Roles : Apply(a, r)
    \/ \E r \in Roles : GiveRole(r) \/ TakeRole(r)

Next == ((\E q \in Requests : Step(q)) \/ Others) /\ Remember

Spec == Init /\ [][Next]_vars

-----------------------------------------------------------------------------
TypeOK ==
    /\ kind \in Kinds
    /\ rows \in Seq(Templates \cup {None})
    /\ roles \in Seq(RoleRow \cup {None})
    /\ held \in SUBSET Roles
    /\ approvals \in [Applications -> Application \cup {None}]
    /\ request \in [Requests -> RequestRecord \cup {None}]
    /\ \A q \in Requests : request[q] # None => since[q] \in Memory
    /\ begun \in Nat /\ events \in Nat /\ faults \in Nat

Acts(q) == request[q] # None /\ request'[q] # request[q]
Touched(t) == RowsOf(t) # RowsOf(t)'

\* The template of a role that an account held, with this list, all the while
\* the request ran is not changed under that account, though the request looked
\* for it with one query per role.
HeldTemplateIsFixed ==
    [][\A q \in Requests, t \in Templates :
           Acts(q) /\ Touched(t) /\ ~request[q].blind =>
               \A shield \in since[q].shields : {t} \notin shield.lists]_vars

\* A role is not deleted if one application for it was under review or passed all
\* the while the request ran, also if that moves from the one list to the other
\* between the two queries.  Several applications that take turns do not protect it:
\* between the queries one may appear under review and another, passed, come to its end.
WantedRoleIsKept ==
    [][\A q \in Requests :
           Acts(q) /\ RoleIds \ RoleIds' # {} /\ ~request[q].blind =>
               \A a \in since[q].open : approvals[a].role # request[q].r]_vars

\* A role never gets a second row, and a role that consists of one template is
\* not left without it, unless requests overlap, a query fails, or a template is
\* deleted by name, which its count lets pass when it has several rows.
Sound ==
    /\ \A i, j \in RoleIds : roles[i].name = roles[j].name => i = j
    /\ \A t \in Templates : Referenced(t) => RowsOf(t) # {}
AloneKeepsSound ==
    [][\A q \in Requests :
           Acts(q) /\ since[q].alone /\ ~request[q].blind
                   /\ request[q].op # "delete" =>
               (Sound => Sound')]_vars
=============================================================================
