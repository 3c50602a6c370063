---------------------------- MODULE CaseLifecycle ---------------------------
(***************************************************************************)
(* Cases and the clients they are kept for, statement by statement,        *)
(* several requests at a time.                                             *)
(*                                                                         *)
(* A change of a case or of a client reads the row and saves all of it,    *)
(* with no transaction and no lock; creating a case first looks its client *)
(* and lawyer up.  Save writes by the primary key and, when no row has it  *)
(* any more, inserts the row again.  Deleting a client looks at nothing    *)
(* that refers to it.  The texts of cases and clients are left out: an     *)
(* Update saves the row as it was read.                                    *)
(***************************************************************************)
EXTENDS Integers

CONSTANTS Cases,      \* rows the case table may get
          Clients,    \* rows the client table may get
          Users,      \* registered users: lawyers a case may have
          LawyerIds,  \* user ids requests carry
          Roles,      \* roles of those who change a status
          Slots,      \* requests that can be in flight at once
          Nothing,    \* no case, client or user
          MaxTime     \* bound: moments at which a case is closed

ASSUME LifecycleAssumption ==
  /\ Users \subseteq LawyerIds
  /\ Nothing \notin Cases \cup Clients \cup LawyerIds
  /\ MaxTime \in Nat \ {0}

VARIABLES cases,    \* Cases -> row of cases
          clients,  \* clients that have a row
          removed,  \* history: clients a deletion has been carried out for
          now,      \* the clock, advanced by each close date it gives
          req,      \* Slots -> the request a slot is busy with
          stages,   \* history: Cases -> statuses the case has had
          byAdmin   \* history: cases whose status an administrator changed

vars == <<cases, clients, removed, now, req, stages, byAdmin>>

(* The order of the statuses (case_service.go, canFlow). *)
Stage == [filed |-> 0, investigating |-> 1, hearing |-> 2, closed |-> 3,
          archived |-> 4]

CaseStatuses == DOMAIN Stage

(* closeDate 0: none. *)
NoRow == [status |-> "absent", client |-> Nothing, lawyer |-> Nothing,
          closeDate |-> 0]

Row == [status : CaseStatuses, client : Clients, lawyer : LawyerIds,
        closeDate : 0..MaxTime] \cup {NoRow}

(***************************************************************************)
(* pc: the next statement of a request.                                    *)
(*   client, lawyer, insert   the look-ups and the INSERT of a new case    *)
(*   find, lawyer, save       a change of a case: read, the look-up of     *)
(*                            Assign, the whole-row UPDATE                 *)
(*   findClient, saveClient   a change of a client                         *)
(*   delete                   the deletion of a client                     *)
(* client, lawyer, status, role: what the request asks for.                *)
(***************************************************************************)
Idle ==
  [pc |-> "idle", kind |-> "none", on |-> Nothing, lawyer |-> Nothing,
   status |-> "absent", role |-> "none", row |-> NoRow, outcome |-> "none"]

Requests ==
  [pc : {"idle", "client", "lawyer", "insert", "find", "save", "findClient",
         "saveClient", "delete", "done"},
   kind : {"none", "create", "update", "status", "assign", "client"},
   on : Cases \cup Clients \cup {Nothing}, lawyer : LawyerIds \cup {Nothing},
   status : CaseStatuses \cup {"absent"}, role : Roles \cup {"none"},
   row : Row, outcome : {"none", "ok", "refused", "not_found", "failed"}]

InFlight(r) == req[r].pc \notin {"idle", "done"}

Answer(r, outcome) ==
  [Idle EXCEPT !.pc = "done", !.kind = req[r].kind, !.outcome = outcome]

Goto(r, next) == req' = [req EXCEPT ![r] = next]

(* A step that only reads. *)
Reads(r, next) ==
  /\ Goto(r, next)
  /\ UNCHANGED <<cases, clients, removed, now, stages, byAdmin>>

-----------------------------------------------------------------------------
Init ==
  /\ cases = [c \in Cases |-> NoRow]
  /\ clients \in SUBSET Clients
  /\ removed = {}
  /\ now = 0
  /\ req = [r \in Slots |-> Idle]
  /\ stages = [c \in Cases |-> {}]
  /\ byAdmin = {}

Begin(r, request) ==
  /\ req[r].pc = "idle"
  /\ Reads(r, request)

BeginCreate(r, k, u) ==
  Begin(r, [Idle EXCEPT !.pc = "client", !.kind = "create", !.on = k,
                        !.lawyer = u])

BeginUpdate(r, c) ==
  Begin(r, [Idle EXCEPT !.pc = "find", !.kind = "update", !.on = c])

BeginStatus(r, c, s, role) ==
  Begin(r, [Idle EXCEPT !.pc = "find", !.kind = "status", !.on = c,
                        !.status = s, !.role = role])

BeginAssign(r, c, u) ==
  Begin(r, [Idle EXCEPT !.pc = "find", !.kind = "assign", !.on = c,
                        !.lawyer = u])

BeginClientUpdate(r, k) ==
  Begin(r, [Idle EXCEPT !.pc = "findClient", !.kind = "client", !.on = k])

BeginClientDelete(r, k) ==
  Begin(r, [Idle EXCEPT !.pc = "delete", !.kind = "client", !.on = k])

-----------------------------------------------------------------------------
(* Create of a case: client, lawyer, INSERT. *)
FindCaseClient(r) ==
  /\ req[r].pc = "client"
  /\ Reads(r, IF req[r].on \in clients THEN [req[r] EXCEPT !.pc = "lawyer"]
              ELSE Answer(r, "not_found"))

(* Wrong on purpose: a status the constants do not have. *)
FreshCaseOpen(client, lawyer) ==
  [status |-> "open", client |-> client, lawyer |-> lawyer, closeDate |-> 0]

FreshCase(client, lawyer) ==
  [status |-> "filed", client |-> client, lawyer |-> lawyer, closeDate |-> 0]

(* The look-up of the lawyer: the last before a case is inserted or, with  *)
(* the row in hand, before it is saved under its new lawyer.               *)
FindLawyer(r) ==
  LET q == req[r]
  IN /\ q.pc = "lawyer"
     /\ Reads(r,
          IF q.lawyer \notin Users THEN Answer(r, "not_found")
          ELSE IF q.kind = "create"
          THEN [q EXCEPT !.pc = "insert", !.row = FreshCase(q.on, q.lawyer)]
          ELSE [q EXCEPT !.pc = "save", !.row.lawyer = q.lawyer])

InsertCase(r) ==
  LET q == req[r]
  IN /\ q.pc = "insert"
     /\ \E c \in Cases :
          /\ cases[c] = NoRow
          /\ cases' = [cases EXCEPT ![c] = q.row]
          /\ stages' = [stages EXCEPT ![c] = {q.row.status}]
     /\ Goto(r, Answer(r, "ok"))
     /\ UNCHANGED <<clients, removed, now, byAdmin>>

-----------------------------------------------------------------------------
(* Wrong on purpose: backwards one step only, forwards any number. *)
CanFlowForward(from, to) == Stage[to] - Stage[from] >= -1

(* One step forward, one back, or none. *)
canFlow(from, to) == Stage[to] - Stage[from] \in {-1, 0, 1}

(* Wrong on purpose: dated only when it comes from the hearing. *)
DatedFromHearing(row, s, time) ==
  [row EXCEPT !.status = s,
              !.closeDate = IF row.status = "hearing" /\ s = "closed" /\ @ = 0
                            THEN time ELSE @]

(* The row in its new status; the first closing gives it its close date,   *)
(* and nothing takes that away or renews it.                               *)
InStatus(row, s, time) ==
  [row EXCEPT !.status = s,
              !.closeDate = IF s = "closed" /\ @ = 0 THEN time ELSE @]

(* The read of a change, and what the handler makes of the row.            *)
FindCase(r) ==
  LET q == req[r]  row == cases[q.on]
  IN /\ q.pc = "find" /\ q.kind \in {"update", "assign"}
     /\ Reads(r, IF row = NoRow THEN Answer(r, "not_found")
                 ELSE [q EXCEPT !.row = row,
                                !.pc = IF q.kind = "assign" THEN "lawyer"
                                       ELSE "save"])

(* At MaxTime no further close date is given. *)
ChangeStatus(r) ==
  LET q     == req[r]
      row   == cases[q.on]
      dates == q.status = "closed" /\ row.closeDate = 0
  IN /\ q.pc = "find" /\ q.kind = "status"
     /\ \/ /\ row = NoRow
           /\ Goto(r, Answer(r, "not_found"))
           /\ UNCHANGED now
        \/ /\ row # NoRow
           /\ q.role # "admin" /\ ~canFlow(row.status, q.status)
           /\ Goto(r, Answer(r, "refused"))
           /\ UNCHANGED now
        \/ /\ row # NoRow
           /\ q.role = "admin" \/ canFlow(row.status, q.status)
           /\ dates => now < MaxTime
           /\ Goto(r, [q EXCEPT !.pc = "save",
                                !.row = InStatus(row, q.status, now + 1)])
           /\ now' = IF dates THEN now + 1 ELSE now
     /\ UNCHANGED <<cases, clients, removed, stages, byAdmin>>

(* Save: an UPDATE of every column, whatever the row is by now. *)
SaveCase(r) ==
  LET q == req[r]
  IN /\ q.pc = "save"
     /\ cases' = [cases EXCEPT ![q.on] = q.row]
     /\ stages' = [stages EXCEPT ![q.on] = @ \cup {q.row.status}]
     /\ byAdmin' = IF q.role = "admin" THEN byAdmin \cup {q.on} ELSE byAdmin
     /\ Goto(r, Answer(r, "ok"))
     /\ UNCHANGED <<clients, removed, now>>

-----------------------------------------------------------------------------
CreateClient(k) ==
  /\ k \notin clients \cup removed
  /\ clients' = clients \cup {k}
  /\ UNCHANGED <<cases, removed, now, req, stages, byAdmin>>

FindClient(r) ==
  /\ req[r].pc = "findClient"
  /\ Reads(r, IF req[r].on \in clients THEN [req[r] EXCEPT !.pc = "saveClient"]
              ELSE Answer(r, "not_found"))

(* Save finds no row to update once the client is deleted, and inserts it. *)
SaveClient(r) ==
  /\ req[r].pc = "saveClient"
  /\ clients' = clients \cup {req[r].on}
  /\ Goto(r, Answer(r, "ok"))
  /\ UNCHANGED <<cases, removed, now, stages, byAdmin>>

(* DELETE by id: no row is no error, and what refers to it stays. *)
DeleteClient(r) ==
  /\ req[r].pc = "delete"
  /\ clients' = clients \ {req[r].on}
  /\ removed' = removed \cup (clients \cap {req[r].on})
  /\ Goto(r, Answer(r, "ok"))
  /\ UNCHANGED <<cases, now, stages, byAdmin>>

-----------------------------------------------------------------------------
(* A statement fails, or the INSERT meets a case number already drawn: the *)
(* handler answers with an error, no row is written.                       *)
StatementFails(r) ==
  /\ InFlight(r)
  /\ Reads(r, Answer(r, "failed"))

Received(r) ==
  /\ req[r].pc = "done"
  /\ Reads(r, Idle)

(* The process stops and comes back: no request in flight is answered. *)
Restart ==
  /\ req # [r \in Slots |-> Idle]
  /\ req' = [r \in Slots |-> Idle]
  /\ UNCHANGED <<cases, clients, removed, now, stages, byAdmin>>

ClientStep(r) ==
  \/ \E k \in Clients, u \in LawyerIds : BeginCreate(r, k, u)
  \/ \E c \in Cases : BeginUpdate(r, c)
  \/ \E c \in Cases, s \in CaseStatuses, role \in Roles :
       BeginStatus(r, c, s, role)
  \/ \E c \in Cases, u \in LawyerIds : BeginAssign(r, c, u)
  \/ \E k \in Clients : BeginClientUpdate(r, k) \/ BeginClientDelete(r, k)
  \/ Received(r)

Step(r) ==
  \/ FindCaseClient(r)
  \/ FindLawyer(r)
  \/ InsertCase(r)
  \/ FindCase(r)
  \/ ChangeStatus(r)
  \/ SaveCase(r)
  \/ FindClient(r)
  \/ SaveClient(r)
  \/ DeleteClient(r)

Next ==
  \/ \E r \in Slots : ClientStep(r) \/ Step(r) \/ StatementFails(r)
  \/ \E k \in Clients : CreateClient(k)
  \/ Restart

Spec == Init /\ [][Next]_vars

-----------------------------------------------------------------------------
(* Columns and what requests in flight hold of them have their types       *)
(* (model/case.go, constants/case.go).                                     *)
TypeOK ==
  /\ cases \in [Cases -> Row]
  /\ clients \subseteq Clients
  /\ removed \subseteq Clients
  /\ now \in 0..MaxTime
  /\ req \in [Slots -> Requests]
  /\ stages \in [Cases -> SUBSET CaseStatuses]
  /\ byAdmin \subseteq Cases

(* A closed case has a close date, whichever stale rows are saved over it  *)
(* (case_service.go, ChangeStatus dates the row it is about to save).      *)
ClosedIsDated ==
  \A c \in Cases : cases[c].status = "closed" => cases[c].closeDate # 0

(* Unless an administrator has had a hand in it, a case has been through   *)
(* every stage before the ones it has been in: racing requests throw it    *)
(* back but never past a stage (case_service.go, canFlow on the row read). *)
NoStageSkipped ==
  \A c \in Cases \ byAdmin :
    \A s \in stages[c], t \in CaseStatuses : Stage[t] < Stage[s] => t \in stages[c]

-----------------------------------------------------------------------------
(***************************************************************************)
(* What the code says of itself and interleaving breaks.                   *)
(***************************************************************************)

(* Where no administrator acts, a case moves one stage at a time, forward  *)
(* or back (case_service.go, the comment of canFlow).                      *)
FlowIsStepwise ==
  [][\A c \in Cases :
       cases[c] # NoRow /\ c \notin byAdmin' =>
         canFlow(cases[c].status, cases'[c].status)]_vars

(* A client that has been deleted has no row again (client_service.go,     *)
(* Delete).                                                                *)
DeletedClientStaysDeleted == [](clients \cap removed = {})
=============================================================================
