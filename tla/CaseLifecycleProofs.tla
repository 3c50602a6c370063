------------------------- MODULE CaseLifecycleProofs ------------------------
(***************************************************************************)
(* What the flow of statuses leaves true of every case, for any number of  *)
(* cases, clients, users and requests in flight: closed cases are dated,   *)
(* and no stage is skipped unless an administrator takes part.             *)
(*                                                                         *)
(* The argument: a request carries a row it has read.  The row is one the  *)
(* table could have held, for what it took then is still so: histories     *)
(* only grow, and the case, once there, stays.                             *)
(***************************************************************************)
EXTENDS CaseLifecycle, TLAPS

Real ==
  [status : CaseStatuses, client : Clients, lawyer : LawyerIds,
   closeDate : 0..MaxTime]

Dated(row) == row.status = "closed" => row.closeDate # 0

(* The case has been through every stage before s. *)
Reached(c, s) == \A t \in CaseStatuses : Stage[t] < Stage[s] => t \in stages[c]

(* The row in a request that is to be saved over its case. *)
Ready(q) ==
  /\ q.row \in Real /\ Dated(q.row)
  /\ cases[q.on] # NoRow
  /\ q.role = "admin" \/ q.on \in byAdmin \/ Reached(q.on, q.row.status)

RequestOK(q) ==
  /\ q.pc \in {"find", "save"} => q.on \in Cases
  /\ q.pc = "find" /\ q.kind = "status" => q.status \in CaseStatuses
  /\ q.pc = "find" => q.kind \in {"update", "status", "assign"}
  /\ q.pc = "find" /\ q.kind = "assign" => q.lawyer \in LawyerIds
  /\ q.pc \in {"client", "findClient", "saveClient", "delete"} => q.on \in Clients
  /\ q.pc = "client" => q.kind = "create"
  /\ q.pc \in {"client", "lawyer"} => q.lawyer \in LawyerIds
  /\ q.pc = "lawyer" /\ q.kind = "create" => q.on \in Clients
  /\ q.pc = "lawyer" /\ q.kind # "create" => q.on \in Cases /\ Ready(q)
  /\ q.pc = "insert" => q.row \in Real /\ q.row.status = "filed"
                        /\ Dated(q.row)
  /\ q.pc = "save" => Ready(q)

CaseOK(c) ==
  /\ Dated(cases[c])
  /\ cases[c] # NoRow => cases[c].status \in stages[c]
  /\ c \notin byAdmin => \A s \in stages[c] : Reached(c, s)

IInv ==
  /\ TypeOK
  /\ \A c \in Cases : CaseOK(c)
  /\ \A r \in Slots : RequestOK(req[r])

-----------------------------------------------------------------------------
(* The stages are five numbers, one to each status. *)
LEMMA StageFacts ==
  /\ CaseStatuses = {"filed", "investigating", "hearing", "closed", "archived"}
  /\ Stage["filed"] = 0 /\ Stage["investigating"] = 1 /\ Stage["hearing"] = 2
  /\ Stage["closed"] = 3 /\ Stage["archived"] = 4
BY DEF CaseStatuses, Stage

(* One step of the flow leads to a stage all of the earlier ones of which  *)
(* have been reached, if that holds of where it starts.                    *)
LEMMA FlowReaches ==
  ASSUME NEW c \in Cases, NEW from \in CaseStatuses, NEW to \in CaseStatuses,
         from \in stages[c], Reached(c, from), canFlow(from, to)
  PROVE  Reached(c, to)
<1> SUFFICES ASSUME NEW t \in CaseStatuses, Stage[t] < Stage[to]
             PROVE  t \in stages[c]
  BY DEF Reached
<1>1. Stage[t] <= Stage[from]
  BY StageFacts DEF canFlow
<1>2. CASE Stage[t] < Stage[from]
  BY <1>2 DEF Reached
<1>3. CASE Stage[t] = Stage[from]
  <2>1. t = from
    BY <1>3, StageFacts
  <2> QED BY <2>1
<1>4. Stage[t] \in Int /\ Stage[from] \in Int
  BY StageFacts
<1> QED BY <1>1, <1>2, <1>3, <1>4

(* A row that is there is a real one. *)
LEMMA RowIsReal ==
  ASSUME TypeOK, NEW c \in Cases, cases[c] # NoRow
  PROVE  cases[c] \in Real
BY DEF TypeOK, Row, Real

LEMMA RealIsRow ==
  ASSUME NEW row \in Real
  PROVE  row \in Row /\ row # NoRow
<1>1. row.status # "absent"
  BY StageFacts DEF Real
<1> QED BY <1>1 DEF Real, Row, NoRow

LEMMA IdleOK == Idle \in Requests /\ RequestOK(Idle)
BY DEF Idle, Requests, RequestOK, NoRow, Row

(* An answer asks for nothing more. *)
LEMMA AnswerOK ==
  ASSUME TypeOK, NEW r \in Slots,
         NEW outcome \in {"ok", "refused", "not_found", "failed"}
  PROVE  Answer(r, outcome) \in Requests /\ RequestOK(Answer(r, outcome))
BY DEF Answer, Idle, TypeOK, Requests, RequestOK, NoRow, Row

(* A request that carries a row to its next statement. *)
Carrying(q, pc, row) == [q EXCEPT !.pc = pc, !.row = row]

LEMMA CarriesRow ==
  ASSUME NEW q \in Requests, NEW row \in Row, NEW pc \in {"lawyer", "save"}
  PROVE  LET next == Carrying(q, pc, row)
         IN /\ next \in Requests
            /\ next.pc = pc /\ next.row = row /\ next.kind = q.kind
            /\ next.on = q.on /\ next.lawyer = q.lawyer /\ next.role = q.role
BY ZenonT(60) DEF Requests, Carrying

(* A step that writes no row keeps the invariant if the request it leads   *)
(* to is in order.                                                         *)
LEMMA NoRowWritten ==
  ASSUME IInv, NEW r \in Slots, NEW next \in Requests, RequestOK(next),
         Goto(r, next), now' \in 0..MaxTime,
         UNCHANGED <<cases, clients, removed, stages, byAdmin>>
  PROVE  IInv'
<1>1. TypeOK'
  BY DEF IInv, TypeOK, Goto
<1>2. \A c \in Cases : CaseOK(c)'
  BY DEF IInv, CaseOK, Reached, Dated
<1>3. ASSUME NEW s \in Slots PROVE RequestOK(req[s])'
  BY DEF IInv, TypeOK, Goto, RequestOK, Ready, Reached, Dated
<1> QED BY <1>1, <1>2, <1>3 DEF IInv

LEMMA ReadsKeeps ==
  ASSUME IInv, NEW r \in Slots, NEW next \in Requests, RequestOK(next),
         Reads(r, next)
  PROVE  IInv'
BY NoRowWritten DEF Reads, IInv, TypeOK

(* The same of a step that writes, for the requests it leaves alone. *)
LEMMA OthersStay ==
  ASSUME IInv, NEW r \in Slots, NEW next \in Requests, RequestOK(next)',
         Goto(r, next),
         \A c \in Cases : /\ cases[c] # NoRow => cases'[c] # NoRow
                          /\ stages[c] \subseteq stages'[c],
         byAdmin \subseteq byAdmin'
  PROVE  /\ req' \in [Slots -> Requests]
         /\ \A s \in Slots : RequestOK(req[s])'
<1>1. req' \in [Slots -> Requests]
  BY DEF IInv, TypeOK, Goto
<1>2. ASSUME NEW s \in Slots PROVE RequestOK(req[s])'
  <2>1. CASE s = r
    <3>1. req'[s] = next
      BY <2>1 DEF IInv, TypeOK, Goto
    <3> QED BY <3>1 DEF RequestOK, Ready, Reached, Dated
  <2>2. CASE s # r
    <3>1. req'[s] = req[s] /\ RequestOK(req[s]) /\ req[s] \in Requests
      BY <2>2 DEF IInv, TypeOK, Goto
    <3> DEFINE q == req[s]
    <3>2. \A c \in Cases : c \in byAdmin => c \in byAdmin'
      OBVIOUS
    <3> QED BY <3>1, <3>2 DEF RequestOK, Ready, Reached, Dated
  <2> QED BY <2>1, <2>2
<1> QED BY <1>1, <1>2

-----------------------------------------------------------------------------
LEMMA InitHolds == Init => IInv
<1> SUFFICES ASSUME Init PROVE IInv
  OBVIOUS
<1>1. TypeOK
  BY IdleOK, LifecycleAssumption DEF Init, TypeOK, Row
<1>2. \A c \in Cases : CaseOK(c)
  BY DEF Init, CaseOK, Dated, NoRow
<1>3. \A r \in Slots : RequestOK(req[r])
  BY IdleOK DEF Init
<1> QED BY <1>1, <1>2, <1>3 DEF IInv

LEMMA BeginKeeps ==
  ASSUME IInv, NEW r \in Slots, ClientStep(r)
  PROVE  IInv'
<1>1. ASSUME NEW k \in Clients, NEW u \in LawyerIds, BeginCreate(r, k, u)
      PROVE  IInv'
  <2> DEFINE next == [Idle EXCEPT !.pc = "client", !.kind = "create",
                                  !.on = k, !.lawyer = u]
  <2>1. next \in Requests /\ RequestOK(next)
    BY DEF Idle, Requests, RequestOK, NoRow, Row
  <2> QED BY <1>1, <2>1, ReadsKeeps DEF BeginCreate, Begin
<1>2. ASSUME NEW c \in Cases, BeginUpdate(r, c) PROVE IInv'
  <2> DEFINE next == [Idle EXCEPT !.pc = "find", !.kind = "update", !.on = c]
  <2>1. next \in Requests /\ RequestOK(next)
    BY DEF Idle, Requests, RequestOK, NoRow, Row
  <2> QED BY <1>2, <2>1, ReadsKeeps DEF BeginUpdate, Begin
<1>3. ASSUME NEW c \in Cases, NEW s \in CaseStatuses, NEW role \in Roles,
             BeginStatus(r, c, s, role)
      PROVE  IInv'
  <2> DEFINE next == [Idle EXCEPT !.pc = "find", !.kind = "status", !.on = c,
                                  !.status = s, !.role = role]
  <2>1. next \in Requests /\ RequestOK(next)
    BY DEF Idle, Requests, RequestOK, NoRow, Row
  <2> QED BY <1>3, <2>1, ReadsKeeps DEF BeginStatus, Begin
<1>4. ASSUME NEW c \in Cases, NEW u \in LawyerIds, BeginAssign(r, c, u)
      PROVE  IInv'
  <2> DEFINE next == [Idle EXCEPT !.pc = "find", !.kind = "assign", !.on = c,
                                  !.lawyer = u]
  <2>1. next \in Requests /\ RequestOK(next)
    BY DEF Idle, Requests, RequestOK, NoRow, Row
  <2> QED BY <1>4, <2>1, ReadsKeeps DEF BeginAssign, Begin
<1>5. ASSUME NEW k \in Clients, BeginClientUpdate(r, k) PROVE IInv'
  <2> DEFINE next == [Idle EXCEPT !.pc = "findClient", !.kind = "client",
                                  !.on = k]
  <2>1. next \in Requests /\ RequestOK(next)
    BY DEF Idle, Requests, RequestOK, NoRow, Row
  <2> QED BY <1>5, <2>1, ReadsKeeps DEF BeginClientUpdate, Begin
<1>6. ASSUME NEW k \in Clients, BeginClientDelete(r, k) PROVE IInv'
  <2> DEFINE next == [Idle EXCEPT !.pc = "delete", !.kind = "client", !.on = k]
  <2>1. next \in Requests /\ RequestOK(next)
    BY DEF Idle, Requests, RequestOK, NoRow, Row
  <2> QED BY <1>6, <2>1, ReadsKeeps DEF BeginClientDelete, Begin
<1>7. ASSUME Received(r) PROVE IInv'
  BY <1>7, IdleOK, ReadsKeeps DEF Received
<1> QED BY <1>1, <1>2, <1>3, <1>4, <1>5, <1>6, <1>7 DEF ClientStep

-----------------------------------------------------------------------------
(* The statements of the handlers. *)
LEMMA LookupsKeep ==
  ASSUME IInv, NEW r \in Slots,
         FindCaseClient(r) \/ FindLawyer(r) \/ FindClient(r) \/ StatementFails(r)
  PROVE  IInv'
<1> DEFINE q == req[r]
<1>0. q \in Requests /\ RequestOK(q) /\ TypeOK
  BY DEF IInv, TypeOK
<1>1. CASE FindCaseClient(r)
  <2> DEFINE next == IF q.on \in clients THEN [q EXCEPT !.pc = "lawyer"]
                     ELSE Answer(r, "not_found")
  <2>1. q.pc = "client" /\ Reads(r, next)
    BY <1>1 DEF FindCaseClient
  <2>2. next \in Requests /\ RequestOK(next)
    BY <1>0, <2>1, AnswerOK DEF Requests, RequestOK
  <2> QED BY <2>1, <2>2, ReadsKeeps
<1>2. CASE FindLawyer(r)
  <2> DEFINE next == IF q.lawyer \notin Users THEN Answer(r, "not_found")
                     ELSE IF q.kind = "create"
                     THEN [q EXCEPT !.pc = "insert",
                                    !.row = FreshCase(q.on, q.lawyer)]
                     ELSE [q EXCEPT !.pc = "save", !.row.lawyer = q.lawyer]
  <2>1. q.pc = "lawyer" /\ Reads(r, next)
    BY <1>2 DEF FindLawyer
  <2>2. CASE q.lawyer \notin Users
    BY <1>0, <2>1, <2>2, AnswerOK, ReadsKeeps
  <2>3. CASE q.lawyer \in Users /\ q.kind = "create"
    <3> DEFINE row == FreshCase(q.on, q.lawyer)
    <3>1. row \in Real /\ row.status = "filed" /\ Dated(row)
      BY <1>0, <2>1, <2>3, StageFacts, LifecycleAssumption
         DEF RequestOK, FreshCase, Real, Dated
    <3>2. next \in Requests /\ RequestOK(next)
      BY <1>0, <2>1, <2>3, <3>1, RealIsRow DEF Requests, RequestOK
    <3> QED BY <2>1, <3>2, ReadsKeeps
  <2>4. CASE q.lawyer \in Users /\ q.kind # "create"
    <3> DEFINE row == [q.row EXCEPT !.lawyer = q.lawyer]
    <3>1. /\ q.row \in Real /\ Dated(q.row) /\ q.on \in Cases
          /\ cases[q.on] # NoRow
          /\ q.role = "admin" \/ q.on \in byAdmin \/ Reached(q.on, q.row.status)
          /\ q.lawyer \in LawyerIds
      BY <1>0, <2>1, <2>4 DEF RequestOK, Ready
    <3>2. row \in Real /\ Dated(row) /\ row.status = q.row.status
      BY <3>1 DEF Real, Dated
    <3>3. row \in Row
      BY <3>2, RealIsRow
    <3>4. next = Carrying(q, "save", row)
      BY <1>0, <2>4 DEF Requests, Carrying
    <3> HIDE DEF next, row
    <3>5. /\ next \in Requests /\ next.pc = "save" /\ next.on = q.on
          /\ next.row = row /\ next.role = q.role
      BY <1>0, <3>3, <3>4, CarriesRow
    <3>6. Ready(next)
      BY <3>1, <3>2, <3>5 DEF Ready
    <3>7. RequestOK(next)
      BY <3>1, <3>5, <3>6 DEF RequestOK
    <3> QED BY <2>1, <3>5, <3>7, ReadsKeeps
  <2> QED BY <2>2, <2>3, <2>4
<1>3. CASE FindClient(r)
  <2> DEFINE next == IF q.on \in clients THEN [q EXCEPT !.pc = "saveClient"]
                     ELSE Answer(r, "not_found")
  <2>1. q.pc = "findClient" /\ Reads(r, next)
    BY <1>3 DEF FindClient
  <2>2. next \in Requests /\ RequestOK(next)
    BY <1>0, <2>1, AnswerOK DEF Requests, RequestOK
  <2> QED BY <2>1, <2>2, ReadsKeeps
<1>4. CASE StatementFails(r)
  BY <1>0, <1>4, AnswerOK, ReadsKeeps DEF StatementFails
<1> QED BY <1>1, <1>2, <1>3, <1>4

LEMMA FindCaseKeeps ==
  ASSUME IInv, NEW r \in Slots, FindCase(r)
  PROVE  IInv'
<1> DEFINE q   == req[r]
           row == cases[q.on]
           next == IF row = NoRow THEN Answer(r, "not_found")
                   ELSE [q EXCEPT !.row = row,
                                  !.pc = IF q.kind = "assign" THEN "lawyer"
                                         ELSE "save"]
<1>0. q \in Requests /\ RequestOK(q) /\ TypeOK
  BY DEF IInv, TypeOK
<1>1. q.pc = "find" /\ q.on \in Cases /\ q.kind \in {"update", "assign"}
      /\ Reads(r, next)
  BY <1>0 DEF FindCase, RequestOK
<1>2. CASE row = NoRow
  BY <1>0, <1>1, <1>2, AnswerOK, ReadsKeeps
<1>3. CASE row # NoRow
  <2>1. row \in Real /\ row \in Row
    BY <1>0, <1>1, <1>3, RowIsReal, RealIsRow
  <2>2. CaseOK(q.on)
    BY <1>1 DEF IInv
  <2> DEFINE pc == IF q.kind = "assign" THEN "lawyer" ELSE "save"
  <2>3. next = Carrying(q, pc, row) /\ pc \in {"lawyer", "save"}
    BY <1>0, <1>3 DEF Requests, Carrying
  <2> HIDE DEF next, row
  <2>4. /\ next \in Requests /\ next.row = row /\ next.on = q.on
        /\ next.role = q.role /\ next.kind = q.kind /\ next.lawyer = q.lawyer
        /\ next.pc = pc
    BY <1>0, <2>1, <2>3, CarriesRow
  <2>5. Ready(next)
    BY <1>3, <2>1, <2>2, <2>4 DEF Ready, CaseOK, row
  <2>6. RequestOK(next)
    BY <1>0, <1>1, <2>4, <2>5 DEF RequestOK
  <2> QED BY <1>1, <2>4, <2>6, ReadsKeeps
<1> QED BY <1>2, <1>3

LEMMA ChangeStatusKeeps ==
  ASSUME IInv, NEW r \in Slots, ChangeStatus(r)
  PROVE  IInv'
<1> DEFINE q     == req[r]
           row   == cases[q.on]
           dates == q.status = "closed" /\ row.closeDate = 0
           saved == InStatus(row, q.status, now + 1)
           next  == [q EXCEPT !.pc = "save", !.row = saved]
<1>0. q \in Requests /\ RequestOK(q) /\ TypeOK
  BY DEF IInv, TypeOK
<1>1. /\ q.pc = "find" /\ q.kind = "status" /\ q.on \in Cases
      /\ q.status \in CaseStatuses
      /\ UNCHANGED <<cases, clients, removed, stages, byAdmin>>
  BY <1>0 DEF ChangeStatus, RequestOK
<1>2. ASSUME NEW outcome \in {"not_found", "refused"},
             Goto(r, Answer(r, outcome)), UNCHANGED now
      PROVE  IInv'
  BY <1>0, <1>1, <1>2, AnswerOK, ReadsKeeps DEF Reads
<1>3. ASSUME row # NoRow, q.role = "admin" \/ canFlow(row.status, q.status),
             dates => now < MaxTime, Goto(r, next),
             now' = IF dates THEN now + 1 ELSE now
      PROVE  IInv'
  <2>1. row \in Real
    BY <1>0, <1>1, <1>3, RowIsReal
  <2>2. now \in 0..MaxTime /\ MaxTime \in Nat
    BY <1>0, LifecycleAssumption DEF TypeOK
  <2>3. now' \in 0..MaxTime
    BY <1>3, <2>2
  <2>4. /\ saved.status = q.status /\ saved \in Real
        /\ saved.closeDate = IF dates THEN now + 1 ELSE row.closeDate
    <3> DEFINE date == IF dates THEN now + 1 ELSE row.closeDate
    <3>1. date \in 0..MaxTime
      BY <1>3, <2>1, <2>2 DEF Real
    <3>2. saved = [row EXCEPT !.status = q.status, !.closeDate = date]
      BY <2>1 DEF InStatus, Real
    <3> HIDE DEF date, saved, row
    <3>3. saved.status = q.status /\ saved \in Real /\ saved.closeDate = date
      BY <1>1, <2>1, <3>1, <3>2 DEF Real
    <3> QED BY <3>3 DEF date, row
  <2>5. Dated(saved)
    BY <2>2, <2>4 DEF Dated
  <2>6. next \in Requests /\ next.pc = "save" /\ next.on = q.on
        /\ next.row = saved /\ next.role = q.role
    <3>1. saved \in Row
      BY <2>4, RealIsRow
    <3>2. next = Carrying(q, "save", saved)
      BY DEF Carrying
    <3> HIDE DEF saved, next
    <3> QED BY <1>0, <3>1, <3>2, CarriesRow
  <2>7. q.role = "admin" \/ q.on \in byAdmin \/ Reached(q.on, q.status)
    <3> SUFFICES ASSUME q.role # "admin", q.on \notin byAdmin
                 PROVE  Reached(q.on, q.status)
      OBVIOUS
    <3>1. row.status \in stages[q.on] /\ Reached(q.on, row.status)
      BY <1>1, <1>3 DEF IInv, CaseOK
    <3>2. row.status \in CaseStatuses
      BY <2>1 DEF Real
    <3> QED BY <1>1, <1>3, <3>1, <3>2, FlowReaches
  <2> HIDE DEF next, saved
  <2>8. Ready(next)
    BY <1>3, <2>4, <2>5, <2>6, <2>7 DEF Ready
  <2>9. RequestOK(next)
    BY <1>1, <2>6, <2>8 DEF RequestOK
  <2> QED BY <1>1, <1>3, <2>3, <2>6, <2>9, NoRowWritten
<1> QED BY <1>2, <1>3 DEF ChangeStatus

-----------------------------------------------------------------------------
(* The writes. *)
LEMMA InsertKeeps ==
  ASSUME IInv, NEW r \in Slots, InsertCase(r)
  PROVE  IInv'
<1> DEFINE q == req[r]
<1>0. q \in Requests /\ RequestOK(q) /\ TypeOK /\ q.pc = "insert"
  BY DEF IInv, TypeOK, InsertCase
<1>1. PICK c \in Cases :
        /\ cases[c] = NoRow
        /\ cases' = [cases EXCEPT ![c] = q.row]
        /\ stages' = [stages EXCEPT ![c] = {q.row.status}]
        /\ Goto(r, Answer(r, "ok"))
        /\ UNCHANGED <<clients, removed, now, byAdmin>>
  BY DEF InsertCase
<1>2. q.row \in Real /\ q.row.status = "filed" /\ Dated(q.row) /\ q.row \in Row
      /\ q.row # NoRow
  BY <1>0, RealIsRow DEF RequestOK
<1>3. Answer(r, "ok") \in Requests /\ Answer(r, "ok").pc = "done"
  BY <1>0, AnswerOK DEF Answer, Idle
<1>4. TypeOK'
  <2>1. stages' \in [Cases -> SUBSET CaseStatuses]
    BY <1>0, <1>1, <1>2, StageFacts DEF TypeOK
  <2> QED BY <1>0, <1>1, <1>2, <1>3, <2>1 DEF TypeOK, Goto
<1>5. ASSUME NEW d \in Cases PROVE CaseOK(d)'
  <2>1. CASE d = c
    <3>1. cases'[c] = q.row /\ stages'[c] = {"filed"}
      BY <1>0, <1>1, <1>2 DEF TypeOK
    <3>2. Reached(c, "filed")'
      BY StageFacts DEF Reached
    <3> QED BY <1>2, <2>1, <3>1, <3>2 DEF CaseOK, Dated
  <2>2. CASE d # c
    <3>1. cases'[d] = cases[d] /\ stages'[d] = stages[d] /\ CaseOK(d)
      BY <1>0, <1>1, <2>2 DEF IInv, TypeOK
    <3> QED BY <1>1, <3>1 DEF CaseOK, Dated, Reached
  <2> QED BY <2>1, <2>2
(* No request carries a row to a case that is not there. *)
<1>6. ASSUME NEW s \in Slots PROVE RequestOK(req[s])'
  <2>1. CASE s = r
    <3>1. req'[s] = Answer(r, "ok")
      BY <1>0, <1>1, <2>1 DEF TypeOK, Goto
    <3> QED BY <1>3, <3>1 DEF RequestOK
  <2>2. CASE s # r
    <3> DEFINE p == req[s]
    <3>1. req'[s] = p /\ RequestOK(p)
      BY <1>0, <1>1, <2>2 DEF IInv, TypeOK, Goto
    <3>2. ASSUME Ready(p), p.on \in Cases
          PROVE  /\ cases'[p.on] = cases[p.on] /\ stages'[p.on] = stages[p.on]
                 /\ byAdmin' = byAdmin
      <4>1. p.on # c
        BY <1>1, <3>2 DEF Ready
      <4> QED BY <1>0, <1>1, <3>2, <4>1 DEF TypeOK
    <3> HIDE DEF p
    <3> QED BY <3>1, <3>2 DEF RequestOK, Ready, Reached, Dated
  <2> QED BY <2>1, <2>2
<1> QED BY <1>4, <1>5, <1>6 DEF IInv

LEMMA SaveKeeps ==
  ASSUME IInv, NEW r \in Slots, SaveCase(r)
  PROVE  IInv'
<1> DEFINE q == req[r]
<1>0. q \in Requests /\ RequestOK(q) /\ TypeOK /\ q.pc = "save"
  BY DEF IInv, TypeOK, SaveCase
<1>1. /\ cases' = [cases EXCEPT ![q.on] = q.row]
      /\ stages' = [stages EXCEPT ![q.on] = @ \cup {q.row.status}]
      /\ byAdmin' = IF q.role = "admin" THEN byAdmin \cup {q.on} ELSE byAdmin
      /\ Goto(r, Answer(r, "ok"))
      /\ UNCHANGED <<clients, removed, now>>
  BY DEF SaveCase
<1>2. /\ q.on \in Cases /\ q.row \in Real /\ Dated(q.row)
      /\ q.row \in Row /\ q.row # NoRow /\ q.row.status \in CaseStatuses
      /\ q.role = "admin" \/ q.on \in byAdmin \/ Reached(q.on, q.row.status)
  BY <1>0, RealIsRow DEF RequestOK, Ready, Real
<1>3. Answer(r, "ok") \in Requests /\ Answer(r, "ok").pc = "done"
  BY <1>0, AnswerOK DEF Answer, Idle
<1>4. /\ cases' \in [Cases -> Row] /\ stages' \in [Cases -> SUBSET CaseStatuses]
      /\ byAdmin \subseteq byAdmin' /\ byAdmin' \subseteq Cases
  BY <1>0, <1>1, <1>2 DEF TypeOK
<1>5. \A c \in Cases : /\ cases[c] # NoRow => cases'[c] # NoRow
                       /\ stages[c] \subseteq stages'[c]
  BY <1>0, <1>1, <1>2 DEF TypeOK
<1>6. req' \in [Slots -> Requests] /\ \A s \in Slots : RequestOK(req[s])'
  <2>1. PICK answer \in Requests : answer = Answer(r, "ok")
    BY <1>3
  <2>2. RequestOK(answer)'
    BY <1>3, <2>1 DEF RequestOK
  <2> QED BY <1>1, <1>4, <1>5, <2>1, <2>2, OthersStay
<1>7. TypeOK'
  BY <1>0, <1>1, <1>4, <1>6 DEF TypeOK
<1>8. ASSUME NEW c \in Cases PROVE CaseOK(c)'
  <2>1. CaseOK(c)
    BY DEF IInv
  <2>2. CASE c = q.on
    <3>1. cases'[c] = q.row /\ stages'[c] = stages[c] \cup {q.row.status}
      BY <1>0, <1>1, <2>2 DEF TypeOK
    <3>2. ASSUME c \notin byAdmin', NEW s \in stages'[c] PROVE Reached(c, s)'
      <4>1. Reached(c, q.row.status) /\ c \notin byAdmin
        BY <1>1, <1>2, <2>2, <3>2
      <4> QED BY <2>1, <3>1, <3>2, <4>1 DEF CaseOK, Reached
    <3> QED BY <1>2, <3>1, <3>2 DEF CaseOK, Dated
  <2>3. CASE c # q.on
    <3>1. cases'[c] = cases[c] /\ stages'[c] = stages[c]
      BY <1>0, <1>1, <2>3 DEF TypeOK
    <3> QED BY <1>4, <2>1, <3>1 DEF CaseOK, Dated, Reached
  <2> QED BY <2>2, <2>3
<1> QED BY <1>6, <1>7, <1>8 DEF IInv

(* What is done to clients touches no case. *)
LEMMA ClientWritesKeep ==
  ASSUME IInv,
         \/ \E k \in Clients : CreateClient(k)
         \/ \E r \in Slots : SaveClient(r) \/ DeleteClient(r)
  PROVE  IInv'
<1>0. UNCHANGED <<cases, stages, byAdmin, now>>
  BY DEF CreateClient, SaveClient, DeleteClient
<1>1. \A c \in Cases : CaseOK(c)'
  BY <1>0 DEF IInv, CaseOK, Dated, Reached
<1>2. ASSUME NEW k \in Clients, CreateClient(k) PROVE IInv'
  <2>1. TypeOK'
    BY <1>2 DEF IInv, TypeOK, CreateClient
  <2>2. \A s \in Slots : RequestOK(req[s])'
    BY <1>2 DEF IInv, CreateClient, RequestOK, Ready, Dated, Reached
  <2> QED BY <1>1, <2>1, <2>2 DEF IInv
<1>3. ASSUME NEW r \in Slots, SaveClient(r) \/ DeleteClient(r) PROVE IInv'
  <2>1. clients' \subseteq Clients /\ removed' \subseteq Clients
    BY <1>3 DEF IInv, TypeOK, RequestOK, SaveClient, DeleteClient
  <2>2. PICK answer \in Requests : answer = Answer(r, "ok") /\ answer.pc = "done"
    BY AnswerOK DEF IInv, Answer, Idle
  <2>3. RequestOK(answer)' /\ Goto(r, answer)
    BY <1>3, <2>2 DEF RequestOK, SaveClient, DeleteClient
  <2>4. req' \in [Slots -> Requests] /\ \A s \in Slots : RequestOK(req[s])'
    BY <1>0, <2>3, OthersStay
  <2>5. TypeOK'
    BY <1>0, <2>1, <2>4 DEF IInv, TypeOK
  <2> QED BY <1>1, <2>4, <2>5 DEF IInv
<1> QED BY <1>2, <1>3

LEMMA RestartKeeps ==
  ASSUME IInv, Restart
  PROVE  IInv'
<1>1. TypeOK'
  BY IdleOK DEF IInv, TypeOK, Restart
<1>2. \A c \in Cases : CaseOK(c)'
  BY DEF IInv, Restart, CaseOK, Dated, Reached
<1>3. \A s \in Slots : RequestOK(req[s])'
  BY DEF Restart, RequestOK, Idle
<1> QED BY <1>1, <1>2, <1>3 DEF IInv

-----------------------------------------------------------------------------
LEMMA StepKeeps == IInv /\ [Next]_vars => IInv'
<1> SUFFICES ASSUME IInv, [Next]_vars PROVE IInv'
  OBVIOUS
<1>1. CASE UNCHANGED vars
  BY <1>1 DEF vars, IInv, TypeOK, CaseOK, RequestOK, Ready, Dated, Reached
<1>2. ASSUME NEW r \in Slots, ClientStep(r) PROVE IInv'
  BY <1>2, BeginKeeps
<1>3. ASSUME NEW r \in Slots, Step(r) \/ StatementFails(r) PROVE IInv'
  BY <1>3, LookupsKeep, FindCaseKeeps, ChangeStatusKeeps, InsertKeeps, SaveKeeps,
     ClientWritesKeep DEF Step
<1>4. ASSUME NEW k \in Clients, CreateClient(k) PROVE IInv'
  BY <1>4, ClientWritesKeep
<1>5. CASE Restart
  BY <1>5, RestartKeeps
<1> QED BY <1>1, <1>2, <1>3, <1>4, <1>5 DEF Next

LEMMA AlwaysIInv == Spec => []IInv
BY InitHolds, StepKeeps, PTL DEF Spec

(* Columns and what requests hold of them have their types                 *)
(* (model/case.go), for any number of cases, clients and requests.         *)
THEOREM TypeCorrect == Spec => []TypeOK
<1>1. IInv => TypeOK
  BY DEF IInv
<1> QED BY <1>1, AlwaysIInv, PTL

(* Whichever stale rows are saved over it, a closed case has a close date  *)
(* (case_service.go, ChangeStatus).                                        *)
THEOREM ClosedAreDated == Spec => []ClosedIsDated
<1>1. IInv => ClosedIsDated
  BY DEF IInv, CaseOK, Dated, ClosedIsDated
<1> QED BY <1>1, AlwaysIInv, PTL

(* A case no administrator has touched has been through every stage before *)
(* the ones it has been in (case_service.go, canFlow), however many        *)
(* requests race on it.                                                    *)
THEOREM StagesInTurn == Spec => []NoStageSkipped
<1>1. IInv => NoStageSkipped
  BY DEF IInv, CaseOK, Reached, NoStageSkipped
<1> QED BY <1>1, AlwaysIInv, PTL
=============================================================================
