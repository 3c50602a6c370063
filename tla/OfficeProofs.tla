----------------------------- MODULE OfficeProofs ---------------------------
(***************************************************************************)
(* What the office promises, for every value of its constants: bills and   *)
(* summaries of them, the lists read page by page, the page of conflict    *)
(* checks, and all parts together.                                         *)
(*                                                                         *)
(* Bills: a mark about to be saved carries the terms and the month of its  *)
(* bill as they still are, for nothing changes them, and an invoice is     *)
(* only carried for a bill that was read as paid.  A bill that has been    *)
(* counted as received has been marked, and no save unmarks it.  A summary *)
(* that is still quiet has seen the bills as they are.                     *)
(*                                                                         *)
(* Lists: while nothing leaves the list, what comes only pushes the rows   *)
(* of the reader's start to later places, so that each has been seen or is *)
(* on a page to come; and where a row is beyond a page, the page is full.  *)
(*                                                                         *)
(* Page: whatever may still be put on display is expected, and while       *)
(* nothing overtakes, the last request for the queue asks for what it is   *)
(* turned to, as who is still to ask for it will.                          *)
(*                                                                         *)
(* The parts share no state: the steps of the office are, to each of them, *)
(* steps of its own or none.                                               *)
(***************************************************************************)
EXTENDS OfficeServerProofs

(* A bill read as paid has been saved as paid. *)
BillOK(b) == bills[b].status = "paid" => b \in settled

Draft == [status : {"pending"}, terms : Terms, month : {0}]

(* A request about one bill. *)
MarkOK(q) ==
  /\ q.pc \in {"lookup", "insert"} => q.row \in Draft
  /\ q.pc \in {"find", "save"} => q.bill \in Bills /\ bills[q.bill] # NoBill
  /\ q.pc = "save" => /\ q.row \in Bill /\ q.row.status \in Marks
                      /\ q.row.terms = bills[q.bill].terms
                      /\ q.row.month = bills[q.bill].month
                      /\ q.row.status = "invoiced" => q.bill \in settled

(* A summary, from query to query. *)
SummaryOK(q) ==
  /\ q.pc # "done" => q.pending = {} /\ q.outcome = "none"
  /\ q.pc = "pending" => \A b \in q.received : bills[b].status \in Marks
  /\ q.received \cap q.pending = {}
  /\ q.quiet =>
       /\ q.pc \in {"received", "pending"} =>
            q.receivable = Counted("receivable", q.month)
       /\ q.pc = "pending" => q.received = Counted("received", q.month)
       /\ q.kind = "summary" /\ q.outcome = "ok" =>
            q.receivable = q.received \cup q.pending

IInv ==
  /\ TypeOK
  /\ \A b \in Bills : BillOK(b)
  /\ \A r \in Slots : MarkOK(req[r]) /\ SummaryOK(req[r])

-----------------------------------------------------------------------------
LEMMA StatusFacts ==
  /\ Statuses = {"pending", "paid", "invoiced", "void"}
  /\ Marks = {"paid", "invoiced", "void"}
  /\ Queries = {"receivable", "received", "pending"}
  /\ "absent" \notin Statuses
BY DEF Statuses, Marks, Queries

(* A bill that is there has a status and a month. *)
LEMMA BillIsReal ==
  ASSUME TypeOK, NEW b \in Bills, bills[b] # NoBill
  PROVE  bills[b] \in [status : Statuses, terms : Terms, month : 1..MaxMonth]
BY DEF TypeOK, Bill

LEMMA IdleOK == Idle \in Requests /\ MarkOK(Idle) /\ SummaryOK(Idle)
<1>1. Idle \in Requests
  BY BillingAssumption DEF Idle, Requests, Bill
<1>2. MarkOK(Idle)
  BY DEF Idle, MarkOK
<1>3. SummaryOK(Idle)
  BY DEF Idle, SummaryOK
<1> QED BY <1>1, <1>2, <1>3

(* An answer asks for nothing more, and no summary is answered so that it  *)
(* has added anything up, unless it has gone through its queries.          *)
LEMMA AnswerOK ==
  ASSUME TypeOK, NEW r \in Slots, NEW outcome \in {"ok", "refused", "failed"}
  PROVE  /\ Answer(r, outcome) \in Requests
         /\ MarkOK(Answer(r, outcome)) /\ SummaryOK(Answer(r, outcome))
<1> DEFINE answer == Answer(r, outcome)
<1>1. answer \in Requests
  <2>1. Idle \in Requests /\ req[r] \in Requests
    BY IdleOK DEF TypeOK
  <2> QED BY <2>1 DEF Answer, Requests
<1>2. /\ answer.pc = "done" /\ answer.received = {} /\ answer.pending = {}
      /\ answer.receivable = {}
  BY DEF Answer, Idle
<1>3. MarkOK(answer) /\ SummaryOK(answer)
  BY <1>2 DEF MarkOK, SummaryOK
<1> QED BY <1>1, <1>3

(* A step that writes no bill keeps the invariant if the request it leads  *)
(* to is in order.                                                         *)
LEMMA NoBillWritten ==
  ASSUME IInv, NEW r \in Slots, NEW next \in Requests, MarkOK(next),
         SummaryOK(next), Goto(r, next), UNCHANGED <<bills, month, settled>>
  PROVE  IInv'
<1>1. TypeOK'
  BY DEF IInv, TypeOK, Goto
<1>2. \A b \in Bills : BillOK(b)'
  BY DEF IInv, BillOK
<1>3. ASSUME NEW s \in Slots PROVE MarkOK(req[s])' /\ SummaryOK(req[s])'
  <2>1. req'[s] \in {next, req[s]}
    BY DEF IInv, TypeOK, Goto
  <2>2. MarkOK(req'[s]) /\ SummaryOK(req'[s])
    BY <2>1 DEF IInv
  <2> QED BY <2>2 DEF MarkOK, SummaryOK, Counted
<1> QED BY <1>1, <1>2, <1>3 DEF IInv

(* What a summary under way is after a bill has been written. *)
Disturbed(q) ==
  IF q.pc \in Queries \ {"receivable"} THEN [q EXCEPT !.quiet = FALSE] ELSE q

LEMMA DisturbedFields ==
  ASSUME NEW q \in Requests
  PROVE  /\ Disturbed(q) \in Requests
         /\ Disturbed(q).pc = q.pc /\ Disturbed(q).kind = q.kind
         /\ Disturbed(q).bill = q.bill /\ Disturbed(q).row = q.row
         /\ Disturbed(q).received = q.received
         /\ Disturbed(q).receivable = q.receivable
         /\ Disturbed(q).pending = q.pending
         /\ Disturbed(q).outcome = q.outcome
         /\ q.pc \in {"received", "pending"} => ~Disturbed(q).quiet
         /\ q.pc \notin {"received", "pending"} => Disturbed(q) = q
BY ZenonT(60) DEF Disturbed, Requests, Queries

(* A step that writes a bill keeps the invariant if it takes from no bill  *)
(* its terms, its month or that it has been marked.                        *)
LEMMA BillWritten ==
  ASSUME IInv, NEW r \in Slots, NEW next \in Requests,
         MarkOK(next)', SummaryOK(next)', next.pc = "done",
         GotoDisturbing(r, next), bills' \in [Bills -> Bill],
         \A b \in Bills : bills[b] # NoBill =>
           /\ bills'[b] # NoBill
           /\ bills'[b].terms = bills[b].terms
           /\ bills'[b].month = bills[b].month
           /\ bills[b].status \in Marks => bills'[b].status \in Marks,
         \A b \in Bills : BillOK(b)',
         settled \subseteq settled', settled' \subseteq Bills, UNCHANGED month
  PROVE  IInv'
<1>1. req' = [s \in Slots |-> IF s = r THEN next ELSE Disturbed(req[s])]
  BY DEF GotoDisturbing, Disturbed
<1>2. ASSUME NEW s \in Slots
      PROVE  req'[s] \in Requests /\ MarkOK(req[s])' /\ SummaryOK(req[s])'
  <2>1. CASE s = r
    <3>1. req'[s] = next
      BY <1>1, <2>1
    <3> QED BY <3>1 DEF MarkOK, SummaryOK, Counted
  <2>2. CASE s # r
    <3> DEFINE q == req[s]
    <3>1. q \in Requests /\ MarkOK(q) /\ SummaryOK(q)
      BY DEF IInv, TypeOK
    <3>2. req'[s] = Disturbed(q)
      BY <1>1, <2>2
    <3>3. MarkOK(req[s])'
      BY <3>1, <3>2, DisturbedFields DEF MarkOK
    <3>4. ASSUME NEW b \in q.received, q.pc = "pending"
          PROVE  bills'[b].status \in Marks
      <4>1. b \in Bills /\ bills[b].status \in Marks
        BY <3>1, <3>4 DEF SummaryOK, Requests
      <4>2. bills[b] # NoBill
        BY <4>1 DEF NoBill, Marks
      <4> QED BY <4>1, <4>2
    <3>5. SummaryOK(req[s])'
      <4>1. CASE q.pc \in {"received", "pending"}
        BY <4>1, <3>1, <3>2, <3>4, DisturbedFields DEF SummaryOK
      <4>2. CASE q.pc \notin {"received", "pending"}
        <5>1. req'[s] = q
          BY <4>2, <3>1, <3>2, DisturbedFields
        <5> QED BY <4>2, <5>1, <3>1 DEF SummaryOK
      <4> QED BY <4>1, <4>2
    <3> QED BY <3>1, <3>2, <3>3, <3>5, DisturbedFields
  <2> QED BY <2>1, <2>2
<1>3. TypeOK'
  <2>1. req' \in [Slots -> Requests]
    BY <1>1, <1>2
  <2> QED BY <2>1 DEF IInv, TypeOK
<1> QED BY <1>2, <1>3 DEF IInv

-----------------------------------------------------------------------------
LEMMA InitHolds == Init => IInv
<1> SUFFICES ASSUME Init PROVE IInv
  OBVIOUS
<1>1. TypeOK
  BY IdleOK, BillingAssumption DEF Init, TypeOK, Bill
<1>2. \A b \in Bills : BillOK(b)
  BY DEF Init, BillOK, NoBill
<1>3. \A r \in Slots : MarkOK(req[r]) /\ SummaryOK(req[r])
  BY IdleOK DEF Init
<1> QED BY <1>1, <1>2, <1>3 DEF IInv

LEMMA MarkBegins ==
  ASSUME IInv, NEW r \in Slots, NEW b \in Bills, NEW kind \in Marks,
         bills[b] # NoBill, Begin(r, kind, "find", b, NoBill)
  PROVE  IInv'
<1> DEFINE next == [Idle EXCEPT !.pc = "find", !.kind = kind, !.bill = b,
                                !.row = NoBill]
<1>1. next \in Requests
  BY IdleOK DEF Requests, Bill
<1>2. MarkOK(next) /\ SummaryOK(next)
  BY DEF Idle, MarkOK, SummaryOK
<1> QED BY <1>1, <1>2, NoBillWritten DEF Begin

LEMMA ClientStepKeeps ==
  ASSUME IInv, NEW r \in Slots, ClientStep(r)
  PROVE  IInv'
<1>1. ASSUME NEW t \in Terms, BeginCreate(r, t) PROVE IInv'
  <2> DEFINE draft == [status |-> "pending", terms |-> t, month |-> 0]
             next  == [Idle EXCEPT !.pc = "lookup", !.kind = "create",
                                   !.bill = Nothing, !.row = draft]
  <2>1. draft \in Draft
    BY DEF Draft
  <2>2. next \in Requests
    BY IdleOK DEF Requests
  <2>3. MarkOK(next) /\ SummaryOK(next)
    BY <2>1 DEF Idle, MarkOK, SummaryOK
  <2> QED BY <1>1, <2>2, <2>3, NoBillWritten DEF BeginCreate, Begin
<1>2. ASSUME NEW b \in Bills,
             BeginPaid(r, b) \/ BeginInvoiced(r, b) \/ BeginVoid(r, b)
      PROVE  IInv'
  BY <1>2, MarkBegins DEF BeginPaid, BeginInvoiced, BeginVoid, Marks
<1>3. CASE BeginSummary(r)
  <2> DEFINE next == [Idle EXCEPT !.pc = "receivable", !.kind = "summary",
                                  !.month = month]
  <2>1. next \in Requests
    <3>1. month \in 0..MaxMonth
      BY BillingAssumption DEF IInv, TypeOK
    <3> QED BY <3>1, IdleOK DEF Requests, Queries
  <2>2. MarkOK(next) /\ SummaryOK(next)
    BY DEF Idle, MarkOK, SummaryOK
  <2> QED BY <1>3, <2>1, <2>2, NoBillWritten DEF BeginSummary
<1>4. CASE Received(r)
  BY <1>4, IdleOK, NoBillWritten DEF Received
<1> QED BY <1>1, <1>2, <1>3, <1>4 DEF ClientStep

-----------------------------------------------------------------------------
LEMMA CreateLookupKeeps ==
  ASSUME IInv, NEW r \in Slots, CreateLookup(r)
  PROVE  IInv'
<1> DEFINE q == req[r]
           next == [q EXCEPT !.pc = "insert"]
<1>1. q \in Requests /\ MarkOK(q) /\ SummaryOK(q) /\ q.pc = "lookup"
  BY DEF IInv, TypeOK, CreateLookup
<1>2. next \in Requests /\ MarkOK(next) /\ SummaryOK(next)
  BY <1>1 DEF Requests, MarkOK, SummaryOK
<1>3. Answer(r, "refused") \in Requests /\ MarkOK(Answer(r, "refused"))
      /\ SummaryOK(Answer(r, "refused"))
  BY AnswerOK DEF IInv
<1> HIDE DEF next
<1>4. Goto(r, IF q.row.terms \in Acceptable THEN next ELSE Answer(r, "refused"))
  BY DEF CreateLookup, next
<1> QED BY <1>2, <1>3, <1>4, NoBillWritten DEF CreateLookup

(* The read of a mark.  Only a bill that was paid is read for an invoice.  *)
LEMMA FindKeeps ==
  ASSUME IInv, NEW r \in Slots, NEW mark \in Marks, NEW allowed \in SUBSET Statuses,
         mark = "invoiced" => allowed = {"paid"},
         FindThenMark(r, mark, allowed)
  PROVE  IInv'
<1> DEFINE q    == req[r]
           row  == bills[q.bill]
           new  == [row EXCEPT !.status = mark]
           next == [q EXCEPT !.pc = "save", !.row = new]
<1>1. q \in Requests /\ MarkOK(q) /\ SummaryOK(q) /\ q.pc = "find"
  BY DEF IInv, TypeOK, FindThenMark
<1>2. /\ q.bill \in Bills /\ row # NoBill
      /\ row \in [status : Statuses, terms : Terms, month : 1..MaxMonth]
  BY <1>1, BillIsReal DEF MarkOK, IInv
<1>3. /\ new \in [status : Statuses, terms : Terms, month : 1..MaxMonth]
      /\ new.status = mark /\ new.terms = row.terms /\ new.month = row.month
  BY <1>2, StatusFacts
<1>4. ASSUME row.status \in allowed, mark = "invoiced" PROVE q.bill \in settled
  BY <1>2, <1>4 DEF IInv, BillOK
<1> HIDE DEF new
<1>5. next \in Requests /\ next.pc = "save" /\ next.bill = q.bill
      /\ next.row = new /\ next.pending = q.pending /\ next.outcome = q.outcome
      /\ next.received = q.received /\ next.receivable = q.receivable
      /\ next.quiet = q.quiet /\ next.kind = q.kind
  BY <1>1, <1>3 DEF Requests, Bill
<1> HIDE DEF next
<1>6. row.status \in allowed => MarkOK(next)
  BY <1>2, <1>3, <1>4, <1>5 DEF MarkOK, Bill
<1>7. SummaryOK(next)
  BY <1>1, <1>5 DEF SummaryOK
<1>8. Answer(r, "refused") \in Requests /\ MarkOK(Answer(r, "refused"))
      /\ SummaryOK(Answer(r, "refused"))
  BY AnswerOK DEF IInv
<1>9. Goto(r, IF row.status \in allowed THEN next ELSE Answer(r, "refused"))
  BY DEF FindThenMark, next, new
<1> QED BY <1>5, <1>6, <1>7, <1>8, <1>9, NoBillWritten DEF FindThenMark

LEMMA QueriesKeep ==
  ASSUME IInv, NEW r \in Slots,
         QueryReceivable(r) \/ QueryReceived(r) \/ QueryPending(r)
  PROVE  IInv'
<1> DEFINE q == req[r]
<1>1. q \in Requests /\ MarkOK(q) /\ SummaryOK(q)
  BY DEF IInv, TypeOK
<1>2. \A query : Counted(query, q.month) \subseteq Bills
  BY DEF Counted
<1>3. CASE QueryReceivable(r)
  <2> DEFINE next == [q EXCEPT !.pc = "received",
                               !.receivable = Counted("receivable", q.month)]
  <2>1. q.pc = "receivable" /\ Goto(r, next)
    BY <1>3 DEF QueryReceivable
  <2>2. next \in Requests /\ MarkOK(next)
    BY ZenonT(60), <1>1, <1>2 DEF Requests, MarkOK, Queries
  <2>3. SummaryOK(next)
    BY <1>1, <2>1 DEF Requests, SummaryOK
  <2> QED BY <1>3, <2>1, <2>2, <2>3, NoBillWritten DEF QueryReceivable
<1>4. CASE QueryReceived(r)
  <2> DEFINE next == [q EXCEPT !.pc = "pending",
                               !.received = Counted("received", q.month)]
  <2>1. q.pc = "received" /\ Goto(r, next)
    BY <1>4 DEF QueryReceived
  <2>2. next \in Requests /\ MarkOK(next)
    BY ZenonT(60), <1>1, <1>2 DEF Requests, MarkOK, Queries
  <2>3. \A b \in Counted("received", q.month) : bills[b].status \in Marks
    BY DEF Counted, CountedStatuses, Marks
  <2>4. SummaryOK(next)
    BY <1>1, <2>1, <2>3 DEF Requests, SummaryOK
  <2> QED BY <1>4, <2>1, <2>2, <2>4, NoBillWritten DEF QueryReceived
<1>5. CASE QueryPending(r)
  <2> DEFINE next == [q EXCEPT !.pc = "done", !.outcome = "ok",
                               !.pending = Counted("pending", q.month)]
  <2>1. q.pc = "pending" /\ Goto(r, next)
    BY <1>5 DEF QueryPending
  <2>2. next \in Requests /\ MarkOK(next)
    BY ZenonT(60), <1>1, <1>2 DEF Requests, MarkOK
  <2>3. \A b \in Counted("pending", q.month) : bills[b].status = "pending"
    BY DEF Counted, CountedStatuses
  <2>4. q.received \cap Counted("pending", q.month) = {}
    BY <1>1, <2>1, <2>3 DEF SummaryOK, Marks
  <2>5. Counted("receivable", q.month)
          = Counted("received", q.month) \cup Counted("pending", q.month)
    BY DEF Counted, CountedStatuses, Statuses
  <2>6. SummaryOK(next)
    BY <1>1, <2>1, <2>4, <2>5 DEF Requests, SummaryOK
  <2> QED BY <1>5, <2>1, <2>2, <2>6, NoBillWritten DEF QueryPending
<1> QED BY <1>3, <1>4, <1>5

-----------------------------------------------------------------------------
(* What the two steps that write a bill make of it. *)
LEMMA InsertWrites ==
  ASSUME IInv, NEW r \in Slots, CreateInsert(r)
  PROVE  \E b \in Bills, new \in [status : {"pending"}, terms : Terms,
                                  month : 1..MaxMonth] :
           bills[b] = NoBill /\ bills' = [bills EXCEPT ![b] = new]
<1> DEFINE row == req[r].row
           new == [row EXCEPT !.month = month]
<1>1. row \in Draft /\ month \in 1..MaxMonth
  BY DEF IInv, TypeOK, MarkOK, CreateInsert
<1>2. new \in [status : {"pending"}, terms : Terms, month : 1..MaxMonth]
  BY <1>1 DEF Draft
<1> QED BY <1>2 DEF CreateInsert

LEMMA InsertKeeps ==
  ASSUME IInv, NEW r \in Slots, CreateInsert(r)
  PROVE  IInv'
<1>1. PICK b \in Bills, new \in [status : {"pending"}, terms : Terms,
                                 month : 1..MaxMonth] :
        bills[b] = NoBill /\ bills' = [bills EXCEPT ![b] = new]
  BY InsertWrites
<1>2. new \in Bill /\ new.status = "pending"
  BY StatusFacts DEF Bill
<1>3. bills' \in [Bills -> Bill] /\ \A x \in Bills : x # b => bills'[x] = bills[x]
  BY <1>1, <1>2 DEF IInv, TypeOK
<1>4. \A x \in Bills : BillOK(x)'
  BY <1>1, <1>2, <1>3 DEF IInv, TypeOK, BillOK, CreateInsert
<1>5. PICK next \in Requests : next = Answer(r, "ok") /\ next.pc = "done"
  BY AnswerOK DEF IInv, Answer, Idle
<1>6. MarkOK(next)' /\ SummaryOK(next)'
  BY <1>5, AnswerOK DEF IInv, MarkOK, SummaryOK
<1>7. GotoDisturbing(r, next)
  BY <1>5 DEF CreateInsert
<1> QED
  BY <1>1, <1>3, <1>4, <1>5, <1>6, <1>7, BillWritten
  DEF CreateInsert, IInv, TypeOK

LEMMA SaveWrites ==
  ASSUME IInv, NEW r \in Slots, SaveBill(r)
  PROVE  \E b \in Bills, new \in [status : Marks, terms : Terms,
                                  month : 1..MaxMonth] :
           /\ bills[b] # NoBill
           /\ new.terms = bills[b].terms /\ new.month = bills[b].month
           /\ new.status = "invoiced" => b \in settled
           /\ bills' = [bills EXCEPT ![b] = new]
           /\ settled' = IF new.status = "paid" THEN settled \cup {b}
                         ELSE settled
<1> DEFINE q == req[r]
<1>1. q.pc = "save" /\ MarkOK(q)
  BY DEF SaveBill, IInv
<1>2. q.row # NoBill
  BY <1>1, StatusFacts DEF MarkOK, NoBill
<1>3. q.bill \in Bills
      /\ q.row \in [status : Marks, terms : Terms, month : 1..MaxMonth]
  BY <1>1, <1>2 DEF MarkOK, Bill
<1> QED BY <1>1, <1>3 DEF MarkOK, SaveBill

LEMMA SaveKeeps ==
  ASSUME IInv, NEW r \in Slots, SaveBill(r)
  PROVE  IInv'
<1>1. PICK b \in Bills, new \in [status : Marks, terms : Terms,
                                 month : 1..MaxMonth] :
        /\ bills[b] # NoBill
        /\ new.terms = bills[b].terms /\ new.month = bills[b].month
        /\ new.status = "invoiced" => b \in settled
        /\ bills' = [bills EXCEPT ![b] = new]
        /\ settled' = IF new.status = "paid" THEN settled \cup {b} ELSE settled
  BY SaveWrites
<1>2. new \in Bill /\ new.status \in Marks /\ new # NoBill
  BY StatusFacts DEF Bill, NoBill
<1>3. /\ bills' \in [Bills -> Bill] /\ bills'[b] = new
      /\ \A x \in Bills : x # b => bills'[x] = bills[x]
  BY <1>1, <1>2 DEF IInv, TypeOK
<1>4. settled \subseteq settled' /\ settled' \subseteq Bills
  BY <1>1 DEF IInv, TypeOK
<1>5. \A x \in Bills : BillOK(x)'
  BY <1>1, <1>3, <1>4 DEF IInv, BillOK
<1>6. PICK next \in Requests : next = Answer(r, "ok") /\ next.pc = "done"
  BY AnswerOK DEF IInv, Answer, Idle
<1>7. MarkOK(next)' /\ SummaryOK(next)'
  BY <1>6, AnswerOK DEF IInv, MarkOK, SummaryOK
<1>8. GotoDisturbing(r, next) /\ UNCHANGED month
  BY <1>6 DEF SaveBill
<1> QED
  BY <1>1, <1>2, <1>3, <1>4, <1>5, <1>6, <1>7, <1>8, BillWritten

-----------------------------------------------------------------------------
LEMMA NextKeeps == IInv /\ [Next]_vars => IInv'
<1> SUFFICES ASSUME IInv, [Next]_vars PROVE IInv'
  OBVIOUS
<1>1. ASSUME NEW r \in Slots, ClientStep(r) PROVE IInv'
  BY <1>1, ClientStepKeeps
<1>2. ASSUME NEW r \in Slots, Step(r) PROVE IInv'
  <2>1. CASE CreateLookup(r)
    BY <2>1, CreateLookupKeeps
  <2>2. CASE CreateInsert(r)
    BY <2>2, InsertKeeps
  <2>3. CASE MarkPaid(r)
    BY <2>3, FindKeeps, StatusFacts DEF MarkPaid
  <2>4. CASE MarkInvoiced(r)
    BY <2>4, FindKeeps, StatusFacts DEF MarkInvoiced
  <2>5. CASE Void(r)
    BY <2>5, FindKeeps, StatusFacts DEF Void
  <2>6. CASE SaveBill(r)
    BY <2>6, SaveKeeps
  <2>7. CASE QueryReceivable(r) \/ QueryReceived(r) \/ QueryPending(r)
    BY <2>7, QueriesKeep
  <2> QED BY <1>2, <2>1, <2>2, <2>3, <2>4, <2>5, <2>6, <2>7 DEF Step
<1>3. ASSUME NEW r \in Slots, StatementFails(r) PROVE IInv'
  BY <1>3, AnswerOK, NoBillWritten DEF StatementFails, IInv
<1>4. CASE Restart
  <2>1. TypeOK' /\ \A r \in Slots : req'[r] = Idle
    BY <1>4, IdleOK DEF Restart, IInv, TypeOK
  <2>2. \A r \in Slots : MarkOK(req[r])' /\ SummaryOK(req[r])'
    BY <2>1, IdleOK DEF MarkOK, SummaryOK, Idle
  <2> QED BY <1>4, <2>1, <2>2 DEF Restart, IInv, BillOK
<1>5. CASE NextMonth
  <2>1. month' \in 1..MaxMonth
    BY <1>5, BillingAssumption DEF NextMonth, IInv, TypeOK
  <2> QED BY <1>5, <2>1
          DEF NextMonth, IInv, TypeOK, BillOK, MarkOK, SummaryOK, Counted
<1>6. CASE UNCHANGED vars
  BY <1>6 DEF vars, IInv, TypeOK, BillOK, MarkOK, SummaryOK, Counted
<1> QED BY <1>1, <1>2, <1>3, <1>4, <1>5, <1>6 DEF Next

LEMMA AlwaysIInv == Spec => []IInv
BY InitHolds, NextKeeps, PTL DEF Spec

(* Every reachable state of bills and the requests about them is well      *)
(* typed (model/billing.go).                                               *)
THEOREM TypeCorrect == Spec => []TypeOK
<1>1. IInv => TypeOK
  BY DEF IInv
<1> QED BY <1>1, AlwaysIInv, PTL

(* No summary counts a bill both as received and as pending                *)
(* (billing_repository.go, Summary).                                       *)
THEOREM NothingCountedTwice == Spec => []CountedOnce
<1>1. IInv => CountedOnce
  BY DEF IInv, SummaryOK, CountedOnce
<1> QED BY <1>1, AlwaysIInv, PTL

(* A summary no write has come between adds up (billing_repository.go,     *)
(* Summary).                                                               *)
THEOREM QuietSummariesAddUp == Spec => []QuietSummaryAddsUp
<1>1. IInv => QuietSummaryAddsUp
  BY DEF IInv, SummaryOK, QuietSummaryAddsUp
<1> QED BY <1>1, AlwaysIInv, PTL

-----------------------------------------------------------------------------
(* The bills of this module, seen as the ledger of BillPromise. *)
ledger == [b \in Bills |-> [status |-> bills[b].status, terms |-> bills[b].terms]]

LEMMA InsertIssues ==
  ASSUME IInv, NEW r \in Slots, CreateInsert(r)
  PROVE  Promise!Next
<1>1. PICK b \in Bills, new \in [status : {"pending"}, terms : Terms,
                                 month : 1..MaxMonth] :
        bills[b] = NoBill /\ bills' = [bills EXCEPT ![b] = new]
  BY InsertWrites
<1>2. /\ bills'[b] = new
      /\ \A x \in Bills : x # b => bills'[x] = bills[x]
  BY <1>1 DEF IInv, TypeOK
<1>3. ledger[b] = Promise!Unissued
  BY <1>1 DEF ledger, NoBill, Promise!Unissued
<1>4. ledger' = [ledger EXCEPT ![b] = [status |-> "pending", terms |-> new.terms]]
  BY <1>2 DEF ledger
<1>5. Promise!Issue(b, new.terms)
  BY <1>3, <1>4 DEF Promise!Issue, ledger, CreateInsert
<1> QED BY <1>5 DEF Promise!Next

LEMMA SaveMarks ==
  ASSUME IInv, NEW r \in Slots, SaveBill(r)
  PROVE  Promise!Next
<1>1. PICK b \in Bills, new \in [status : Marks, terms : Terms,
                                 month : 1..MaxMonth] :
        /\ bills[b] # NoBill
        /\ new.terms = bills[b].terms /\ new.month = bills[b].month
        /\ new.status = "invoiced" => b \in settled
        /\ bills' = [bills EXCEPT ![b] = new]
        /\ settled' = IF new.status = "paid" THEN settled \cup {b} ELSE settled
  BY SaveWrites
<1>2. /\ bills'[b] = new
      /\ \A x \in Bills : x # b => bills'[x] = bills[x]
  BY <1>1 DEF IInv, TypeOK
<1>3. bills[b].status # "absent"
  BY <1>1, BillIsReal, StatusFacts DEF IInv
<1>4. ledger' = [ledger EXCEPT ![b].status = new.status]
  BY ZenonT(60), <1>1, <1>2 DEF ledger
<1>5. Promise!Mark(b, new.status)
  BY <1>3, <1>4 DEF Promise!Mark, ledger
<1>6. CASE new.status = "paid"
  BY <1>1, <1>5, <1>6 DEF Promise!Next, Promise!Settle
<1>7. CASE new.status = "invoiced"
  BY <1>1, <1>5, <1>7 DEF Promise!Next, Promise!Invoice
<1>8. CASE new.status = "void"
  BY <1>1, <1>5, <1>8 DEF Promise!Next, Promise!Cancel
<1> QED BY <1>6, <1>7, <1>8 DEF Marks

(* Bills keep the promise of BillPromise however requests interleave: each *)
(* step is one of the promise's or leaves the ledger alone                 *)
(* (billing_service.go, the marks and their whole-row saves).              *)
THEOREM BillsKeepThePromise == Spec => KeepsThePromise
<1>1. Init => Promise!Init
  BY DEF Init, Promise!Init, Promise!Unissued, NoBill
<1>2. IInv /\ [Next]_vars => [Promise!Next]_<<ledger, settled>>
  <2> SUFFICES ASSUME IInv, [Next]_vars
               PROVE  Promise!Next \/ UNCHANGED <<bills, settled>>
    BY DEF ledger
  <2>1. ASSUME NEW r \in Slots, ClientStep(r)
        PROVE  UNCHANGED <<bills, settled>>
    BY <2>1 DEF ClientStep, BeginCreate, BeginPaid, BeginInvoiced, BeginVoid,
                BeginSummary, Begin, Received
  <2>2. ASSUME NEW r \in Slots, Step(r)
        PROVE  Promise!Next \/ UNCHANGED <<bills, settled>>
    BY <2>2, InsertIssues, SaveMarks
    DEF Step, CreateLookup, MarkPaid, MarkInvoiced, Void, FindThenMark,
        QueryReceivable, QueryReceived, QueryPending
  <2> QED BY <2>1, <2>2 DEF Next, StatementFails, Restart, NextMonth, vars
<1> QED BY <1>1, <1>2, AlwaysIInv, PTL DEF Spec, KeepsThePromise, Promise!Spec, ledger

-----------------------------------------------------------------------------
(* A row that was there when the reading began has been seen or is on a    *)
(* page to come.                                                           *)
ReadingOK ==
  reader.pc \in {"count", "find"} /\ ~reader.left =>
    /\ reader.start \subseteq shown
    /\ \A row \in reader.start :
         \/ row \in reader.seen
         \/ Lists!Position(row) >= Lists!Offset(reader.page, reader.size)

ReadingInv ==
  /\ Lists!TypeOK
  /\ ReadingOK
  /\ reader.pc = "find" /\ ~reader.left => reader.total <= Cardinality(shown)
  /\ Lists!NothingMissed

(* What is on the page. *)
ScreenOK ==
  /\ caseKey \in Page!Keys /\ overtaken \in BOOLEAN
  /\ {result, review} \cup expected \subseteq 0..MaxKey
  /\ page \in Pages /\ statusFilter \in Filters
  /\ list \subseteq Page!Selection

(* Requests are numbered in the order they were sent. *)
NetOK ==
  /\ asked \in 0..MaxAsked /\ net \subseteq Page!Requests
  /\ \A a \in net : a.id <= asked
  /\ \A a, b \in net : a.id = b.id => a = b

(* Whatever may still be put on display is expected. *)
DisplayOK ==
  /\ \A a \in Page!Handlers : a.key \in expected
  /\ Page!Handlers = {} => result \in expected

(* The last request for the queue among those under way. *)
Newest(a) ==
  a.kind = "list" /\ \A b \in net : b.kind = "list" => b.id <= a.id

(* While nothing overtakes, who is to reload the queue will ask for what   *)
(* it is turned to, as the last request under way does, or the answer shown.*)
QueueOK ==
  ~overtaken =>
    /\ \A a \in Page!Reloaders : a.at = Page!Here
    /\ \A a \in net : Newest(a) => a.at = Page!Here
    /\ (\A a \in net : a.kind # "list") => list \subseteq {Page!Here}

PageInv == ScreenOK /\ NetOK /\ DisplayOK /\ QueueOK

-----------------------------------------------------------------------------
(* The instance of the lists counts as FiniteSets does. *)
LEMMA ListsCount ==
  ASSUME NEW S
  PROVE  Lists!Cardinality(S) = Cardinality(S)
BY DEF Lists!Cardinality, Cardinality

LEMMA ShownIsFinite ==
  ASSUME Lists!TypeOK
  PROVE  /\ IsFiniteSet(shown) /\ Cardinality(shown) \in 0..last
         /\ shown \subseteq Int /\ last \in 0..MaxRows /\ MaxRows \in Nat
<1>1. shown \subseteq 1..last /\ last \in 0..MaxRows /\ MaxRows \in Nat
  BY OfficeAssumption DEF Lists!TypeOK, Lists!PagingAssumption
<1>2. IsFiniteSet(1..last) /\ Cardinality(1..last) = last
  BY <1>1, FS_Interval
<1>3. IsFiniteSet(shown) /\ Cardinality(shown) <= last
  BY <1>1, <1>2, FS_Subset
<1> QED BY <1>1, <1>3, FS_CardinalityType

Before(row) == {other \in shown : Lists!Precedes(other, row)}

LEMMA PositionCounts ==
  ASSUME Lists!TypeOK, NEW row
  PROVE  /\ Before(row) \subseteq shown /\ IsFiniteSet(Before(row))
         /\ Lists!Position(row) = Cardinality(Before(row))
         /\ Lists!Position(row) \in Nat
<1>1. Before(row) \subseteq shown
  BY DEF Before
<1>2. IsFiniteSet(Before(row)) /\ Cardinality(Before(row)) \in Nat
  BY <1>1, ShownIsFinite, FS_Subset, FS_CardinalityType
<1>3. Lists!Position(row) = Cardinality(Before(row))
  BY ListsCount DEF Lists!Position, Before
<1> QED BY <1>1, <1>2, <1>3

(* Rows have places of their own, from 0 on. *)
LEMMA PlacesInOrder ==
  ASSUME Lists!TypeOK, NEW a \in shown, NEW b \in shown, Lists!Precedes(a, b)
  PROVE  Lists!Position(a) < Lists!Position(b)
<1>1. a \in Int /\ b \in Int /\ shown \subseteq Int
  BY ShownIsFinite
<1>2. a \notin Before(a)
  BY <1>1 DEF Before, Lists!Precedes
<1>3. Before(a) \cup {a} \subseteq Before(b)
  <2>1. a \in Before(b)
    BY DEF Before
  <2>2. ASSUME NEW c \in shown, Lists!Precedes(c, a)
        PROVE  Lists!Precedes(c, b)
    BY <1>1, <2>2 DEF Lists!Precedes
  <2> QED BY <2>1, <2>2 DEF Before
<1>4. Cardinality(Before(a) \cup {a}) = Cardinality(Before(a)) + 1
  BY <1>2, PositionCounts, FS_AddElement
<1>5. Cardinality(Before(a) \cup {a}) <= Cardinality(Before(b))
  BY <1>3, PositionCounts, FS_Subset
<1>6. /\ Lists!Position(a) = Cardinality(Before(a)) /\ Lists!Position(a) \in Nat
      /\ Lists!Position(b) = Cardinality(Before(b)) /\ Lists!Position(b) \in Nat
  BY PositionCounts
<1> QED BY <1>4, <1>5, <1>6

LEMMA PlacesDiffer ==
  ASSUME Lists!TypeOK, NEW a \in shown, NEW b \in shown,
         Lists!Position(a) = Lists!Position(b)
  PROVE  a = b
<1>1. a \in Int /\ b \in Int
  BY ShownIsFinite
<1>2. a = b \/ Lists!Precedes(a, b) \/ Lists!Precedes(b, a)
  BY <1>1 DEF Lists!Precedes
<1>3. Lists!Position(a) \in Nat
  BY PositionCounts
<1>4. ~(Lists!Position(a) < Lists!Position(a))
  BY <1>3
<1> QED BY <1>2, <1>4, PlacesInOrder

LEMMA PlacesAreBounded ==
  ASSUME Lists!TypeOK, NEW row \in shown
  PROVE  Lists!Position(row) \in 0..(Cardinality(shown) - 1)
<1>1. Before(row) \subseteq shown \ {row}
  BY ShownIsFinite DEF Before, Lists!Precedes
<1>2. /\ IsFiniteSet(shown \ {row})
      /\ Cardinality(shown \ {row}) = Cardinality(shown) - 1
  BY ShownIsFinite, FS_RemoveElement
<1>3. Cardinality(Before(row)) <= Cardinality(shown) - 1
  BY <1>1, <1>2, FS_Subset
<1>4. Cardinality(shown) \in Int
  BY ShownIsFinite
<1> QED BY <1>3, <1>4, PositionCounts

(* No place is left out: as many rows, as many places. *)
LEMMA EveryPlaceTaken ==
  ASSUME Lists!TypeOK, NEW k \in 0..(Cardinality(shown) - 1)
  PROVE  \E row \in shown : Lists!Position(row) = k
<1> DEFINE places == 0..(Cardinality(shown) - 1)
           f == [row \in shown |-> Lists!Position(row)]
<1>1. Cardinality(shown) \in Nat /\ Cardinality(shown) > 0
  BY ShownIsFinite
<1>2. IsFiniteSet(places) /\ Cardinality(places) = Cardinality(shown)
  BY <1>1, FS_Interval
<1>3. f \in Injection(shown, places)
  BY PlacesAreBounded, PlacesDiffer DEF Injection, IsInjective
<1>4. f \in Surjection(shown, places)
  BY <1>2, <1>3, FS_Injection
<1> QED BY <1>4 DEF Surjection

(* Where a row is beyond a page, the page is full. *)
LEMMA PageIsFull ==
  ASSUME Lists!TypeOK, NEW page_ \in Nat, NEW size \in Nat \ {0},
         Lists!Offset(page_, size) \in Nat, NEW row \in shown,
         Lists!Position(row) >= Lists!Offset(page_, size) + size
  PROVE  Cardinality(Lists!PageRows(page_, size)) = size
<1> DEFINE offset == Lists!Offset(page_, size)
           rows == Lists!PageRows(page_, size)
           places == offset..(offset + size - 1)
           g == [other \in rows |-> Lists!Position(other)]
<1>1. /\ \A other \in rows : /\ other \in shown
                             /\ Lists!Position(other) >= offset
                             /\ Lists!Position(other) < offset + size
      /\ \A other \in shown : Lists!Position(other) \in places => other \in rows
  BY PositionCounts DEF Lists!PageRows
<1> HIDE DEF offset, rows
<1>2. offset \in Nat
  BY DEF offset
<1>3. /\ Cardinality(shown) \in Nat
      /\ offset + size <= Cardinality(shown) - 1
  <2>1. Lists!Position(row) \in 0..(Cardinality(shown) - 1)
    BY PlacesAreBounded
  <2>2. Cardinality(shown) \in Nat
    BY ShownIsFinite
  <2> QED BY <1>2, <2>1, <2>2 DEF offset
<1>4. g \in Injection(rows, places)
  <2>1. \A other \in rows : Lists!Position(other) \in places
    BY <1>1, <1>2, PositionCounts
  <2> QED BY <1>1, <2>1, PlacesDiffer DEF Injection, IsInjective
<1>5. g \in Surjection(rows, places)
  <2>1. ASSUME NEW k \in places
        PROVE  \E other \in rows : g[other] = k
    <3>1. k \in 0..(Cardinality(shown) - 1)
      BY <1>2, <1>3
    <3>2. PICK other \in shown : Lists!Position(other) = k
      BY <3>1, EveryPlaceTaken
    <3> QED BY <1>1, <3>2
  <2>2. g \in [rows -> places]
    BY <1>4 DEF Injection
  <2> QED BY <2>1, <2>2 DEF Surjection
<1>6. IsFiniteSet(places) /\ Cardinality(places) = size
  <2>1. /\ offset \in Int /\ offset + size - 1 \in Int
        /\ ~(offset > offset + size - 1)
        /\ (offset + size - 1) - offset + 1 = size
    BY <1>2
  <2> QED BY <2>1, FS_Interval
<1> HIDE DEF g, places
<1>7. Cardinality(rows) = Cardinality(places)
  BY <1>4, <1>5, <1>6, FS_Injection
<1> QED BY <1>6, <1>7 DEF rows

LEMMA PositionsCount ==
  Lists!TypeOK => \A x : /\ IsFiniteSet(Before(x))
                         /\ Lists!Position(x) = Cardinality(Before(x))
                         /\ Lists!Position(x) \in Nat
BY PositionCounts

LEMMA ShownCounts ==
  Lists!TypeOK =>
    IsFiniteSet(shown) /\ Cardinality(shown) \in 0..last /\ last \in Nat
BY ShownIsFinite

(* While rows only come, places only move on. *)
LEMMA PlacesMoveOn ==
  ASSUME Lists!TypeOK, Lists!TypeOK', shown \subseteq shown',
         reader'.newest = reader.newest, NEW row
  PROVE  Lists!Position(row) <= Lists!Position(row)'
<1>1. Before(row) \subseteq Before(row)'
  BY DEF Before, Lists!Precedes
<1>2. (\A x : /\ IsFiniteSet(Before(x))
              /\ Lists!Position(x) = Cardinality(Before(x))
              /\ Lists!Position(x) \in Nat)'
  BY PositionsCount, PTL
<1> QED BY <1>1, <1>2, PositionCounts, FS_Subset

-----------------------------------------------------------------------------
LEMMA OffsetFacts ==
  ASSUME NEW p \in Nat \ {0}, NEW size \in Nat \ {0}
  PROVE  /\ Lists!Offset(p, size) \in Nat
         /\ Lists!Offset(p + 1, size) = Lists!Offset(p, size) + size
         /\ Lists!Offset(1, size) = 0
<1>1. PICK k \in Nat : p = k + 1
  <2>1. p - 1 \in Nat /\ p = (p - 1) + 1
    OBVIOUS
  <2> QED BY <2>1
<1>2. Lists!Offset(p, size) = k * size /\ k * size \in Nat
  BY <1>1 DEF Lists!Offset
<1>3. Lists!Offset(p + 1, size) = (k + 1) * size
  BY <1>1 DEF Lists!Offset
<1>4. (k + 1) * size = k * size + size
  OBVIOUS
<1>5. Lists!Offset(1, size) = 0
  BY DEF Lists!Offset
<1> QED BY <1>2, <1>3, <1>4, <1>5

LEMMA NotReadingIsAReader ==
  /\ Lists!NotReading \in Lists!Readers /\ Lists!NotReading.pc = "idle"
  /\ Lists!NotReading.seen = {} /\ Lists!NotReading.start = {}
  /\ Lists!NotReading.total = 0 /\ ~Lists!NotReading.left
BY DEF Lists!NotReading, Lists!Readers

LEMMA ReadingInitHolds == Lists!Init => ReadingInv
<1> SUFFICES ASSUME Lists!Init PROVE ReadingInv
  OBVIOUS
<1>1. last = 0 /\ shown = {} /\ reader = Lists!NotReading /\ MaxRows \in Nat
  BY OfficeAssumption DEF Lists!Init, Lists!PagingAssumption
<1> QED
  BY <1>1, NotReadingIsAReader
  DEF ReadingInv, ReadingOK, Lists!TypeOK, Lists!NothingMissed

(* Every row there is, is on the first page or a later one.                *)
LEMMA StartReadingKeeps ==
  ASSUME ReadingInv, NEW p \in {0, 1}, NEW size \in Sizes, NEW newest \in BOOLEAN,
         Lists!StartReading(p, size, newest)
  PROVE  ReadingInv'
<1> DEFINE size1 == Lists!Normalized(size, 10)
           begun == [Lists!NotReading EXCEPT !.pc = "count",
                       !.page = Lists!Normalized(p, 1), !.size = size1,
                       !.start = shown, !.newest = newest]
<1>1. reader' = begun /\ UNCHANGED <<last, shown>>
  BY DEF Lists!StartReading
<1>2. Lists!Normalized(p, 1) = 1
  BY DEF Lists!Normalized
<1>3. size1 \in Nat \ {0}
  BY OfficeAssumption DEF Lists!Normalized, Lists!PagingAssumption
<1> HIDE DEF size1
<1>4. shown \subseteq 1..last /\ last \in 0..MaxRows /\ shown \in SUBSET Nat
  BY DEF ReadingInv, Lists!TypeOK
<1>5. /\ begun \in Lists!Readers /\ begun.pc = "count" /\ begun.page = 1
      /\ begun.size = size1 /\ begun.start = shown /\ begun.newest = newest
      /\ begun.total = 0 /\ begun.seen = {} /\ ~begun.left
  <2>1. PICK q \in Lists!Readers : /\ q = Lists!NotReading /\ q.seen = {}
                                   /\ q.total = 0 /\ ~q.left
    BY NotReadingIsAReader
  <2>2. PICK n \in Nat : n = size1
    BY <1>3
  <2>3. PICK rows \in SUBSET Nat : rows = shown
    BY <1>4
  <2>4. begun = [q EXCEPT !.pc = "count", !.page = 1, !.size = n,
                   !.start = rows, !.newest = newest]
    BY <1>2, <2>1, <2>2, <2>3
  <2> HIDE DEF begun
  <2>5. /\ begun \in Lists!Readers /\ begun.pc = "count" /\ begun.page = 1
        /\ begun.size = n /\ begun.start = rows /\ begun.newest = newest
        /\ begun.total = q.total /\ begun.seen = q.seen /\ begun.left = q.left
    BY <2>4 DEF Lists!Readers
  <2> QED BY <2>1, <2>2, <2>3, <2>5
<1> HIDE DEF begun
<1>6. Lists!TypeOK'
  BY <1>1, <1>3, <1>4, <1>5, ShownIsFinite DEF ReadingInv, Lists!TypeOK
<1>7. \A row \in shown : Lists!Position(row)' >= Lists!Offset(1, size1)
  <2>1. (\A x : /\ IsFiniteSet(Before(x))
                /\ Lists!Position(x) = Cardinality(Before(x))
                /\ Lists!Position(x) \in Nat)'
    BY <1>6, PositionsCount, PTL
  <2> QED BY <1>3, <2>1, OffsetFacts
<1>8. ReadingOK'
  BY <1>1, <1>5, <1>7 DEF ReadingOK, Lists!Offset
<1> QED BY <1>1, <1>5, <1>6, <1>8 DEF ReadingInv, Lists!NothingMissed

(* What comes into the list hides nothing from its reader. *)
LEMMA RowsComeKeeps ==
  ASSUME ReadingInv, Lists!TypeOK', shown \subseteq shown', reader' = reader
  PROVE  ReadingInv'
<1>1. \A row : /\ Lists!Position(row) <= Lists!Position(row)'
               /\ Lists!Position(row) \in Nat
  BY PlacesMoveOn, PositionCounts DEF ReadingInv
<1>2. (\A x : /\ IsFiniteSet(Before(x))
              /\ Lists!Position(x) = Cardinality(Before(x))
              /\ Lists!Position(x) \in Nat)'
  BY PositionsCount, PTL
<1>3. ReadingOK'
  <2> SUFFICES ASSUME reader.pc \in {"count", "find"}, ~reader.left
               PROVE  /\ reader.start \subseteq shown'
                      /\ \A row \in reader.start :
                           \/ row \in reader.seen
                           \/ Lists!Position(row)'
                                >= Lists!Offset(reader.page, reader.size)
    BY DEF ReadingOK, Lists!Offset
  <2>1. Lists!Offset(reader.page, reader.size) \in Int
    BY DEF ReadingInv, Lists!TypeOK, Lists!Readers, Lists!Offset
  <2> QED BY <1>1, <1>2, <2>1 DEF ReadingInv, ReadingOK
<1>4. reader.pc = "find" /\ ~reader.left => reader.total <= Cardinality(shown')
  <2>1. (IsFiniteSet(shown) /\ Cardinality(shown) \in 0..last /\ last \in Nat)'
    BY ShownCounts, PTL
  <2>2. Cardinality(shown) <= Cardinality(shown')
    BY <2>1, FS_Subset
  <2>3. Cardinality(shown) \in Int /\ reader.total \in Int
    BY ShownIsFinite DEF ReadingInv, Lists!TypeOK, Lists!Readers
  <2> QED BY <2>1, <2>2, <2>3 DEF ReadingInv
<1> QED BY <1>3, <1>4 DEF ReadingInv, Lists!NothingMissed

LEMMA InsertKeepsReading ==
  ASSUME ReadingInv, Lists!Insert
  PROVE  ReadingInv'
<1>1. /\ last < MaxRows /\ last' = last + 1 /\ reader' = reader
      /\ shown' = shown \cup {last + 1} \/ shown' = shown
  BY DEF Lists!Insert
<1>2. last \in 0..MaxRows /\ MaxRows \in Nat /\ shown \subseteq 1..last
  BY ShownIsFinite DEF ReadingInv, Lists!TypeOK
<1>3. /\ last' \in 0..MaxRows /\ shown' \subseteq 1..last'
      /\ 1..last \subseteq 1..last' /\ 0..last \subseteq 0..last'
  <2>1. /\ last' \in 0..MaxRows /\ last + 1 \in 1..last'
        /\ 1..last \subseteq 1..last' /\ 0..last \subseteq 0..last'
    BY <1>1, <1>2
  <2> QED BY <1>1, <1>2, <2>1
<1>4. Lists!TypeOK'
  BY <1>1, <1>3 DEF ReadingInv, Lists!TypeOK
<1> QED BY <1>1, <1>4, RowsComeKeeps

LEMMA EnterKeepsReading ==
  ASSUME ReadingInv, NEW row, Lists!Enter(row)
  PROVE  ReadingInv'
<1>1. Lists!TypeOK'
  BY DEF ReadingInv, Lists!TypeOK, Lists!Enter
<1> QED BY <1>1, RowsComeKeeps DEF Lists!Enter

LEMMA LeaveKeepsReading ==
  ASSUME ReadingInv, NEW row, Lists!Leave(row)
  PROVE  ReadingInv'
<1> DEFINE next == [reader EXCEPT !.left = @ \/ reader.pc \in {"count", "find"}]
<1>1. reader \in Lists!Readers
  BY DEF ReadingInv, Lists!TypeOK
<1>2. reader' = next /\ shown' = shown \ {row} /\ last' = last
  BY DEF Lists!Leave
<1>3. /\ next \in Lists!Readers
      /\ next.pc = reader.pc /\ next.page = reader.page
      /\ next.size = reader.size /\ next.total = reader.total
      /\ next.seen = reader.seen /\ next.start = reader.start
      /\ next.left <=> reader.left \/ reader.pc \in {"count", "find"}
  BY <1>1 DEF Lists!Readers
<1> HIDE DEF next
<1>4. Lists!TypeOK'
  BY <1>2, <1>3 DEF ReadingInv, Lists!TypeOK
<1>5. ReadingOK' /\ Lists!NothingMissed'
  BY <1>2, <1>3 DEF ReadingInv, ReadingOK, Lists!NothingMissed
<1>6. reader'.pc = "find" => reader'.left
  BY <1>2, <1>3
<1> QED BY <1>4, <1>5, <1>6 DEF ReadingInv

(* The count of the rows is no more than there will be when the page is    *)
(* selected, as long as none leaves.                                       *)
LEMMA CountKeepsReading ==
  ASSUME ReadingInv, Lists!Count
  PROVE  ReadingInv'
<1> DEFINE next == [reader EXCEPT !.pc = "find", !.total = Cardinality(shown)]
<1>1. reader \in Lists!Readers /\ reader.pc = "count"
  BY DEF ReadingInv, Lists!TypeOK, Lists!Count
<1>2. reader' = next /\ shown' = shown /\ last' = last
  BY ListsCount DEF Lists!Count
<1>3. Cardinality(shown) \in Nat /\ Cardinality(shown) \in 0..last
  BY ShownIsFinite DEF ReadingInv
<1>4. /\ next \in Lists!Readers
      /\ next.pc = "find" /\ next.page = reader.page
      /\ next.size = reader.size /\ next.total = Cardinality(shown)
      /\ next.seen = reader.seen /\ next.start = reader.start
      /\ next.left = reader.left /\ next.newest = reader.newest
  BY <1>1, <1>3 DEF Lists!Readers
<1> HIDE DEF next
<1>5. Lists!TypeOK'
  BY <1>1, <1>2, <1>3, <1>4 DEF ReadingInv, Lists!TypeOK
<1>6. \A row : Lists!Position(row)' = Lists!Position(row)
  BY <1>2, <1>4 DEF Lists!Position, Lists!Precedes
<1>7. ReadingOK'
  BY <1>1, <1>2, <1>4, <1>6 DEF ReadingInv, ReadingOK, Lists!Offset
<1>8. Lists!NothingMissed'
  BY <1>2, <1>4 DEF Lists!NothingMissed
<1>9. reader'.total <= Cardinality(shown')
  BY <1>2, <1>3, <1>4
<1> QED BY <1>5, <1>7, <1>8, <1>9 DEF ReadingInv

(* A row that is not on the page read is on a later one, and then the page *)
(* is full.                                                                *)
LEMMA FindKeepsReading ==
  ASSUME ReadingInv, Lists!Find
  PROVE  ReadingInv'
<1> DEFINE rows == Lists!PageRows(reader.page, reader.size)
           full == Cardinality(rows) = reader.size
           next == [reader EXCEPT !.seen = @ \cup rows,
                      !.pc = IF full THEN "count" ELSE "ended",
                      !.page = IF full THEN @ + 1 ELSE @]
<1>1. /\ reader \in Lists!Readers /\ reader.pc = "find"
      /\ reader.page \in Nat \ {0} /\ reader.size \in Nat \ {0}
      /\ Lists!TypeOK
  BY DEF ReadingInv, Lists!TypeOK, Lists!Readers, Lists!Find
<1>2. reader' = next /\ shown' = shown /\ last' = last
  BY ListsCount DEF Lists!Find
<1>3. rows \subseteq shown /\ rows \subseteq 1..last /\ rows \subseteq Nat
  <2>1. rows \subseteq shown
    BY DEF Lists!PageRows
  <2>2. shown \subseteq 1..last /\ 1..last \subseteq Nat
    BY <1>1, ShownIsFinite DEF Lists!TypeOK
  <2> QED BY <2>1, <2>2
<1>4. \A row \in shown :
        row \in rows <=>
          /\ Lists!Position(row) >= Lists!Offset(reader.page, reader.size)
          /\ Lists!Position(row) <
               Lists!Offset(reader.page, reader.size) + reader.size
  BY DEF Lists!PageRows
<1>5. ASSUME NEW row \in shown, ~(row \in rows),
             Lists!Position(row) >= Lists!Offset(reader.page, reader.size)
      PROVE  /\ full
             /\ Lists!Position(row) >=
                  Lists!Offset(reader.page + 1, reader.size)
  <2>1. /\ Lists!Offset(reader.page, reader.size) \in Nat
        /\ Lists!Offset(reader.page + 1, reader.size) =
             Lists!Offset(reader.page, reader.size) + reader.size
    BY <1>1, OffsetFacts
  <2>2. Lists!Position(row) \in Nat
    BY <1>1, PositionCounts
  <2>3. Lists!Position(row) >=
          Lists!Offset(reader.page, reader.size) + reader.size
    BY <1>1, <1>4, <1>5, <2>1, <2>2
  <2> QED BY <1>1, <2>1, <2>3, PageIsFull
<1> HIDE DEF rows
<1>6. PICK pc \in {"count", "ended"}, page1 \in Nat \ {0} :
        /\ pc = IF full THEN "count" ELSE "ended"
        /\ page1 = IF full THEN reader.page + 1 ELSE reader.page
        /\ next = [reader EXCEPT !.seen = @ \cup rows, !.pc = pc, !.page = page1]
  <2> HIDE DEF full
  <2>1. reader.page + 1 \in Nat \ {0} /\ reader.page \in Nat \ {0}
    BY <1>1
  <2>2. CASE full
    <3>1. next = [reader EXCEPT !.seen = @ \cup rows, !.pc = "count",
                    !.page = reader.page + 1]
      BY <2>2
    <3> QED BY <2>1, <2>2, <3>1
  <2>3. CASE ~full
    <3>1. next = [reader EXCEPT !.seen = @ \cup rows, !.pc = "ended",
                    !.page = reader.page]
      BY <2>3
    <3> QED BY <2>1, <2>3, <3>1
  <2> QED BY <2>2, <2>3
<1> HIDE DEF full, next
<1>7. /\ next \in Lists!Readers
      /\ next.pc = pc /\ next.page = page1
      /\ next.size = reader.size /\ next.total = reader.total
      /\ next.seen = reader.seen \cup rows /\ next.start = reader.start
      /\ next.left = reader.left /\ next.newest = reader.newest
  BY <1>1, <1>3, <1>6 DEF Lists!Readers
<1>8. Lists!TypeOK'
  <2>1. reader.seen \cup rows \subseteq 1..last
    BY <1>1, <1>3 DEF Lists!TypeOK
  <2>2. page1 > 0 /\ reader.size > 0 /\ reader.start \subseteq 1..last
    BY <1>1, <1>6 DEF Lists!TypeOK
  <2> QED BY <1>1, <1>2, <1>7, <2>1, <2>2 DEF Lists!TypeOK
<1>9. \A row : Lists!Position(row)' = Lists!Position(row)
  BY <1>2, <1>7 DEF Lists!Position, Lists!Precedes
<1>10. reader.start \subseteq shown /\ ~reader.left =>
        \A row \in reader.start :
          \/ row \in reader.seen \cup rows
          \/ /\ full
             /\ Lists!Position(row) >= Lists!Offset(reader.page + 1, reader.size)
  BY <1>1, <1>5 DEF ReadingInv, ReadingOK
<1>11. ~reader.left => reader.start \subseteq shown
  BY <1>1 DEF ReadingInv, ReadingOK
<1>12. ReadingOK'
  <2> SUFFICES ASSUME full, ~reader.left
               PROVE  /\ reader.start \subseteq shown
                      /\ \A row \in reader.start :
                           \/ row \in reader.seen \cup rows
                           \/ Lists!Position(row) >=
                                Lists!Offset(reader.page + 1, reader.size)
    BY <1>2, <1>6, <1>7, <1>9 DEF ReadingOK, Lists!Offset
  <2> QED BY <1>10, <1>11
<1>13. Lists!NothingMissed'
  <2> SUFFICES ASSUME ~full, ~reader.left
               PROVE  reader.start \subseteq reader.seen \cup rows
    BY <1>2, <1>6, <1>7 DEF Lists!NothingMissed
  <2> QED BY <1>10, <1>11
<1>14. reader'.pc # "find"
  BY <1>2, <1>7, <1>6
<1> QED BY <1>8, <1>12, <1>13, <1>14 DEF ReadingInv

LEMMA ReadingKeeps == ReadingInv /\ [Lists!Next]_(Lists!vars) => ReadingInv'
<1> SUFFICES ASSUME ReadingInv, [Lists!Next]_(Lists!vars)
             PROVE  ReadingInv'
  OBVIOUS
<1>1. CASE UNCHANGED Lists!vars
  <2>1. Lists!TypeOK'
    BY <1>1 DEF Lists!vars, ReadingInv, Lists!TypeOK
  <2> QED BY <1>1, <2>1, RowsComeKeeps DEF Lists!vars
<1> QED
  BY <1>1, StartReadingKeeps, CountKeepsReading, FindKeepsReading,
     InsertKeepsReading, EnterKeepsReading, LeaveKeepsReading DEF Lists!Next

LEMMA AlwaysReadingInv == Lists!Spec => []ReadingInv
BY ReadingInitHolds, ReadingKeeps, PTL DEF Lists!Spec

(* As many rows as were counted are there, and one of them begins the page *)
(* (the List methods of the repositories, COUNT before SELECT).            *)
LEMMA PromisedPageHasRows ==
  ASSUME ReadingInv, reader.pc = "find", ~reader.left,
         (reader.page - 1) * reader.size < reader.total
  PROVE  Lists!PageRows(reader.page, reader.size) # {}
<1> DEFINE offset == Lists!Offset(reader.page, reader.size)
<1>1. /\ reader.page \in Nat \ {0} /\ reader.size \in Nat \ {0}
      /\ reader.total \in Nat /\ Lists!TypeOK
  BY DEF ReadingInv, Lists!TypeOK, Lists!Readers
<1>2. offset \in Nat /\ offset < reader.total
  BY <1>1, OffsetFacts DEF Lists!Offset
<1>3. reader.total <= Cardinality(shown) /\ Cardinality(shown) \in Nat
  BY <1>1, ShownIsFinite DEF ReadingInv
<1> HIDE DEF offset
<1>4. offset \in 0..(Cardinality(shown) - 1)
  BY <1>1, <1>2, <1>3
<1>5. PICK row \in shown : Lists!Position(row) = offset
  BY <1>1, <1>4, EveryPlaceTaken
<1>6. Lists!Position(row) < offset + reader.size /\ Lists!Position(row) >= offset
  BY <1>1, <1>2, <1>5
<1> QED BY <1>6 DEF Lists!PageRows, offset

-----------------------------------------------------------------------------
LEMMA PageNumbers ==
  /\ 1 \in Pages /\ MaxAsked \in Nat /\ MaxKey \in Nat \ {0}
BY OfficeAssumption DEF Page!PageAssumption

(* A request under way: of its kind, about a key, numbered before asked. *)
LEMMA RequestFields ==
  ASSUME NetOK, NEW a \in net
  PROVE  /\ a.id \in Nat \ {0} /\ a.id <= asked /\ asked \in Nat
         /\ a.key \in 0..MaxKey /\ a.at \in Page!Selection
<1>1. a \in Page!Requests /\ asked \in Nat /\ a.id <= asked
  BY PageNumbers DEF NetOK
<1>2. a.id \in 1..MaxAsked /\ a.key \in 0..MaxKey /\ a.at \in Page!Selection
  BY <1>1 DEF Page!Requests
<1> QED BY <1>1, <1>2, PageNumbers

LEMMA HereIsASelection ==
  ASSUME ScreenOK
  PROVE  /\ Page!Here \in Page!Selection /\ Page!FirstPage \in Page!Selection
         /\ \A p \in Pages : [Page!Here EXCEPT !.page = p] \in Page!Selection
BY PageNumbers DEF ScreenOK, Page!Here, Page!FirstPage, Page!Selection

(* The next requests sent have numbers of their own. *)
LEMMA SendsKeeps ==
  ASSUME NetOK, NEW requests, NEW n \in {1, 2}, NEW rest \in SUBSET net,
         Page!Sends(requests, n, rest),
         requests \subseteq Page!Requests,
         \A r \in requests : r.id > asked /\ r.id <= asked + n,
         \A r, s \in requests : r.id = s.id => r = s
  PROVE  NetOK'
<1>1. /\ asked' = asked + n /\ net' = rest \cup requests
      /\ asked + n <= MaxAsked
  BY DEF Page!Sends
<1>2. asked' \in 0..MaxAsked /\ asked \in Nat
  BY <1>1, PageNumbers DEF NetOK
<1>3. net' \subseteq Page!Requests
  BY <1>1 DEF NetOK
<1>4. \A r \in requests : r.id \in Nat
  BY DEF Page!Requests
<1>5. \A r \in net' : r.id <= asked'
  BY <1>1, <1>2, <1>4, RequestFields
<1>6. ASSUME NEW r \in net', NEW s \in net', r.id = s.id
      PROVE  r = s
  <2>1. CASE r \in requests /\ s \in requests
    BY <1>6, <2>1
  <2>2. CASE r \in net /\ s \in net
    BY <1>6, <2>2 DEF NetOK
  <2>3. CASE r \in net /\ s \in requests
    BY <1>2, <1>4, <1>6, <2>3, RequestFields
  <2>4. CASE r \in requests /\ s \in net
    BY <1>2, <1>4, <1>6, <2>4, RequestFields
  <2> QED BY <1>1, <2>1, <2>2, <2>3, <2>4
<1> QED BY <1>2, <1>3, <1>5, <1>6 DEF NetOK, Page!Requests, Page!Selection

Kinds == {"list", "submit", "lookup", "get", "decide"}

LEMMA SendOneKeeps ==
  ASSUME NetOK, NEW kind \in Kinds, NEW key \in 0..MaxKey,
         NEW at \in Page!Selection, NEW rest \in SUBSET net,
         Page!Sends({Page!Request(kind, key, at, asked + 1)}, 1, rest)
  PROVE  NetOK'
<1> DEFINE r == Page!Request(kind, key, at, asked + 1)
<1>1. asked + 1 \in 1..MaxAsked /\ asked \in Nat
  BY PageNumbers DEF NetOK, Page!Sends
<1>2. r \in Page!Requests /\ r.id = asked + 1
  BY <1>1 DEF Page!Requests, Page!Request, Kinds
<1>3. r.id > asked /\ r.id <= asked + 1
  BY <1>1, <1>2
<1>4. PICK requests : requests = {r}
  OBVIOUS
<1>5. /\ requests \subseteq Page!Requests
      /\ \A s \in requests : s.id > asked /\ s.id <= asked + 1
      /\ \A s, t \in requests : s.id = t.id => s = t
  BY <1>2, <1>3, <1>4
<1>6. Page!Sends(requests, 1, rest) /\ 1 \in {1, 2}
  BY <1>4
<1> HIDE DEF r
<1> QED BY <1>5, <1>6, SendsKeeps

LEMMA EndsKeeps ==
  ASSUME NetOK, NEW a \in net, Page!Ends(a)
  PROVE  NetOK'
<1>1. net' = net \ {a} /\ asked' = IF net = {a} THEN 0 ELSE asked
  BY DEF Page!Ends
<1>2. asked' \in 0..MaxAsked
  BY <1>1, PageNumbers DEF NetOK
<1>3. \A b \in net' : b.id <= asked'
  BY <1>1 DEF NetOK
<1> QED BY <1>1, <1>2, <1>3 DEF NetOK, Page!Requests, Page!Selection

LEMMA NetSame ==
  ASSUME NetOK, UNCHANGED <<net, asked>>
  PROVE  NetOK'
BY DEF NetOK, Page!Requests, Page!Selection

(* What is still to be answered was expected, or has just become so. *)
LEMMA DisplayKept ==
  ASSUME DisplayOK, expected \subseteq expected',
         \A b \in net' : b \in net \/ b.kind = "list" \/ b.key \in expected',
         \/ result' \in expected'
         \/ result' = result /\ \E b \in net' : b.kind # "list"
         \/ result' = result /\ \A b \in net : b.kind = "list"
  PROVE  DisplayOK'
BY DEF DisplayOK, Page!Handlers

(* A question, sent or answered on the spot, leaves out nothing pending. *)
LEMMA AskingKeeps ==
  ASSUME NEW key, Page!Asks(key),
         \A b \in net' : b \in net \/ b.kind = "list" \/ b.key = key,
         result' = key \/ \E b \in net' : b.kind # "list"
  PROVE  DisplayOK'
<1>1. expected' = {key} \cup {a.key : a \in {b \in net : b.kind # "list"}}
  BY DEF Page!Asks, Page!Handlers
<1>2. \A b \in net' : b.kind # "list" => b.key \in expected'
  BY <1>1
<1>3. (\A b \in net' : b.kind = "list") => result' \in expected'
  BY <1>1
<1> QED BY <1>2, <1>3 DEF DisplayOK, Page!Handlers

(* The queue is left alone; what is sent sees the selection as it is. *)
LEMMA QueueKept ==
  ASSUME QueueOK, UNCHANGED <<page, statusFilter, list, overtaken>>,
         \A b \in net : b.kind = "list" => b \in net',
         \A b \in net' :
           b \in net \/ (b.kind # "list" /\ (~overtaken => b.at = Page!Here))
  PROVE  QueueOK'
<1>1. /\ Page!Here' = Page!Here /\ list' = list /\ overtaken' = overtaken
      /\ \A b : b.kind = "list" => (b \in net' <=> b \in net)
  BY DEF Page!Here
<1>2. SUFFICES ASSUME ~overtaken
               PROVE  /\ \A b \in Page!Reloaders' : b.at = Page!Here
                      /\ \A b \in net' : Newest(b)' => b.at = Page!Here
                      /\ (\A b \in net' : b.kind # "list") => list \subseteq {Page!Here}
  BY <1>1 DEF QueueOK
<1>3. /\ \A b \in Page!Reloaders : b.at = Page!Here
      /\ \A b \in net : Newest(b) => b.at = Page!Here
      /\ (\A b \in net : b.kind # "list") => list \subseteq {Page!Here}
  BY <1>2 DEF QueueOK
<1>4. \A b \in Page!Reloaders' : b.at = Page!Here
  BY <1>2, <1>3 DEF Page!Reloaders
<1>5. ASSUME NEW b \in net', Newest(b)'
      PROVE  b.at = Page!Here
  <2>1. b \in net /\ Newest(b)
    BY <1>1, <1>5 DEF Newest
  <2> QED BY <1>3, <2>1
<1>6. (\A b \in net' : b.kind # "list") => \A b \in net : b.kind # "list"
  BY <1>1
<1> QED BY <1>3, <1>4, <1>5, <1>6

(* The last request for the queue asks for what it is turned to. *)
LEMMA QueueAsked ==
  ASSUME NEW r \in net', r.kind = "list",
         ~overtaken' => r.at = Page!Here',
         ~overtaken' => \A b \in Page!Reloaders' : b.at = Page!Here',
         \A b \in net' : b = r \/ ~(r.id <= b.id)
  PROVE  QueueOK'
<1>1. \A b \in net' : Newest(b)' => b = r
  BY DEF Newest
<1> QED BY <1>1 DEF QueueOK

LEMMA PageInitHolds == Page!Init => PageInv
<1> SUFFICES ASSUME Page!Init PROVE PageInv
  OBVIOUS
<1>1. ScreenOK
  <2>1. /\ caseKey = 1 /\ overtaken = FALSE /\ result = 0 /\ review = 0
        /\ expected = {0} /\ page = 1 /\ statusFilter \in Filters
        /\ list = {[page |-> page, filter |-> statusFilter]}
    BY DEF Page!Init, Page!Here
  <2>2. list \subseteq Page!Selection
    BY <2>1, PageNumbers DEF Page!Selection
  <2>3. {result, review} \cup expected \subseteq 0..MaxKey /\ caseKey \in 1..MaxKey
    BY <2>1, PageNumbers
  <2> QED BY <2>1, <2>2, <2>3, PageNumbers DEF ScreenOK, Page!Keys
<1>2. NetOK
  BY PageNumbers DEF Page!Init, NetOK
<1>3. DisplayOK /\ QueueOK
  BY DEF Page!Init, DisplayOK, QueueOK, Page!Handlers, Page!Reloaders
<1> QED BY <1>1, <1>2, <1>3 DEF PageInv

(* A question sent to the server from where the page is turned to. *)
LEMMA AskedKeeps ==
  ASSUME PageInv, NEW kind \in {"submit", "lookup", "decide"},
         NEW key \in 0..MaxKey, Page!Asks(key),
         Page!Sends({Page!Request(kind, key, Page!Here, asked + 1)}, 1, net),
         UNCHANGED <<caseKey, result, review, Page!queue>>
  PROVE  PageInv'
<1> DEFINE r == Page!Request(kind, key, Page!Here, asked + 1)
<1>1. ScreenOK /\ NetOK /\ QueueOK
  BY DEF PageInv
<1>2. /\ r.kind = kind /\ r.key = key /\ r.at = Page!Here
      /\ net' = net \cup {r} /\ kind # "list" /\ kind \in Kinds
  BY DEF Page!Request, Page!Sends, Kinds
<1>3. ScreenOK'
  <2>1. expected' \subseteq 0..MaxKey
    BY <1>1, RequestFields DEF Page!Asks, Page!Handlers
  <2> QED BY <1>1, <2>1 DEF ScreenOK, Page!queue, Page!Keys, Page!Selection
<1>4. NetOK'
  <2>1. PICK at \in Page!Selection : at = Page!Here
    BY <1>1, HereIsASelection
  <2>2. Page!Sends({Page!Request(kind, key, at, asked + 1)}, 1, net)
    BY <2>1
  <2>3. net \in SUBSET net
    OBVIOUS
  <2> QED BY <1>1, <1>2, <2>2, <2>3, SendOneKeeps
<1>5. DisplayOK'
  BY <1>2, AskingKeeps
<1>6. QueueOK'
  <2>1. UNCHANGED <<page, statusFilter, list, overtaken>>
    BY DEF Page!queue
  <2>2. \A b \in net : b.kind = "list" => b \in net'
    BY <1>2
  <2>3. \A b \in net' :
          b \in net \/ (b.kind # "list" /\ (~overtaken => b.at = Page!Here))
    BY <1>2
  <2> QED BY <1>1, <2>1, <2>2, <2>3, QueueKept
<1> QED BY <1>3, <1>4, <1>5, <1>6 DEF PageInv

LEMMA QuestionsKeep ==
  ASSUME PageInv,
         \/ Page!OnSubmit
         \/ \E key \in Page!Keys : Page!OnLookup(key)
         \/ Page!OnConfirmReview
  PROVE  PageInv'
<1>1. caseKey \in 0..MaxKey /\ review \in 0..MaxKey /\ Page!Keys \subseteq 0..MaxKey
  BY PageNumbers DEF PageInv, ScreenOK, Page!Keys
<1>2. CASE Page!OnSubmit
  <2>1. PICK kind \in {"submit", "lookup", "decide"} : kind = "submit"
    OBVIOUS
  <2>2. Page!Sends({Page!Request(kind, caseKey, Page!Here, asked + 1)}, 1, net)
    BY <1>2, <2>1 DEF Page!OnSubmit
  <2>3. Page!Asks(caseKey) /\ UNCHANGED <<caseKey, result, review, Page!queue>>
    BY <1>2 DEF Page!OnSubmit
  <2>4. PICK key \in 0..MaxKey : key = caseKey
    BY <1>1
  <2> QED BY <2>2, <2>3, <2>4, AskedKeeps
<1>3. ASSUME NEW key \in Page!Keys, Page!OnLookup(key)
      PROVE  PageInv'
  <2>1. PICK kind \in {"submit", "lookup", "decide"} : kind = "lookup"
    OBVIOUS
  <2>2. Page!Sends({Page!Request(kind, key, Page!Here, asked + 1)}, 1, net)
    BY <1>3, <2>1 DEF Page!OnLookup
  <2>3. Page!Asks(key) /\ UNCHANGED <<caseKey, result, review, Page!queue>>
    BY <1>3 DEF Page!OnLookup
  <2> QED BY <1>1, <2>2, <2>3, AskedKeeps
<1>4. CASE Page!OnConfirmReview
  <2>1. PICK kind \in {"submit", "lookup", "decide"} : kind = "decide"
    OBVIOUS
  <2>2. Page!Sends({Page!Request(kind, review, Page!Here, asked + 1)}, 1, net)
    BY <1>4, <2>1 DEF Page!OnConfirmReview
  <2>3. Page!Asks(review) /\ UNCHANGED <<caseKey, result, review, Page!queue>>
    BY <1>4 DEF Page!OnConfirmReview
  <2>4. PICK key \in 0..MaxKey : key = review
    BY <1>1
  <2> QED BY <2>2, <2>3, <2>4, AskedKeeps
<1> QED BY <1>2, <1>3, <1>4

(* Typing and clicks that send nothing. *)
LEMMA ClicksKeep ==
  ASSUME PageInv,
         \/ \E key \in Page!Keys :
              \/ Page!TypeCaseKey(key) \/ Page!StartAnotherCase(key)
              \/ Page!ShowRow(key) \/ Page!OpenReview(key)
         \/ Page!CancelReview
         \/ UNCHANGED Page!vars
  PROVE  PageInv'
<1>1. /\ ScreenOK /\ NetOK /\ DisplayOK /\ QueueOK
      /\ Page!Keys \subseteq 0..MaxKey /\ 0 \in 0..MaxKey
  BY PageNumbers DEF PageInv, Page!Keys
<1>2. UNCHANGED <<net, asked, Page!queue>>
  BY DEF Page!TypeCaseKey, Page!StartAnotherCase, Page!ShowRow,
         Page!OpenReview, Page!CancelReview, Page!vars, Page!queue
<1>3. NetOK' /\ QueueOK'
  <2>1. UNCHANGED <<page, statusFilter, list, overtaken>>
    BY <1>2 DEF Page!queue
  <2>2. net' = net
    BY <1>2
  <2> QED BY <1>1, <1>2, <2>1, <2>2, NetSame, QueueKept
<1>4. \/ UNCHANGED <<result, expected>>
      \/ \E key \in 0..MaxKey : result' = key /\ Page!Asks(key)
  BY <1>1 DEF Page!TypeCaseKey, Page!StartAnotherCase, Page!ShowRow,
              Page!OpenReview, Page!CancelReview, Page!vars
<1>5. DisplayOK'
  <2>1. CASE UNCHANGED <<result, expected>>
    BY <1>1, <1>2, <2>1 DEF DisplayOK, Page!Handlers
  <2>2. ASSUME NEW key \in 0..MaxKey, result' = key, Page!Asks(key)
        PROVE  DisplayOK'
    BY <1>2, <2>2, AskingKeeps
  <2> QED BY <1>4, <2>1, <2>2
<1>6. ScreenOK'
  <2>1. result' \in 0..MaxKey /\ expected' \subseteq 0..MaxKey
    BY <1>1, <1>4, RequestFields DEF ScreenOK, Page!Asks, Page!Handlers
  <2>2. caseKey' \in Page!Keys /\ review' \in 0..MaxKey
    BY <1>1 DEF ScreenOK, Page!TypeCaseKey, Page!StartAnotherCase,
                Page!ShowRow, Page!OpenReview, Page!CancelReview, Page!vars
  <2> QED BY <1>1, <1>2, <2>1, <2>2
          DEF ScreenOK, Page!queue, Page!Keys, Page!Selection
<1> QED BY <1>3, <1>5, <1>6 DEF PageInv

(* An answer about a conclusion, after which no request is sent. *)
LEMMA LookupsAndFailuresKeep ==
  ASSUME PageInv, NEW a \in net, Page!LookupAnswered(a) \/ Page!RequestFails(a)
  PROVE  PageInv'
<1>1. /\ ScreenOK /\ NetOK /\ DisplayOK /\ QueueOK
      /\ a.key \in 0..MaxKey /\ a.kind # "list"
  BY RequestFields DEF PageInv, Page!LookupAnswered, Page!RequestFails
<1>2. Page!Ends(a) /\ UNCHANGED <<caseKey, review, Page!queue>>
  BY DEF Page!LookupAnswered, Page!RequestFails
<1>3. net' = net \ {a}
  BY <1>2 DEF Page!Ends
<1>4. \/ result' = a.key /\ expected' = expected
      \/ result' = result /\ expected' = expected \cup {result}
  BY DEF Page!LookupAnswered, Page!RequestFails, Page!Reports
<1>5. a.key \in expected
  BY <1>1 DEF DisplayOK, Page!Handlers
<1>6. ScreenOK'
  BY <1>1, <1>2, <1>4 DEF ScreenOK, Page!queue, Page!Keys, Page!Selection
<1>7. NetOK'
  BY <1>1, <1>2, EndsKeeps
<1>8. DisplayOK'
  BY <1>1, <1>3, <1>4, <1>5, DisplayKept
<1>9. QueueOK'
  <2>1. UNCHANGED <<page, statusFilter, list, overtaken>>
    BY <1>2 DEF Page!queue
  <2>2. \A b \in net : b.kind = "list" => b \in net'
    BY <1>1, <1>3
  <2>3. \A b \in net' :
          b \in net \/ (b.kind # "list" /\ (~overtaken => b.at = Page!Here))
    BY <1>3
  <2> QED BY <1>1, <2>1, <2>2, <2>3, QueueKept
<1> QED BY <1>6, <1>7, <1>8, <1>9 DEF PageInv

LEMMA DecisionAnsweredKeeps ==
  ASSUME PageInv, NEW a \in net, Page!DecisionAnswered(a)
  PROVE  PageInv'
<1> DEFINE r == Page!Request("get", a.key, a.at, asked + 1)
<1>1. /\ ScreenOK /\ NetOK /\ DisplayOK /\ QueueOK
      /\ a.key \in 0..MaxKey /\ a.at \in Page!Selection /\ a.kind = "decide"
  BY RequestFields DEF PageInv, Page!DecisionAnswered
<1>2. /\ review' = 0 /\ Page!Sends({r}, 1, net \ {a})
      /\ UNCHANGED <<caseKey, result, expected, Page!queue>>
  BY DEF Page!DecisionAnswered
<1>3. net' = (net \ {a}) \cup {r} /\ r.kind = "get" /\ r.key = a.key /\ r.at = a.at
  BY <1>2 DEF Page!Sends, Page!Request
<1>4. a.key \in expected /\ (~overtaken => a.at = Page!Here)
  BY <1>1 DEF DisplayOK, QueueOK, Page!Handlers, Page!Reloaders
<1>5. ScreenOK'
  BY <1>1, <1>2, PageNumbers
  DEF ScreenOK, Page!queue, Page!Keys, Page!Selection
<1>6. NetOK'
  <2>1. "get" \in Kinds /\ net \ {a} \in SUBSET net
    BY DEF Kinds
  <2> QED BY <1>1, <1>2, <2>1, SendOneKeeps
<1>7. DisplayOK'
  BY <1>1, <1>2, <1>3, <1>4, DisplayKept
<1>8. QueueOK'
  <2>1. UNCHANGED <<page, statusFilter, list, overtaken>>
    BY <1>2 DEF Page!queue
  <2>2. \A b \in net : b.kind = "list" => b \in net'
    BY <1>1, <1>3
  <2>3. \A b \in net' :
          b \in net \/ (b.kind # "list" /\ (~overtaken => b.at = Page!Here))
    BY <1>3, <1>4
  <2> QED BY <1>1, <2>1, <2>2, <2>3, QueueKept
<1> QED BY <1>5, <1>6, <1>7, <1>8 DEF PageInv

(* The handler that ends asks for the queue where it was set off. *)
LEMMA RefreshEndsKeeps ==
  ASSUME PageInv, NEW a \in net, Page!RefreshEnds(a)
  PROVE  PageInv'
<1> DEFINE r == Page!Request("list", 0, a.at, asked + 1)
<1>1. /\ ScreenOK /\ NetOK /\ DisplayOK /\ QueueOK
      /\ a.key \in 0..MaxKey /\ a.at \in Page!Selection /\ a.kind = "get"
      /\ 0 \in 0..MaxKey
  BY RequestFields, PageNumbers DEF PageInv, Page!RefreshEnds
<1>2. /\ Page!Sends({r}, 1, net \ {a})
      /\ UNCHANGED <<caseKey, review, Page!queue>>
      /\ \/ result' = a.key /\ expected' = expected
         \/ result' = result /\ expected' = expected \cup {result}
  BY DEF Page!RefreshEnds, Page!ListOf, Page!Reports
<1>3. /\ net' = (net \ {a}) \cup {r}
      /\ r.kind = "list" /\ r.at = a.at /\ r.id = asked + 1
  BY <1>2 DEF Page!Sends, Page!Request
<1>4. a.key \in expected /\ (~overtaken => a.at = Page!Here)
  BY <1>1 DEF DisplayOK, QueueOK, Page!Handlers, Page!Reloaders
<1>5. ScreenOK'
  BY <1>1, <1>2 DEF ScreenOK, Page!queue, Page!Keys, Page!Selection
<1>6. NetOK'
  <2>1. "list" \in Kinds /\ net \ {a} \in SUBSET net
    BY DEF Kinds
  <2> QED BY <1>1, <1>2, <2>1, SendOneKeeps
<1>7. DisplayOK'
  BY <1>1, <1>2, <1>3, <1>4, DisplayKept
<1>8. QueueOK'
  <2>1. /\ overtaken' = overtaken /\ Page!Here' = Page!Here
        /\ ~overtaken' => r.at = Page!Here'
    BY <1>2, <1>3, <1>4 DEF Page!queue, Page!Here
  <2>2. ~overtaken' => \A b \in Page!Reloaders' : b.at = Page!Here'
    BY <1>1, <1>3, <2>1 DEF QueueOK, Page!Reloaders
  <2>3. \A b \in net' : b = r \/ ~(r.id <= b.id)
    BY <1>1, <1>3, RequestFields
  <2> QED BY <1>3, <2>1, <2>2, <2>3, QueueAsked
<1> QED BY <1>5, <1>6, <1>7, <1>8 DEF PageInv

(* On the first page the handler's request is the last one, else the       *)
(* effect's is, which sees the page turned.                                *)
LEMMA SubmitAnsweredKeeps ==
  ASSUME PageInv, NEW a \in net, Page!SubmitAnswered(a)
  PROVE  PageInv'
<1> DEFINE r == Page!Request("list", 0, a.at, asked + 1)
           s == Page!Request("list", 0, Page!FirstPage, asked + 2)
<1>1. /\ ScreenOK /\ NetOK /\ DisplayOK /\ QueueOK
      /\ a.key \in 0..MaxKey /\ a.at \in Page!Selection /\ a.kind = "submit"
      /\ 0 \in 0..MaxKey /\ Page!FirstPage \in Page!Selection /\ asked \in Nat
  BY RequestFields, HereIsASelection, PageNumbers
  DEF PageInv, Page!SubmitAnswered
<1>2. /\ result' = a.key /\ page' = 1
      /\ overtaken' = (\/ overtaken
                       \/ \E b \in Page!Reloaders \ {a} : b.at # Page!FirstPage)
      /\ UNCHANGED <<caseKey, statusFilter, list, review, expected>>
  BY DEF Page!SubmitAnswered
<1>3. \/ page = 1 /\ Page!Sends({r}, 1, net \ {a})
      \/ page # 1 /\ Page!Sends({r, s}, 2, net \ {a})
  BY DEF Page!SubmitAnswered, Page!QueueReloads, Page!ListOf
<1>4. /\ r.kind = "list" /\ r.at = a.at /\ r.id = asked + 1
      /\ s.kind = "list" /\ s.at = Page!FirstPage /\ s.id = asked + 2
  BY DEF Page!Request
<1>5. a.key \in expected /\ (~overtaken => a.at = Page!Here)
  BY <1>1 DEF DisplayOK, QueueOK, Page!Handlers, Page!Reloaders
<1>6. /\ Page!Here' = Page!FirstPage
      /\ page = 1 => Page!Here = Page!FirstPage
  BY <1>2 DEF Page!Here, Page!FirstPage
<1>7. ScreenOK'
  <2>1. overtaken' \in BOOLEAN
    BY <1>2
  <2> QED BY <1>1, <1>2, <2>1, PageNumbers
          DEF ScreenOK, Page!Keys, Page!Selection
<1>8. \A b \in net : b.id # asked + 1 /\ ~(asked + 1 <= b.id) /\ ~(asked + 2 <= b.id)
  BY <1>1, RequestFields
<1>9. ~overtaken' => \A b \in Page!Reloaders \ {a} : b.at = Page!Here'
  BY <1>2, <1>6
<1>10. CASE page = 1
  <2>1. Page!Sends({r}, 1, net \ {a}) /\ net' = (net \ {a}) \cup {r}
    BY <1>3, <1>10 DEF Page!Sends
  <2>2. NetOK'
    <3>1. "list" \in Kinds /\ net \ {a} \in SUBSET net
      BY DEF Kinds
    <3> QED BY <1>1, <2>1, <3>1, SendOneKeeps
  <2>3. DisplayOK'
    BY <1>1, <1>2, <1>4, <1>5, <2>1, DisplayKept
  <2>4. QueueOK'
    <3>1. ~overtaken' => r.at = Page!Here'
      BY <1>2, <1>4, <1>5, <1>6, <1>10
    <3>2. ~overtaken' => \A b \in Page!Reloaders' : b.at = Page!Here'
      BY <1>4, <1>9, <2>1 DEF Page!Reloaders
    <3>3. r \in net' /\ \A b \in net' : b = r \/ ~(r.id <= b.id)
      BY <1>4, <1>8, <2>1
    <3> QED BY <1>4, <3>1, <3>2, <3>3, QueueAsked
  <2> QED BY <1>7, <2>2, <2>3, <2>4 DEF PageInv
<1>11. CASE page # 1
  <2>1. Page!Sends({r, s}, 2, net \ {a}) /\ net' = (net \ {a}) \cup {r, s}
    BY <1>3, <1>11 DEF Page!Sends
  <2>2. NetOK'
    <3>1. asked + 1 \in 1..MaxAsked /\ asked + 2 \in 1..MaxAsked
      BY <1>1, <2>1, PageNumbers DEF Page!Sends
    <3>2. {r, s} \subseteq Page!Requests
      BY <1>1, <3>1 DEF Page!Requests, Page!Request
    <3>3. \A x \in {r, s} : x.id > asked /\ x.id <= asked + 2
      BY <1>1, <1>4
    <3>4. \A x, y \in {r, s} : x.id = y.id => x = y
      BY <1>1, <1>4
    <3>5. PICK requests : requests = {r, s}
      OBVIOUS
    <3>6. /\ requests \subseteq Page!Requests
          /\ \A x \in requests : x.id > asked /\ x.id <= asked + 2
          /\ \A x, y \in requests : x.id = y.id => x = y
      BY <3>2, <3>3, <3>4, <3>5
    <3>7. PICK rest \in SUBSET net : rest = net \ {a}
      OBVIOUS
    <3>8. Page!Sends(requests, 2, rest) /\ 2 \in {1, 2}
      BY <2>1, <3>5, <3>7
    <3> QED BY <1>1, <3>6, <3>8, SendsKeeps
  <2>3. DisplayOK'
    BY <1>1, <1>2, <1>4, <1>5, <2>1, DisplayKept
  <2>4. QueueOK'
    <3>1. s.at = Page!Here'
      BY <1>4, <1>6
    <3>2. ~overtaken' => \A b \in Page!Reloaders' : b.at = Page!Here'
      BY <1>4, <1>9, <2>1 DEF Page!Reloaders
    <3>3. s \in net' /\ \A b \in net' : b = s \/ ~(s.id <= b.id)
      BY <1>1, <1>4, <1>8, <2>1
    <3> QED BY <1>4, <3>1, <3>2, <3>3, QueueAsked
  <2> QED BY <1>7, <2>2, <2>3, <2>4 DEF PageInv
<1> QED BY <1>10, <1>11

(* Where the queue is turned to is asked for last. *)
LEMMA TurnKeeps ==
  ASSUME PageInv, NEW at \in Page!Selection, Page!Turn(at)
  PROVE  PageInv'
<1> DEFINE r == Page!Request("list", 0, at, asked + 1)
<1>1. /\ ScreenOK /\ NetOK /\ DisplayOK /\ QueueOK /\ 0 \in 0..MaxKey
      /\ at.page \in Pages /\ at.filter \in Filters
      /\ at = [page |-> at.page, filter |-> at.filter]
  BY PageNumbers DEF PageInv, Page!Selection
<1>2. /\ page' = at.page /\ statusFilter' = at.filter
      /\ overtaken' = (\E b \in Page!Reloaders : b.at # at)
      /\ Page!Sends({r}, 1, net)
      /\ UNCHANGED <<caseKey, result, list, review, expected>>
  BY DEF Page!Turn, Page!ListOf
<1>3. /\ net' = net \cup {r}
      /\ r.kind = "list" /\ r.at = at /\ r.id = asked + 1
  BY <1>2 DEF Page!Sends, Page!Request
<1>4. Page!Here' = at
  BY <1>1, <1>2 DEF Page!Here
<1>5. ScreenOK'
  <2>1. overtaken' \in BOOLEAN
    BY <1>2
  <2> QED BY <1>1, <1>2, <2>1 DEF ScreenOK, Page!Keys, Page!Selection
<1>6. NetOK'
  <2>1. "list" \in Kinds /\ net \in SUBSET net
    BY DEF Kinds
  <2> QED BY <1>1, <1>2, <2>1, SendOneKeeps
<1>7. DisplayOK'
  BY <1>1, <1>2, <1>3 DEF DisplayOK, Page!Handlers
<1>8. QueueOK'
  <2>1. ~overtaken' => \A b \in Page!Reloaders' : b.at = Page!Here'
    BY <1>2, <1>3, <1>4 DEF Page!Reloaders
  <2>2. r \in net' /\ \A b \in net' : b = r \/ ~(r.id <= b.id)
    BY <1>1, <1>3, RequestFields
  <2> QED BY <1>3, <1>4, <2>1, <2>2, QueueAsked
<1> QED BY <1>5, <1>6, <1>7, <1>8 DEF PageInv

LEMMA TurnsKeep ==
  ASSUME PageInv,
         \/ \E p \in Pages : Page!TurnPage(p)
         \/ \E f \in Filters : Page!TurnFilter(f)
  PROVE  PageInv'
<1>1. ASSUME NEW p \in Pages, Page!TurnPage(p)
      PROVE  PageInv'
  <2>1. PICK at \in Page!Selection : at = [Page!Here EXCEPT !.page = p]
    BY HereIsASelection DEF PageInv
  <2> QED BY <1>1, <2>1, TurnKeeps DEF Page!TurnPage
<1>2. ASSUME NEW f \in Filters, Page!TurnFilter(f)
      PROVE  PageInv'
  <2>1. PICK at \in Page!Selection : at = [page |-> 1, filter |-> f]
    BY PageNumbers DEF Page!Selection
  <2> QED BY <1>2, <2>1, TurnKeeps DEF Page!TurnFilter
<1> QED BY <1>1, <1>2

(* While no earlier request is pending, the one that ends is the newest,   *)
(* or the newest is still to be answered.                                  *)
LEMMA ListEndsKeeps ==
  ASSUME PageInv, NEW a \in net, Page!ListAnswered(a) \/ Page!ListFails(a)
  PROVE  PageInv'
<1>1. /\ ScreenOK /\ NetOK /\ DisplayOK /\ QueueOK /\ a.at \in Page!Selection
  BY RequestFields DEF PageInv
<1>2. /\ a.kind = "list" /\ Page!Ends(a) /\ (list' = {a.at} \/ list' = {})
      /\ overtaken' = (overtaken \/ Page!Overtakes(a))
      /\ UNCHANGED <<caseKey, result, page, statusFilter, review, expected>>
  BY DEF Page!ListAnswered, Page!ListFails
<1>3. net' = net \ {a} /\ Page!Here' = Page!Here
  BY <1>2 DEF Page!Ends, Page!Here
<1>4. ScreenOK'
  <2>1. overtaken' \in BOOLEAN /\ list' \subseteq Page!Selection
    BY <1>1, <1>2
  <2> QED BY <1>1, <1>2, <2>1 DEF ScreenOK, Page!Keys, Page!Selection
<1>5. NetOK'
  BY <1>1, <1>2, EndsKeeps
<1>6. DisplayOK'
  BY <1>1, <1>2, <1>3 DEF DisplayOK, Page!Handlers
<1>7. QueueOK'
  <2>1. SUFFICES ASSUME ~overtaken'
                 PROVE  /\ \A b \in Page!Reloaders' : b.at = Page!Here
                        /\ \A b \in net' : Newest(b)' => b.at = Page!Here
                        /\ (\A b \in net' : b.kind # "list")
                             => list' \subseteq {Page!Here}
    BY <1>3 DEF QueueOK
  <2>2. ~overtaken /\ \A b \in net : b.kind = "list" => ~(b.id < a.id)
    BY <1>2, <2>1 DEF Page!Overtakes
  <2>3. /\ \A b \in Page!Reloaders : b.at = Page!Here
        /\ \A b \in net : Newest(b) => b.at = Page!Here
    BY <1>1, <2>2 DEF QueueOK
  <2>4. \A b \in Page!Reloaders' : b.at = Page!Here
    BY <1>3, <2>3 DEF Page!Reloaders
  <2>5. ASSUME NEW b \in net', Newest(b)'
        PROVE  b.at = Page!Here
    <3>1. b \in net /\ b.kind = "list" /\ a.id <= b.id
      BY <1>1, <1>3, <2>2, <2>5, RequestFields DEF Newest
    <3>2. Newest(b)
      BY <1>3, <2>5, <3>1 DEF Newest
    <3> QED BY <2>3, <3>1, <3>2
  <2>6. ASSUME \A b \in net' : b.kind # "list"
        PROVE  list' \subseteq {Page!Here}
    <3>1. a.id \in Nat
      BY <1>1, RequestFields
    <3>2. Newest(a)
      BY <1>2, <1>3, <2>6, <3>1 DEF Newest
    <3> QED BY <1>2, <2>3, <3>2
  <2> QED BY <2>4, <2>5, <2>6
<1> QED BY <1>4, <1>5, <1>6, <1>7 DEF PageInv

LEMMA PageKeeps == PageInv /\ [Page!Next]_(Page!vars) => PageInv'
<1> SUFFICES ASSUME PageInv, [Page!Next]_(Page!vars)
             PROVE  PageInv'
  OBVIOUS
<1>1. \/ Page!OnSubmit
      \/ \E key \in Page!Keys : Page!OnLookup(key)
      \/ Page!OnConfirmReview
      \/ \E key \in Page!Keys :
           \/ Page!TypeCaseKey(key) \/ Page!StartAnotherCase(key)
           \/ Page!ShowRow(key) \/ Page!OpenReview(key)
      \/ Page!CancelReview \/ UNCHANGED Page!vars
      \/ \E p \in Pages : Page!TurnPage(p)
      \/ \E f \in Filters : Page!TurnFilter(f)
      \/ \E a \in net : Page!SubmitAnswered(a)
      \/ \E a \in net : Page!LookupAnswered(a) \/ Page!RequestFails(a)
      \/ \E a \in net : Page!ListAnswered(a) \/ Page!ListFails(a)
      \/ \E a \in net : Page!DecisionAnswered(a)
      \/ \E a \in net : Page!RefreshEnds(a)
  BY DEF Page!Next
<1> QED
  BY <1>1, QuestionsKeep, ClicksKeep, TurnsKeep, SubmitAnsweredKeeps,
     LookupsAndFailuresKeep, ListEndsKeeps, DecisionAnsweredKeeps,
     RefreshEndsKeeps

LEMMA AlwaysPageInv == Page!Spec => []PageInv
BY PageInitHolds, PageKeeps, PTL DEF Page!Spec

LEMMA PageIsTyped == PageInv => Page!TypeOK
BY HereIsASelection DEF PageInv, ScreenOK, NetOK, Page!TypeOK

-----------------------------------------------------------------------------
(***************************************************************************)
(* A behaviour of the office is, of each part, one of its own.             *)
(***************************************************************************)
LEMMA BillsInTheOffice == OfficeSpec => Spec
<1>1. OfficeInit => Init
  BY DEF OfficeInit
<1>2. [OfficeNext]_OfficeVars => [Next]_vars
  BY DEF OfficeNext, OfficeVars, BillStep, AccountStep, DocumentStep, ListStep,
         RateStep, PageStep
<1> QED BY <1>1, <1>2, PTL DEF OfficeSpec, Spec

LEMMA AccountsInTheOffice == OfficeSpec => Acc!Spec
<1>1. OfficeInit => Acc!Init
  BY DEF OfficeInit
<1>2. [OfficeNext]_OfficeVars => [Acc!Next]_(Acc!vars)
  <2>1. UNCHANGED accVars => UNCHANGED Acc!vars
    BY DEF accVars, Acc!vars
  <2> QED
    BY <2>1 DEF OfficeNext, OfficeVars, BillStep, AccountStep, DocumentStep,
                ListStep, RateStep, PageStep
<1> QED BY <1>1, <1>2, PTL DEF OfficeSpec, Acc!Spec

LEMMA DocumentsInTheOffice == OfficeSpec => Doc!Spec
<1>1. OfficeInit => Doc!Init
  BY DEF OfficeInit
<1>2. [OfficeNext]_OfficeVars => [Doc!Next]_(Doc!vars)
  <2>1. UNCHANGED docVars => UNCHANGED Doc!vars
    BY DEF docVars, Doc!vars
  <2> QED
    BY <2>1 DEF OfficeNext, OfficeVars, BillStep, AccountStep, DocumentStep,
                ListStep, RateStep, PageStep
<1> QED BY <1>1, <1>2, PTL DEF OfficeSpec, Doc!Spec

LEMMA ListsInTheOffice == OfficeSpec => Lists!Spec
<1>1. OfficeInit => Lists!Init
  BY DEF OfficeInit
<1>2. [OfficeNext]_OfficeVars => [Lists!Next]_(Lists!vars)
  <2>1. UNCHANGED listVars => UNCHANGED Lists!vars
    BY DEF listVars, Lists!vars
  <2> QED
    BY <2>1 DEF OfficeNext, OfficeVars, BillStep, AccountStep, DocumentStep,
                ListStep, RateStep, PageStep
<1> QED BY <1>1, <1>2, PTL DEF OfficeSpec, Lists!Spec

LEMMA LimiterInTheOffice == OfficeSpec => Rate!Spec
<1>1. OfficeInit => Rate!Init
  BY DEF OfficeInit
<1>2. [OfficeNext]_OfficeVars => [Rate!Next]_(Rate!vars)
  <2>1. UNCHANGED rateVars => UNCHANGED Rate!vars
    BY DEF rateVars, Rate!vars
  <2> QED
    BY <2>1 DEF OfficeNext, OfficeVars, BillStep, AccountStep, DocumentStep,
                ListStep, RateStep, PageStep
<1> QED BY <1>1, <1>2, PTL DEF OfficeSpec, Rate!Spec

LEMMA PageInTheOffice == OfficeSpec => Page!Spec
<1>1. OfficeInit => Page!Init
  BY DEF OfficeInit
<1>2. [OfficeNext]_OfficeVars => [Page!Next]_(Page!vars)
  <2>1. UNCHANGED pageVars => UNCHANGED Page!vars
    BY DEF pageVars, Page!vars
  <2> QED
    BY <2>1 DEF OfficeNext, OfficeVars, BillStep, AccountStep, DocumentStep,
                ListStep, RateStep, PageStep
<1> QED BY <1>1, <1>2, PTL DEF OfficeSpec, Page!Spec

-----------------------------------------------------------------------------
(* All parts have their types: bills, accounts, documents, lists, buckets  *)
(* and what the page shows (the packages model, service and middleware,    *)
(* ConflictChecks.tsx).                                                    *)
THEOREM OfficeIsTyped == OfficeSpec => []OfficeTypeOK
<1>1. TypeOK /\ AccountsInv /\ DocumentsInv /\ ReadingInv /\ LimiterInv /\ PageInv
        => OfficeTypeOK
  BY PageIsTyped
  DEF AccountsInv, DocumentsInv, ReadingInv, LimiterInv, OfficeTypeOK
<1> QED
  BY <1>1, BillsInTheOffice, TypeCorrect, AccountsInTheOffice, AlwaysAccountsInv,
     DocumentsInTheOffice, AlwaysDocumentsInv, ListsInTheOffice, AlwaysReadingInv,
     LimiterInTheOffice, AlwaysLimiterInv, PageInTheOffice, AlwaysPageInv, PTL

(* A registration that was answered stays the only one of its name, with   *)
(* its password and its role, whatever is saved over it from a row read    *)
(* earlier (user_service.go, Register and UpdateProfile).                  *)
THEOREM RegistrationsStand == OfficeSpec => []RegistrationStands
<1>1. AccountsInv => RegistrationStands
  BY DEF AccountsInv, RegistrationStands
<1> QED BY <1>1, AccountsInTheOffice, AlwaysAccountsInv, PTL

(* No token outlives the role it was issued with (jwt.go, auth.go).        *)
THEOREM RolesOfTokensHold == OfficeSpec => []TokensCarryTheRole
<1>1. AccountsInv => TokensCarryTheRole
  BY DEF AccountsInv, TokensCarryTheRole
<1> QED BY <1>1, AccountsInTheOffice, AlwaysAccountsInv, PTL

(* Each row of the audit log stands for one act, no act has two, and the   *)
(* row names whose act it was (audit_log.go, and user_service.go for who   *)
(* is asked).                                                              *)
THEOREM AuditIsTrue == OfficeSpec => []AuditTellsWhatHappened
<1>1. AccountsInv => AuditTellsWhatHappened
  BY DEF AccountsInv, AuditTellsWhatHappened
<1> QED BY <1>1, AccountsInTheOffice, AlwaysAccountsInv, PTL

(* The address of a document has the whole file it was uploaded as         *)
(* (file_upload.go, SaveUploadedFile; document_service.go, Create).        *)
THEOREM FilesStayWhole == OfficeSpec => []DocumentsHaveTheirFiles
<1>1. DocumentsInv => DocumentsHaveTheirFiles
  BY DocumentsHaveFiles DEF DocumentsHaveTheirFiles
<1> QED BY <1>1, DocumentsInTheOffice, AlwaysDocumentsInv, PTL

(* Who reads on until a page is not full has seen every row of the start,  *)
(* as long as none left the list (the List methods of the repositories).   *)
THEOREM ReadersMissNothing == OfficeSpec => []NothingMissed
<1>1. ReadingInv => NothingMissed
  BY DEF ReadingInv, NothingMissed
<1> QED BY <1>1, ListsInTheOffice, AlwaysReadingInv, PTL

(* The page that a total promises is not empty, though it is selected      *)
(* after the total was counted (the List methods).                         *)
THEOREM PromisesOfTotalsHold == OfficeSpec => PromisedPagesHaveRows
<1>1. ReadingInv =>
        (reader.pc = "find" /\ reader'.pc # "find" /\ ~reader.left
         /\ (reader.page - 1) * reader.size < reader.total
         => Lists!PageRows(reader.page, reader.size) # {})
  BY PromisedPageHasRows
<1> QED
  BY <1>1, ListsInTheOffice, AlwaysReadingInv, PTL
  DEF PromisedPagesHaveRows, Lists!PromisedPagesHaveRows

(* No address gets more than perMin requests through within one minute,    *)
(* whenever the minute begins (rate_limiter.go, Limit).                    *)
THEOREM MinutesAreRationed == OfficeSpec => []NoMoreThanPerMin
<1>1. LimiterInv => NoMoreThanPerMin
  BY NoMinuteGetsMore DEF NoMoreThanPerMin
<1> QED BY <1>1, LimiterInTheOffice, AlwaysLimiterInv, PTL

(* Who is refused has had the whole rate since its last quiet minute       *)
(* (rate_limiter.go, Limit).                                               *)
THEOREM RefusalsAreEarned == OfficeSpec => []RefusedOnceSpent
<1>1. LimiterInv => RefusedOnceSpent
  BY DEF LimiterInv, RefusedOnceSpent
<1> QED BY <1>1, LimiterInTheOffice, AlwaysLimiterInv, PTL

(* Whatever is typed, asked and answered in whatever order, the conclusion *)
(* on display is in the end the one last asked for, one that was pending   *)
(* then or one an error left there (ConflictChecks.tsx, onSubmit,          *)
(* onLookup, startAnotherCase and onConfirmReview).                        *)
THEOREM DisplaysWhatIsExpected == OfficeSpec => []DisplayIsExpected
<1>1. PageInv => DisplayIsExpected
  BY DEF PageInv, DisplayOK, DisplayIsExpected, Page!DisplayIsExpected
<1> QED BY <1>1, PageInTheOffice, AlwaysPageInv, PTL

(* While answers come in order, the queue ends up showing what it is       *)
(* turned to, however many requests a submission and its effect send       *)
(* (ConflictChecks.tsx, onSubmit, fetchList and the effect).               *)
THEOREM QueueFollows == OfficeSpec => []QueueFollowsInOrder
<1>1. PageInv => QueueFollowsInOrder
  BY DEF PageInv, QueueOK, QueueFollowsInOrder, Page!QueueFollowsInOrder
<1> QED BY <1>1, PageInTheOffice, AlwaysPageInv, PTL
=============================================================================
