------------------------------- MODULE Billing ------------------------------
(***************************************************************************)
(* Bills, statement by statement, several requests at a time.              *)
(*                                                                         *)
(* The three marks of a bill (paid, invoiced, void) read the row, look at  *)
(* its status and save the whole row, with no transaction and no lock.     *)
(* The monthly summary is three queries at three moments.  A sum is stood  *)
(* for by the set of bills it adds up: amounts never change (BillPromise). *)
(* Invoice texts are left out.  The database is PostgreSQL at READ         *)
(* COMMITTED: a statement is atomic and reads committed rows.              *)
(***************************************************************************)
EXTENDS Naturals

CONSTANTS Bills,       \* rows the table may get
          Terms,       \* case, client, type and amount of a bill
          Acceptable,  \* terms Create accepts: a known type, a case and a
                       \* client that exist, an amount not below zero
          Slots,       \* requests that can be in flight at once
          Nothing,     \* no bill
          MaxMonth     \* bound: months that go by

ASSUME BillingAssumption ==
  /\ Acceptable \subseteq Terms
  /\ Nothing \notin Bills
  /\ "none" \notin Terms
  /\ MaxMonth \in Nat \ {0}

VARIABLES bills,    \* Bills -> row of billings
          month,    \* the month on the server's clock
          req,      \* Slots -> the request a slot is busy with
          settled   \* history: bills saved as paid at some time

vars == <<bills, month, req, settled>>

(* BillingStatusValues of constants/billing.go. *)
Statuses == {"pending", "paid", "invoiced", "void"}

NoBill == [status |-> "absent", terms |-> "none", month |-> 0]

Bill == [status : Statuses, terms : Terms, month : 1..MaxMonth] \cup {NoBill}

(***************************************************************************)
(* pc: the next statement of a request.                                    *)
(*   lookup                       the case and the client of a new bill    *)
(*   insert                       INSERT of the bill                       *)
(*   find, save                   read and whole-row UPDATE of a mark      *)
(*   receivable, received, pending   the queries of the summary            *)
(* receivable, received, pending: the bills each query has added up.       *)
(* quiet: no bill has been written since the first of them.                *)
(***************************************************************************)
Idle ==
  [pc |-> "idle", kind |-> "none", bill |-> Nothing, row |-> NoBill,
   month |-> 0, receivable |-> {}, received |-> {}, pending |-> {},
   quiet |-> TRUE, outcome |-> "none"]

Marks == {"paid", "invoiced", "void"}

Queries == {"receivable", "received", "pending"}

Requests ==
  [pc : {"idle", "lookup", "insert", "find", "save", "done"} \cup Queries,
   kind : Marks \cup {"none", "create", "summary"},
   bill : Bills \cup {Nothing}, row : Bill \cup [status : {"pending"},
                                     terms : Terms, month : {0}],
   month : 0..MaxMonth, receivable : SUBSET Bills, received : SUBSET Bills,
   pending : SUBSET Bills, quiet : BOOLEAN,
   outcome : {"none", "ok", "refused", "failed"}]

InFlight(r) == req[r].pc \notin {"idle", "done"}

Answer(r, outcome) ==
  [Idle EXCEPT !.pc = "done", !.kind = req[r].kind, !.outcome = outcome]

Goto(r, next) == req' = [req EXCEPT ![r] = next]

(* A bill is written: the summaries under way have seen other rows. *)
GotoDisturbing(r, next) ==
  req' = [s \in Slots |->
            IF s = r THEN next
            ELSE IF req[s].pc \in Queries \ {"receivable"}
                 THEN [req[s] EXCEPT !.quiet = FALSE] ELSE req[s]]

-----------------------------------------------------------------------------
Init ==
  /\ bills = [b \in Bills |-> NoBill]
  /\ month = 1
  /\ req = [r \in Slots |-> Idle]
  /\ settled = {}

Begin(r, kind, pc, b, row) ==
  /\ req[r].pc = "idle"
  /\ Goto(r, [Idle EXCEPT !.pc = pc, !.kind = kind, !.bill = b, !.row = row])
  /\ UNCHANGED <<bills, month, settled>>

BeginCreate(r, t) ==
  Begin(r, "create", "lookup", Nothing,
        [status |-> "pending", terms |-> t, month |-> 0])

BeginPaid(r, b) ==
  bills[b] # NoBill /\ Begin(r, "paid", "find", b, NoBill)

BeginInvoiced(r, b) ==
  bills[b] # NoBill /\ Begin(r, "invoiced", "find", b, NoBill)

BeginVoid(r, b) ==
  bills[b] # NoBill /\ Begin(r, "void", "find", b, NoBill)

(* The month the summary is about is that of the clock when it begins. *)
BeginSummary(r) ==
  /\ req[r].pc = "idle"
  /\ Goto(r, [Idle EXCEPT !.pc = "receivable", !.kind = "summary",
                          !.month = month])
  /\ UNCHANGED <<bills, month, settled>>

-----------------------------------------------------------------------------
(* Create: what it refers to is looked up, then the bill is inserted.      *)
CreateLookup(r) ==
  /\ req[r].pc = "lookup"
  /\ Goto(r, IF req[r].row.terms \in Acceptable
             THEN [req[r] EXCEPT !.pc = "insert"]
             ELSE Answer(r, "refused"))
  /\ UNCHANGED <<bills, month, settled>>

(* The row is dated by the clock at the INSERT. *)
CreateInsert(r) ==
  /\ req[r].pc = "insert"
  /\ \E b \in Bills :
       /\ bills[b] = NoBill
       /\ bills' = [bills EXCEPT ![b] = [req[r].row EXCEPT !.month = month]]
  /\ GotoDisturbing(r, Answer(r, "ok"))
  /\ UNCHANGED <<month, settled>>

(* The read of a mark: a bill in an allowed status is to be saved with the *)
(* status of the mark, every other column as read.                         *)
FindThenMark(r, mark, allowed) ==
  LET row == bills[req[r].bill]
  IN /\ req[r].pc = "find" /\ req[r].kind = mark
     /\ Goto(r, IF row.status \in allowed
                THEN [req[r] EXCEPT !.pc = "save",
                                    !.row = [row EXCEPT !.status = mark]]
                ELSE Answer(r, "refused"))
     /\ UNCHANGED <<bills, month, settled>>

MarkPaid(r) == FindThenMark(r, "paid", {"pending"})

(* Wrong on purpose: any bill that is not void gets its invoice. *)
MarkInvoicedUnlessVoid(r) ==
  FindThenMark(r, "invoiced", Statuses \ {"void"})

MarkInvoiced(r) == FindThenMark(r, "invoiced", {"paid"})

(* Wrong on purpose: a status of another spelling. *)
VoidMisspelt(r) ==
  LET row == bills[req[r].bill]
  IN /\ req[r].pc = "find" /\ req[r].kind = "void"
     /\ Goto(r, IF row.status # "void"
                THEN [req[r] EXCEPT !.pc = "save",
                                    !.row = [row EXCEPT !.status = "voided"]]
                ELSE Answer(r, "refused"))
     /\ UNCHANGED <<bills, month, settled>>

Void(r) == FindThenMark(r, "void", Statuses \ {"void"})

(* Save: an UPDATE of every column, whatever the row is by now. *)
SaveBill(r) ==
  LET q == req[r]
  IN /\ q.pc = "save"
     /\ bills' = [bills EXCEPT ![q.bill] = q.row]
     /\ settled' = IF q.row.status = "paid" THEN settled \cup {q.bill}
                   ELSE settled
     /\ GotoDisturbing(r, Answer(r, "ok"))
     /\ UNCHANGED month

-----------------------------------------------------------------------------
(* Wrong on purpose: an invoiced bill is no longer received. *)
CountedUntilInvoiced(query) ==
  CASE query = "receivable" -> Statuses \ {"void"}
    [] query = "received"   -> {"paid"}
    [] query = "pending"    -> {"pending"}

(* The statuses whose bills a query of the summary adds up. *)
CountedStatuses(query) ==
  CASE query = "receivable" -> Statuses \ {"void"}
    [] query = "received"   -> {"paid", "invoiced"}
    [] query = "pending"    -> {"pending"}

Counted(query, m) ==
  {b \in Bills : /\ bills[b].status \in CountedStatuses(query)
                 /\ bills[b].month = m}

QueryReceivable(r) ==
  /\ req[r].pc = "receivable"
  /\ Goto(r, [req[r] EXCEPT !.pc = "received",
                            !.receivable = Counted("receivable", req[r].month)])
  /\ UNCHANGED <<bills, month, settled>>

(* Wrong on purpose: what is received is the sum that is known already,    *)
(* the receivable of the first query.                                      *)
QueryReceivedReusing(r) ==
  /\ req[r].pc = "received"
  /\ Goto(r, [req[r] EXCEPT !.pc = "pending", !.received = req[r].receivable])
  /\ UNCHANGED <<bills, month, settled>>

QueryReceived(r) ==
  /\ req[r].pc = "received"
  /\ Goto(r, [req[r] EXCEPT !.pc = "pending",
                            !.received = Counted("received", req[r].month)])
  /\ UNCHANGED <<bills, month, settled>>

QueryPending(r) ==
  /\ req[r].pc = "pending"
  /\ Goto(r, [req[r] EXCEPT !.pc = "done", !.outcome = "ok",
                            !.pending = Counted("pending", req[r].month)])
  /\ UNCHANGED <<bills, month, settled>>

-----------------------------------------------------------------------------
(* A statement fails, or the INSERT meets a bill number already drawn:     *)
(* the handler answers with an error, no row is written.                   *)
StatementFails(r) ==
  /\ InFlight(r)
  /\ Goto(r, Answer(r, "failed"))
  /\ UNCHANGED <<bills, month, settled>>

Received(r) ==
  /\ req[r].pc = "done"
  /\ Goto(r, Idle)
  /\ UNCHANGED <<bills, month, settled>>

(* The process stops and comes back: no request in flight is answered. *)
Restart ==
  /\ req # [r \in Slots |-> Idle]
  /\ req' = [r \in Slots |-> Idle]
  /\ UNCHANGED <<bills, month, settled>>

NextMonth ==
  /\ month < MaxMonth
  /\ month' = month + 1
  /\ UNCHANGED <<bills, req, settled>>

ClientStep(r) ==
  \/ \E t \in Terms : BeginCreate(r, t)
  \/ \E b \in Bills : BeginPaid(r, b) \/ BeginInvoiced(r, b) \/ BeginVoid(r, b)
  \/ BeginSummary(r)
  \/ Received(r)

Step(r) ==
  \/ CreateLookup(r)
  \/ CreateInsert(r)
  \/ MarkPaid(r)
  \/ MarkInvoiced(r)
  \/ Void(r)
  \/ SaveBill(r)
  \/ QueryReceivable(r)
  \/ QueryReceived(r)
  \/ QueryPending(r)

Next ==
  \/ \E r \in Slots : ClientStep(r) \/ Step(r) \/ StatementFails(r)
  \/ Restart
  \/ NextMonth

Spec == Init /\ [][Next]_vars

-----------------------------------------------------------------------------
(* Columns and what requests in flight hold of them have their types       *)
(* (model/billing.go, constants/billing.go).                               *)
TypeOK ==
  /\ bills \in [Bills -> Bill]
  /\ month \in 1..MaxMonth
  /\ req \in [Slots -> Requests]
  /\ settled \subseteq Bills

(* Bills keep the promise of module BillPromise however requests about     *)
(* them interleave (billing_service.go: the checks of the marks, and       *)
(* whole-row saves of rows read earlier).                                  *)
Promise ==
  INSTANCE BillPromise WITH
    ledger <- [b \in Bills |-> [status |-> bills[b].status,
                                terms |-> bills[b].terms]]

KeepsThePromise == Promise!Spec

(* A summary never counts a bill both as received and as pending, though   *)
(* its queries see different moments: pending is asked for last, and no    *)
(* bill becomes pending again (billing_repository.go, Summary).            *)
CountedOnce ==
  \A r \in Slots : req[r].received \cap req[r].pending = {}

(* A summary no write has come between adds up: what is receivable is      *)
(* received or pending (billing_repository.go, Summary: the three          *)
(* conditions cut the statuses into parts).                                *)
QuietSummaryAddsUp ==
  \A r \in Slots :
    req[r].kind = "summary" /\ req[r].outcome = "ok" /\ req[r].quiet =>
      req[r].receivable = req[r].received \cup req[r].pending

-----------------------------------------------------------------------------
(* What the code says of itself and interleaving breaks: a bill becomes    *)
(* paid from pending (billing_service.go, the comment of MarkPaid).        *)
PaidFromPending ==
  [][\A b \in Bills :
       bills'[b].status = "paid" /\ bills[b].status # "paid"
       => bills[b].status = "pending"]_vars
=============================================================================
