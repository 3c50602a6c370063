---------------------- MODULE ConflictConcurrentProofs ----------------------
(***************************************************************************)
(* What racing requests leave true of conclusions and of the answers about *)
(* them, for any number of cases, parties, keys and requests in flight.    *)
(*                                                                         *)
(* The argument: a handler saves only rows it has made, out of a row it    *)
(* has read, with the operators of ConflictRules, which keep the columns   *)
(* of a row consistent; so stale rows overwrite newer ones, but never mix  *)
(* with them.  A released row, in the table or in the hands of a handler,  *)
(* names only parties with an identity that some release has approved, for *)
(* a release adds its own and a resubmission keeps one only for the same   *)
(* identities.  What has been stored, registered or approved is never      *)
(* taken back, so what a handler has found still holds when it goes on.    *)
(***************************************************************************)
EXTENDS ConflictConcurrent, ConflictRulesProofs

(* Each snapshot tells an identity of its party that some release of the   *)
(* matter has approved.                                                    *)
Covered(k, snaps) ==
  \A s \in snaps : \E a \in approvals[k] : a.party = s.party /\ a.fp = s.fp

Stored(k) == checks[k].status # "absent"

KeyOK(k) ==
  /\ RowConsistent(checks[k])
  /\ checks[k].status = "released" => Covered(k, checks[k].matched)

(* Which request is at which statement, and what about. *)
PlaceOK(q) ==
  /\ q.pc \in {"match", "insert", "update"} => q.kind = "submit"
  /\ q.pc \in {"match", "insert", "update", "hits", "current", "save",
               "unbind", "bind"} => q.on \in Keys
  /\ q.pc = "find" => IF q.kind = "update"
                      THEN q.on \in Parties /\ Registered(q.on)
                      ELSE q.on \in Keys
  /\ q.pc = "write" => q.on \in Parties /\ q.party.version > 0
  /\ q.pc \notin {"idle", "done"} => q.outcome = "none"

(* The decision about to be saved that makes a new release. *)
Releasing(q) == q.pc = "save" /\ q.stage = "decide" /\ q.kind = "release"

(* What a request has read or is about to write. *)
DataOK(q) ==
  /\ RowConsistent(q.row)
  /\ \A s \in q.live : Registered(s.party)
  /\ q.pc \in {"insert", "update", "save"} => q.row.status # "absent"
  /\ q.row.status = "released" =>
       q.on \in Keys /\ (Releasing(q) \/ Covered(q.on, q.row.matched))

(* A submission that tries again finds the row it has met. *)
RetryOK(q) ==
  /\ q.pc = "update" => Stored(q.on)
  /\ /\ q.kind = "submit" /\ q.pc \in {"match", "find"}
     /\ q.attempt > 1 /\ ~q.clash
     => Stored(q.on)
  /\ q.kind = "submit" /\ q.outcome = "not_found" => q.clash

RequestOK(q) == PlaceOK(q) /\ DataOK(q) /\ RetryOK(q)

IInv ==
  /\ TypeOK
  /\ \A k \in Keys : KeyOK(k)
  /\ \A r \in Slots : RequestOK(req[r])

-----------------------------------------------------------------------------
(* What is stored, registered or approved stays so. *)
NothingTakenBack ==
  /\ \A k \in Keys : Stored(k) => Stored(k)'
  /\ \A k \in Keys : approvals[k] \subseteq approvals'[k]
  /\ \A p \in Parties : Registered(p) => Registered(p)'

(* A request in order stays in order while others go on. *)
LEMMA RequestStays ==
  ASSUME NothingTakenBack, NEW q \in Requests, RequestOK(q)
  PROVE  RequestOK(q)'
<1>1. PlaceOK(q)'
  BY DEF RequestOK, PlaceOK, NothingTakenBack
<1>2. \A s \in q.live : s.party \in Parties
  BY DEF Requests, Snapshot
<1>3. DataOK(q)'
  BY <1>2 DEF RequestOK, DataOK, NothingTakenBack, Covered, Releasing
<1>4. RetryOK(q)'
  BY DEF RequestOK, RetryOK, PlaceOK, NothingTakenBack, Stored
<1> QED BY <1>1, <1>3, <1>4 DEF RequestOK

(* A step of the request in slot r keeps the invariant if it takes nothing *)
(* back and leaves the tables and its own request in order.                *)
LEMMA StepKeeps ==
  ASSUME IInv, NothingTakenBack,
         NEW r \in Slots, NEW next \in Requests, RequestOK(next)',
         Goto(r, next), RegistryTypeOK', checks' \in [Keys -> Row],
         bindings' \in [Keys -> SUBSET Snapshot],
         approvals' \in [Keys -> SUBSET Snapshot], \A k \in Keys : KeyOK(k)'
  PROVE  IInv'
<1>1. req' = [req EXCEPT ![r] = next] /\ req \in [Slots -> Requests]
  BY DEF Goto, IInv, TypeOK
<1>2. TypeOK'
  BY <1>1 DEF TypeOK
<1>3. ASSUME NEW s \in Slots PROVE RequestOK(req[s])'
  <2>1. CASE s = r
    <3>1. req'[s] = next
      BY <1>1, <2>1
    <3> QED BY <3>1 DEF RequestOK, PlaceOK, DataOK, RetryOK, Releasing, Covered,
                        Stored, Registered
  <2>2. CASE s # r
    <3>1. req'[s] = req[s]
      BY <1>1, <2>2
    <3>2. PICK q \in Requests : q = req[s]
      BY <1>1
    <3>3. RequestOK(q)'
      BY <3>2, RequestStays DEF IInv
    <3> QED BY <3>1, <3>2, <3>3 DEF RequestOK, PlaceOK, DataOK, RetryOK, Releasing,
                                    Covered, Stored, Registered
  <2> QED BY <2>1, <2>2
<1> QED BY <1>2, <1>3 DEF IInv

(* A step that only reads. *)
LEMMA ReadKeeps ==
  ASSUME IInv, NEW r \in Slots, NEW next \in Requests, RequestOK(next),
         Goto(r, next),
         UNCHANGED <<caseStatus, parties, checks, bindings, approvals>>
  PROVE  IInv'
<1>1. NothingTakenBack
  BY DEF NothingTakenBack, Stored, Registered
<1>2. RequestOK(next)'
  BY <1>1, RequestStays
<1>3. \A k \in Keys : KeyOK(k)'
  BY DEF IInv, KeyOK, Covered
<1> QED BY <1>1, <1>2, <1>3, StepKeeps DEF IInv, TypeOK, RegistryTypeOK

-----------------------------------------------------------------------------
LEMMA NoRowOK == NoRow \in Row /\ RowConsistent(NoRow) /\ NoRow.status = "absent"
<1>1. Binding({}) \in Bindings
  BY BindingType
<1> QED BY <1>1, NormAssumption DEF NoRow, Row, RowConsistent

LEMMA IdleOK == Idle \in Requests /\ RequestOK(Idle)
<1>1. Unregistered \in Party /\ Blank \in Forms /\ 1 \in 1..MaxAttempts
  BY NormAssumption DEF Unregistered, Party, MaxAttempts
<1>2. Idle \in Requests
  BY <1>1, NoRowOK DEF Idle, Requests
<1>3. PlaceOK(Idle) /\ RetryOK(Idle)
  BY DEF Idle, PlaceOK, RetryOK
<1>4. DataOK(Idle)
  BY NoRowOK DEF Idle, DataOK
<1> QED BY <1>2, <1>3, <1>4 DEF RequestOK

(* An answer is in order; a submission is told that its row is not there   *)
(* only after a clash of check numbers.                                    *)
LEMMA AnswerOK ==
  ASSUME IInv, NEW r \in Slots,
         NEW outcome \in {"row", "saved", "refused", "not_found", "retry",
                          "failed"},
         outcome = "not_found" /\ req[r].kind = "submit" => req[r].clash
  PROVE  /\ Answer(r, outcome) \in Requests
         /\ RequestOK(Answer(r, outcome))
<1> DEFINE answer == Answer(r, outcome)
<1>1. Idle \in Requests /\ req[r] \in Requests
  BY IdleOK DEF IInv, TypeOK
<1>2. answer \in Requests
  <2>1. /\ req[r].kind \in Kinds \cup {"none"} /\ req[r].clash \in BOOLEAN
        /\ req[r].on \in Keys \cup Parties \cup {Nothing}
    BY <1>1 DEF Requests
  <2>2. ASSUME NEW q \in Requests, NEW kind \in Kinds \cup {"none"},
               NEW on \in Keys \cup Parties \cup {Nothing}, NEW clash \in BOOLEAN
        PROVE  [q EXCEPT !.pc = "done", !.kind = kind, !.on = on,
                         !.clash = clash, !.outcome = outcome] \in Requests
    BY ZenonT(60) DEF Requests
  <2> QED BY <1>1, <2>1, <2>2 DEF Answer
<1>3. /\ answer.pc = "done" /\ answer.row = NoRow /\ answer.live = {}
      /\ answer.outcome = outcome /\ answer.kind = req[r].kind
      /\ answer.clash = req[r].clash
  BY DEF Answer, Idle
<1>4. PlaceOK(answer) /\ RetryOK(answer)
  BY <1>3 DEF PlaceOK, RetryOK
<1>5. DataOK(answer)
  BY <1>3, NoRowOK DEF DataOK
<1> QED BY <1>2, <1>4, <1>5 DEF RequestOK

LEMMA AnswerRowOK ==
  ASSUME IInv, NEW r \in Slots, NEW row, NEW live \in SUBSET Snapshot,
         NEW current, \A s \in live : Registered(s.party)
  PROVE  /\ AnswerRow(r, row, live, current) \in Requests
         /\ RequestOK(AnswerRow(r, row, live, current))
<1> DEFINE answer == Answer(r, "row")
           shown  == AnswerRow(r, row, live, current)
<1>1. answer \in Requests /\ RequestOK(answer)
  BY AnswerOK
<1>2. CanProceed(row, live, current) \in BOOLEAN
  BY DEF CanProceed
<1>3. /\ answer.pc = "done" /\ answer.row = NoRow /\ answer.outcome = "row"
  BY DEF Answer, Idle
<1> HIDE DEF answer
<1>4. shown = [answer EXCEPT !.live = live,
                             !.proceed = CanProceed(row, live, current)]
  BY DEF AnswerRow, answer
<1>5. shown \in Requests
  BY <1>1, <1>2, <1>4 DEF Requests
<1>6. /\ shown.pc = "done" /\ shown.row = NoRow /\ shown.outcome = "row"
      /\ shown.live = live
  BY <1>1, <1>3, <1>4 DEF Requests
<1> HIDE DEF shown
<1>7. PlaceOK(shown) /\ RetryOK(shown)
  BY <1>6 DEF PlaceOK, RetryOK
<1>8. DataOK(shown)
  BY <1>6, NoRowOK DEF DataOK
<1> QED BY <1>5, <1>7, <1>8 DEF RequestOK, shown

-----------------------------------------------------------------------------
LEMMA InitHolds == Init => IInv
<1> SUFFICES ASSUME Init PROVE IInv
  OBVIOUS
<1>1. RegistryTypeOK
  <2>1. caseStatus \in [Cases -> CaseStatuses \cup {"absent"}]
    BY RegistryAssumption DEF Init
  <2>2. Unregistered \in Party
    BY NormAssumption DEF Unregistered, Party
  <2>3. ASSUME NEW c \in Cases, NEW i \in Identities
        PROVE  [case |-> c, side |-> "opposing", name |-> Normalize(i[1]),
                id |-> Normalize(i[2]), version |-> 1] \in Party
    <3>1. i[1] \in Spellings /\ i[2] \in Spellings
      BY ConcurrentAssumption
    <3>2. Normalize(i[1]) \in Forms /\ Normalize(i[2]) \in Forms
      BY <3>1, NormAssumption DEF Normalize
    <3> QED BY <3>2 DEF Party
  <2>4. parties \in [Parties -> {Unregistered} \cup
             {[case |-> c, side |-> "opposing", name |-> Normalize(i[1]),
               id |-> Normalize(i[2]), version |-> 1] :
                c \in Cases, i \in Identities}]
    BY DEF Init
  <2>5. parties \in [Parties -> Party]
    BY <2>2, <2>3, <2>4
  <2> QED BY <2>1, <2>5 DEF RegistryTypeOK
<1>2. TypeOK
  BY <1>1, NoRowOK, IdleOK DEF Init, TypeOK
<1>3. \A k \in Keys : KeyOK(k)
  BY NoRowOK DEF Init, KeyOK
<1>4. \A r \in Slots : RequestOK(req[r])
  BY IdleOK DEF Init
<1> QED BY <1>2, <1>3, <1>4 DEF IInv

LEMMA SpellingForms ==
  ASSUME NEW i \in Spellings \X Spellings
  PROVE  Normalize(i[1]) \in Forms /\ Normalize(i[2]) \in Forms
BY NormAssumption DEF Normalize

LEMMA BeginKeeps ==
  ASSUME IInv, NEW r \in Slots, NEW kind \in Kinds, NEW on \in Keys \cup Parties,
         NEW name \in Forms, NEW id \in Forms, NEW pc \in {"match", "find"},
         pc = "match" => kind = "submit" /\ on \in Keys,
         pc = "find" => /\ kind # "submit"
                        /\ IF kind = "update"
                           THEN on \in Parties /\ Registered(on)
                           ELSE on \in Keys,
         Begin(r, kind, on, name, id, pc)
  PROVE  IInv'
<1> DEFINE next == [Idle EXCEPT !.pc = pc, !.kind = kind, !.on = on,
                                !.name = name, !.id = id]
<1>1. next \in Requests
  <2>1. ASSUME NEW q \in Requests
        PROVE  [q EXCEPT !.pc = pc, !.kind = kind, !.on = on,
                         !.name = name, !.id = id] \in Requests
    BY DEF Requests
  <2> QED BY <2>1, IdleOK
<1>2. /\ next.pc = pc /\ next.kind = kind /\ next.on = on /\ next.row = NoRow
      /\ next.live = {} /\ next.attempt = 1 /\ next.outcome = "none"
  BY DEF Idle
<1> HIDE DEF next
<1>3. PlaceOK(next) /\ RetryOK(next)
  BY <1>2 DEF PlaceOK, RetryOK
<1>4. DataOK(next)
  BY <1>2, NoRowOK DEF DataOK
<1>5. RequestOK(next)
  BY <1>3, <1>4 DEF RequestOK
<1> QED BY <1>1, <1>5, ReadKeeps DEF Begin, next

LEMMA ClientStepKeeps ==
  ASSUME IInv, NEW r \in Slots, ClientStep(r)
  PROVE  IInv'
<1>1. ASSUME NEW k \in Keys, NEW o \in Opponents, BeginSubmit(r, k, o)
      PROVE  IInv'
  <2>1. Normalize(o[1]) \in Forms /\ Normalize(o[2]) \in Forms
    BY SpellingForms, ConcurrentAssumption
  <2>2. "submit" \in Kinds
    BY <1>1 DEF BeginSubmit, Begin
  <2> QED BY <1>1, <2>1, <2>2, BeginKeeps DEF BeginSubmit
<1>2. ASSUME NEW k \in Keys, NEW kind \in {"get", "list", "release", "reject"},
             BeginOnRow(r, kind, k)
      PROVE  IInv'
  <2>1. kind \in Kinds
    BY <1>2 DEF BeginOnRow, Begin
  <2> QED BY <1>2, <2>1, NormAssumption, BeginKeeps DEF BeginOnRow
<1>3. ASSUME NEW p \in Parties, NEW u \in Updates, BeginUpdate(r, p, u)
      PROVE  IInv'
  <2>1. Normalize(u[1]) \in Forms /\ Normalize(u[2]) \in Forms
    BY SpellingForms, ConcurrentAssumption
  <2>2. "update" \in Kinds
    BY <1>3 DEF BeginUpdate, Begin
  <2> QED BY <1>3, <2>1, <2>2, BeginKeeps DEF BeginUpdate
<1>4. CASE Received(r)
  BY <1>4, IdleOK, ReadKeeps DEF Received
<1> QED BY <1>1, <1>2, <1>3, <1>4 DEF ClientStep

-----------------------------------------------------------------------------
(* A live hit is typed and of a registered party. *)
LEMMA LiveOK ==
  ASSUME IInv, NEW name, NEW id
  PROVE  /\ Live(name, id) \in SUBSET Snapshot
         /\ \A s \in Live(name, id) : Registered(s.party)
BY LiveIsCurrent DEF IInv, TypeOK, IsCurrent

LEMMA SubmitMatchKeeps ==
  ASSUME IInv, NEW r \in Slots, SubmitMatch(r)
  PROVE  IInv'
<1> DEFINE q    == req[r]
           live == Live(q.name, q.id)
           next == [q EXCEPT !.pc = "find", !.live = live]
<1>1. q \in Requests /\ RequestOK(q) /\ q.pc = "match"
  BY DEF IInv, TypeOK, SubmitMatch
<1>2. live \in SUBSET Snapshot /\ \A s \in live : Registered(s.party)
  BY LiveOK
<1> HIDE DEF live
<1>3. /\ next \in Requests /\ next.pc = "find" /\ next.live = live
      /\ next.kind = q.kind /\ next.on = q.on /\ next.row = q.row
      /\ next.attempt = q.attempt /\ next.clash = q.clash
      /\ next.outcome = q.outcome
  BY <1>1, <1>2 DEF Requests
<1> HIDE DEF next
<1>4. RequestOK(next)
  BY <1>1, <1>2, <1>3
  DEF RequestOK, PlaceOK, DataOK, RetryOK, Releasing
<1> QED BY <1>3, <1>4, ReadKeeps DEF SubmitMatch, next, live

LEMMA SubmitFindKeeps ==
  ASSUME IInv, NEW r \in Slots, SubmitFind(r)
  PROVE  IInv'
<1> DEFINE q        == req[r]
           existing == checks[q.on]
           again    == ResubmittedRow(existing, q.name, q.id, q.live)
           fresh    == FreshRow(q.name, q.id, q.live)
           update   == [q EXCEPT !.pc = "update", !.row = again]
           insert   == [q EXCEPT !.pc = "insert", !.row = fresh]
<1>1. /\ q \in Requests /\ RequestOK(q)
      /\ q.pc = "find" /\ q.kind = "submit" /\ q.on \in Keys
  BY DEF IInv, TypeOK, SubmitFind, RequestOK, PlaceOK
<1>2. existing \in Row /\ KeyOK(q.on)
  BY <1>1 DEF IInv, TypeOK
<1>3. /\ q.name \in Forms /\ q.id \in Forms /\ q.live \in SUBSET Snapshot
  BY <1>1 DEF Requests
<1>4. /\ again \in Row /\ fresh \in Row
      /\ RowConsistent(again) /\ RowConsistent(fresh)
  <2>1. RowConsistent(existing) /\ "released" \in Statuses
    BY <1>2 DEF KeyOK, Statuses
  <2> HIDE DEF q, existing
  <2> QED BY <2>1, <1>2, <1>3, RowTypes, RowsConsistent
<1>5. CASE existing.status # "absent"
  <2>1. Goto(r, update)
    BY <1>5 DEF SubmitFind
  <2>2. again.status # "absent"
    BY DEF ResubmittedRow, CollapseStatus
  <2>3. again.status = "released" => Covered(q.on, again.matched)
    <3> SUFFICES ASSUME again.status = "released", NEW h \in q.live
                 PROVE  \E a \in approvals[q.on] : a.party = h.party /\ a.fp = h.fp
      BY DEF Covered, ResubmittedRow
    <3>1. PICK m \in existing.matched :
            existing.status = "released" /\ m.party = h.party /\ m.fp = h.fp
      BY <1>2, <1>3, ReleasedAgain DEF KeyOK
    <3> QED BY <1>2, <3>1 DEF KeyOK, Covered
  <2> HIDE DEF again
  <2>4. /\ update \in Requests /\ update.pc = "update" /\ update.row = again
        /\ update.live = q.live /\ update.kind = q.kind /\ update.on = q.on
        /\ update.outcome = q.outcome /\ update.clash = q.clash
    BY <1>1, <1>4 DEF Requests
  <2> HIDE DEF update
  <2>5. PlaceOK(update)
    BY <1>1, <2>4 DEF RequestOK, PlaceOK
  <2>6. DataOK(update)
    BY <1>1, <1>4, <2>2, <2>3, <2>4 DEF RequestOK, DataOK
  <2>7. RetryOK(update)
    BY <1>1, <1>5, <2>4 DEF RequestOK, RetryOK, Stored
  <2>8. RequestOK(update)
    BY <2>5, <2>6, <2>7 DEF RequestOK
  <2> QED BY <2>1, <2>4, <2>8, ReadKeeps DEF SubmitFind
<1>6. CASE existing.status = "absent" /\ ~ForceExisting(q.attempt)
  <2>1. Goto(r, insert)
    BY <1>6 DEF SubmitFind
  <2>2. fresh.status \notin {"absent", "released"}
    BY DEF FreshRow, NoRow
  <2> HIDE DEF fresh
  <2>3. /\ insert \in Requests /\ insert.pc = "insert" /\ insert.row = fresh
        /\ insert.live = q.live /\ insert.kind = q.kind /\ insert.on = q.on
        /\ insert.outcome = q.outcome /\ insert.clash = q.clash
    BY <1>1, <1>4 DEF Requests
  <2> HIDE DEF insert
  <2>4. PlaceOK(insert)
    BY <1>1, <2>3 DEF RequestOK, PlaceOK
  <2>5. DataOK(insert)
    BY <1>1, <1>4, <2>2, <2>3 DEF RequestOK, DataOK
  <2>6. RetryOK(insert)
    BY <1>1, <2>3 DEF RequestOK, RetryOK
  <2>7. RequestOK(insert)
    BY <2>4, <2>5, <2>6 DEF RequestOK
  <2> QED BY <2>1, <2>3, <2>7, ReadKeeps DEF SubmitFind
<1>7. CASE existing.status = "absent" /\ ForceExisting(q.attempt)
  <2>1. Goto(r, Answer(r, "not_found"))
    BY <1>7 DEF SubmitFind
  <2>2. q.clash
    BY <1>1, <1>7 DEF RequestOK, RetryOK, Stored, ForceExisting
  <2> QED BY <2>1, <2>2, AnswerOK, ReadKeeps DEF SubmitFind
<1> QED BY <1>5, <1>6, <1>7

(* Tried again, a submission finds the row that took its key, unless it    *)
(* was its number that was taken.                                          *)
LEMMA SubmitDuplicateKeeps ==
  ASSUME IInv, NEW r \in Slots, SubmitDuplicate(r)
  PROVE  IInv'
<1> DEFINE q       == req[r]
           noTaken == q.pc = "insert" /\ ~Stored(q.on) /\ CheckNoClash
           next    == [q EXCEPT !.pc = "match", !.attempt = q.attempt + 1,
                                !.row = NoRow, !.live = {},
                                !.clash = q.clash \/ noTaken]
<1>1. /\ q \in Requests /\ RequestOK(q) /\ q.pc \in {"insert", "update"}
      /\ ~noTaken => Stored(q.on)
  BY DEF IInv, TypeOK, SubmitDuplicate, RequestOK, RetryOK, Stored
<1>2. Goto(r, IF q.attempt = MaxAttempts THEN Answer(r, "retry") ELSE next)
  BY DEF SubmitDuplicate, NextAttempt, Stored
<1>3. CASE q.attempt = MaxAttempts
  BY <1>2, <1>3, AnswerOK, ReadKeeps DEF SubmitDuplicate
<1>4. CASE q.attempt # MaxAttempts
  <2>1. q.attempt + 1 \in 1..MaxAttempts
    BY <1>1, <1>4 DEF Requests, MaxAttempts
  <2>2. (q.clash \/ noTaken) \in BOOLEAN
    BY <1>1, ConcurrentAssumption DEF Requests
  <2>3. /\ next \in Requests /\ next.pc = "match" /\ next.row = NoRow
        /\ next.live = {} /\ next.kind = q.kind /\ next.on = q.on
        /\ next.outcome = q.outcome
    BY ZenonT(60), <1>1, <2>1, <2>2, NoRowOK DEF Requests
  <2>4. next.clash <=> q.clash \/ noTaken
    BY <1>1 DEF Requests
  <2> HIDE DEF next
  <2>5. PlaceOK(next)
    BY <1>1, <2>3 DEF RequestOK, PlaceOK
  <2>6. DataOK(next)
    BY <2>3, NoRowOK DEF DataOK
  <2>7. RetryOK(next)
    BY <1>1, <2>3, <2>4 DEF RequestOK, RetryOK, PlaceOK
  <2>8. RequestOK(next)
    BY <2>5, <2>6, <2>7 DEF RequestOK
  <2> QED BY <1>2, <1>4, <2>3, <2>8, ReadKeeps DEF SubmitDuplicate
<1> QED BY <1>3, <1>4

(* A consistent row that is there replaces the row of key k, a release     *)
(* being covered by then.                                                  *)
LEMMA RowWritten ==
  ASSUME IInv, NEW k \in Keys, NEW row \in Row, RowConsistent(row),
         row.status # "absent", checks' = [checks EXCEPT ![k] = row],
         approvals' \in [Keys -> SUBSET Snapshot],
         \A l \in Keys : approvals[l] \subseteq approvals'[l],
         row.status = "released" => Covered(k, row.matched)',
         UNCHANGED parties
  PROVE  /\ NothingTakenBack
         /\ checks' \in [Keys -> Row]
         /\ \A l \in Keys : KeyOK(l)'
<1>1. /\ checks' \in [Keys -> Row] /\ checks'[k] = row
      /\ \A l \in Keys \ {k} : checks'[l] = checks[l]
  BY DEF IInv, TypeOK
<1>2. NothingTakenBack
  BY <1>1 DEF NothingTakenBack, Stored, Registered
<1>3. ASSUME NEW l \in Keys PROVE KeyOK(l)'
  <2>1. CASE l = k
    BY <1>1, <2>1 DEF KeyOK, Covered
  <2>2. CASE l # k
    BY <1>1, <2>2 DEF IInv, KeyOK, Covered
  <2> QED BY <2>1, <2>2
<1> QED BY <1>1, <1>2, <1>3

LEMMA SubmitCommitKeeps ==
  ASSUME IInv, NEW r \in Slots, SubmitCommit(r)
  PROVE  IInv'
<1> DEFINE q == req[r]
<1>1. /\ q \in Requests /\ RequestOK(q) /\ q.pc \in {"insert", "update"}
      /\ q.on \in Keys /\ q.kind = "submit"
  BY DEF IInv, TypeOK, SubmitCommit, RequestOK, PlaceOK
<1>2. /\ q.row \in Row /\ RowConsistent(q.row) /\ q.row.status # "absent"
      /\ q.live \in SUBSET Snapshot
      /\ q.row.status = "released" => Covered(q.on, q.row.matched)
  BY <1>1 DEF Requests, RequestOK, DataOK, Releasing
<1>3. /\ checks' = [checks EXCEPT ![q.on] = q.row]
      /\ approvals' = approvals /\ UNCHANGED <<caseStatus, parties>>
      /\ bindings' = [bindings EXCEPT ![q.on] = q.live]
  BY DEF SubmitCommit
<1>4. PICK next \in Requests :
        /\ next = [q EXCEPT !.pc = "hits", !.stage = "final"]
        /\ next.pc = "hits"
  <2>1. /\ [q EXCEPT !.pc = "hits", !.stage = "final"] \in Requests
        /\ [q EXCEPT !.pc = "hits", !.stage = "final"].pc = "hits"
    BY <1>1 DEF Requests
  <2> QED BY <2>1
<1>5. /\ next.row = q.row /\ next.live = q.live /\ next.kind = q.kind
      /\ next.on = q.on /\ next.outcome = q.outcome /\ next.clash = q.clash
  BY <1>1, <1>4 DEF Requests
<1>6. PlaceOK(next) /\ RetryOK(next) /\ DataOK(next)
  BY <1>1, <1>2, <1>4, <1>5
  DEF RequestOK, PlaceOK, RetryOK, DataOK, Releasing
<1>7. RequestOK(next)
  BY <1>6 DEF RequestOK
<1>8. PICK k \in Keys, row \in Row : k = q.on /\ row = q.row
  BY <1>1, <1>2
<1>9. row.status = "released" => Covered(k, row.matched)'
  BY <1>2, <1>3, <1>8 DEF Covered
<1>10. /\ NothingTakenBack /\ checks' \in [Keys -> Row]
       /\ \A l \in Keys : KeyOK(l)'
  BY <1>2, <1>3, <1>8, <1>9, RowWritten DEF IInv, TypeOK
<1>11. RequestOK(next)'
  BY <1>7, <1>10, RequestStays
<1>12. Goto(r, next)
  BY <1>4 DEF SubmitCommit
<1> QED
  BY <1>2, <1>3, <1>10, <1>11, <1>12, StepKeeps
  DEF IInv, TypeOK, RegistryTypeOK

-----------------------------------------------------------------------------
LEMMA FindRowKeeps ==
  ASSUME IInv, NEW r \in Slots, FindRow(r)
  PROVE  IInv'
<1> DEFINE q    == req[r]
           stage == IF q.kind = "list" THEN "final" ELSE "read"
           next == [q EXCEPT !.pc = "hits", !.row = checks[q.on],
                             !.stage = stage]
<1>1. /\ q \in Requests /\ RequestOK(q) /\ q.pc = "find"
      /\ q.kind \notin {"submit", "update"} /\ q.on \in Keys
  BY DEF IInv, TypeOK, FindRow, RequestOK, PlaceOK
<1>2. checks[q.on] \in Row /\ KeyOK(q.on)
  BY <1>1 DEF IInv, TypeOK
<1>3. /\ next \in Requests /\ next.pc = "hits" /\ next.row = checks[q.on]
      /\ next.live = q.live /\ next.kind = q.kind /\ next.on = q.on
      /\ next.outcome = q.outcome /\ next.clash = q.clash
  BY <1>1, <1>2 DEF Requests
<1> HIDE DEF next
<1>4. PlaceOK(next) /\ RetryOK(next)
  BY <1>1, <1>3 DEF RequestOK, PlaceOK, RetryOK
<1>5. DataOK(next)
  BY <1>1, <1>2, <1>3 DEF RequestOK, DataOK, KeyOK
<1>6. RequestOK(next)
  BY <1>4, <1>5 DEF RequestOK
<1> QED BY <1>3, <1>6, ReadKeeps DEF FindRow, next

(* A request about to save what it has made of the row it has read. *)
LEMMA SaveNext ==
  ASSUME IInv, NEW r \in Slots, req[r].pc \in {"hits", "current"},
         NEW live \in SUBSET Snapshot, \A s \in live : Registered(s.party),
         NEW stage \in {"read", "decide"}, NEW row \in Row, RowConsistent(row),
         row.status # "absent",
         row.status = "released" => stage = "decide" /\ req[r].kind = "release",
         NEW next, next = [req[r] EXCEPT !.pc = "save", !.stage = stage,
                                         !.live = live, !.row = row]
  PROVE  next \in Requests /\ RequestOK(next)
<1> DEFINE q == req[r]
<1>1. q \in Requests /\ RequestOK(q) /\ q.on \in Keys
  BY DEF IInv, TypeOK, RequestOK, PlaceOK
<1>2. /\ next \in Requests /\ next.pc = "save" /\ next.row = row
      /\ next.live = live /\ next.kind = q.kind /\ next.on = q.on
      /\ next.outcome = q.outcome /\ next.clash = q.clash
      /\ next.stage = stage
  BY <1>1 DEF Requests
<1>3. PlaceOK(next) /\ RetryOK(next)
  BY <1>1, <1>2 DEF RequestOK, PlaceOK, RetryOK
<1>4. DataOK(next)
  BY <1>1, <1>2 DEF DataOK, Releasing
<1> QED BY <1>2, <1>3, <1>4 DEF RequestOK

LEMMA DecidedOK ==
  ASSUME IInv, NEW r \in Slots, req[r].pc \in {"hits", "current"},
         NEW live \in SUBSET Snapshot, \A s \in live : Registered(s.party),
         NEW current
  PROVE  /\ Decided(r, req[r].row, live, current) \in Requests
         /\ RequestOK(Decided(r, req[r].row, live, current))
<1> DEFINE q      == req[r]
           target == IF q.kind = "release" THEN "released" ELSE "rejected"
           closed == ~CanDecide(q.row.status) \/ (q.kind = "release" /\ live = {})
           new    == IF q.kind = "release" THEN ReleasedRow(q.row, live)
                     ELSE RejectedRow(q.row)
           next   == [q EXCEPT !.pc = "save", !.stage = "decide", !.live = live,
                               !.row = new]
<1>1. q \in Requests /\ RequestOK(q)
  BY DEF IInv, TypeOK
<1>2. q.row \in Row /\ RowConsistent(q.row)
  BY <1>1 DEF Requests, RequestOK, DataOK
<1>3. CASE q.row.status = target
  BY <1>3, AnswerRowOK DEF Decided
<1>4. CASE q.row.status # target /\ closed
  BY <1>4, AnswerOK DEF Decided
<1>5. CASE q.row.status # target /\ ~closed
  <2>1. Decided(r, q.row, live, current) = next
    BY <1>5 DEF Decided
  <2>2. Blank \in Forms /\ "released" \in Statuses
    BY NormAssumption DEF Statuses
  <2>3. ReleasedRow(q.row, live) \in Row /\ RejectedRow(q.row) \in Row
    <3> HIDE DEF q
    <3> QED BY <1>2, <2>2, RowTypes
  <2>4. /\ RowConsistent(RejectedRow(q.row))
        /\ q.kind = "release" => RowConsistent(ReleasedRow(q.row, live))
    <3>1. live # {} => RowConsistent(ReleasedRow(q.row, live))
      BY <1>2, <2>2, RowsConsistent
    <3>2. RowConsistent(RejectedRow(q.row))
      BY <1>2, <2>2, RowsConsistent
    <3> QED BY <1>5, <3>1, <3>2
  <2>5. /\ ReleasedRow(q.row, live).status = "released"
        /\ RejectedRow(q.row).status = "rejected"
    BY <1>2 DEF ReleasedRow, RejectedRow, Row
  <2>6. /\ new \in Row /\ RowConsistent(new) /\ new.status # "absent"
        /\ new.status = "released" => q.kind = "release"
    BY <2>3, <2>4, <2>5
  <2> HIDE DEF new
  <2>7. next \in Requests /\ RequestOK(next)
    BY <2>6, SaveNext
  <2> QED BY <2>1, <2>7
<1> QED BY <1>3, <1>4, <1>5

(* Whatever an enrich of the row leads to is in order. *)
LEMMA EnrichedOK ==
  ASSUME IInv, NEW r \in Slots, req[r].pc \in {"hits", "current"},
         NEW live \in SUBSET Snapshot, \A s \in live : Registered(s.party),
         NEW current
  PROVE  /\ Enriched(r, live, current) \in Requests
         /\ RequestOK(Enriched(r, live, current))
<1> DEFINE q    == req[r]
           next == NextStatus(q.row, live, current)
           new  == RevalidatedRow(q.row, live, next)
           save == [q EXCEPT !.pc = "save", !.live = live, !.row = new]
<1>1. q \in Requests /\ RequestOK(q)
  BY DEF IInv, TypeOK
<1>2. q.row \in Row /\ RowConsistent(q.row)
  BY <1>1 DEF Requests, RequestOK, DataOK
<1>3. CASE q.stage = "read" /\ next # q.row.status
  <2>1. Enriched(r, live, current) = save
    BY <1>3 DEF Enriched
  <2>2. next \in {"pending_review", "invalidated", "no_conflict"}
    BY <1>3, NextStatusCases
  <2>3. Blank \in Forms /\ next \in Statuses
    BY <2>2, NormAssumption DEF Statuses
  <2> HIDE DEF next
  <2>4. new \in Row /\ RowConsistent(new)
    BY <1>2, <2>2, <2>3, RowTypes, RowsConsistent
  <2>5. new.status = next
    BY <1>2 DEF RevalidatedRow, Row
  <2> HIDE DEF new
  <2>6. save = [q EXCEPT !.pc = "save", !.stage = "read", !.live = live,
                         !.row = new]
    BY <1>1, <1>3 DEF Requests
  <2>7. save \in Requests /\ RequestOK(save)
    BY <2>2, <2>4, <2>5, <2>6, SaveNext
  <2> QED BY <2>1, <2>7
<1>4. CASE ~(q.stage = "read" /\ next # q.row.status)
           /\ (q.stage = "final" \/ q.kind = "get")
  BY <1>4, AnswerRowOK DEF Enriched
<1>5. CASE ~(q.stage = "read" /\ next # q.row.status)
           /\ ~(q.stage = "final" \/ q.kind = "get")
  BY <1>5, DecidedOK DEF Enriched
<1> QED BY <1>3, <1>4, <1>5

LEMMA ReadHitsKeeps ==
  ASSUME IInv, NEW r \in Slots, ReadHits(r)
  PROVE  IInv'
<1> DEFINE q    == req[r]
           live == LiveOf(q.row)
           next == [q EXCEPT !.pc = "current", !.live = live]
<1>1. q \in Requests /\ RequestOK(q) /\ q.pc = "hits"
  BY DEF IInv, TypeOK, ReadHits
<1>2. live \in SUBSET Snapshot /\ \A s \in live : Registered(s.party)
  BY LiveOK DEF LiveOf
<1> HIDE DEF live
<1>3. Goto(r, IF q.row.matched = {} THEN Enriched(r, live, {}) ELSE next)
  BY DEF ReadHits, live
<1>4. /\ next \in Requests /\ next.pc = "current" /\ next.live = live
      /\ next.kind = q.kind /\ next.on = q.on /\ next.row = q.row
      /\ next.clash = q.clash /\ next.outcome = q.outcome
  BY <1>1, <1>2 DEF Requests
<1> HIDE DEF next
<1>5. PlaceOK(next) /\ RetryOK(next)
  BY <1>1, <1>4 DEF RequestOK, PlaceOK, RetryOK
<1>6. DataOK(next)
  BY <1>1, <1>2, <1>4 DEF RequestOK, DataOK, Releasing
<1>7. RequestOK(next)
  BY <1>5, <1>6 DEF RequestOK
<1>8. CASE q.row.matched = {}
  BY <1>1, <1>2, <1>3, <1>8, EnrichedOK, ReadKeeps DEF ReadHits
<1>9. CASE q.row.matched # {}
  BY <1>3, <1>4, <1>7, <1>9, ReadKeeps DEF ReadHits
<1> QED BY <1>8, <1>9

LEMMA ReadCurrentKeeps ==
  ASSUME IInv, NEW r \in Slots, ReadCurrent(r)
  PROVE  IInv'
<1> DEFINE q    == req[r]
           next == Enriched(r, q.live, CurrentOf(q.row))
<1>1. /\ q.pc = "current" /\ q.live \in SUBSET Snapshot
      /\ \A s \in q.live : Registered(s.party)
  BY DEF IInv, TypeOK, ReadCurrent, RequestOK, DataOK, Requests
<1>2. next \in Requests /\ RequestOK(next)
  BY <1>1, EnrichedOK
<1> QED BY <1>2, ReadKeeps DEF ReadCurrent

-----------------------------------------------------------------------------
(* The request goes back to reading after the last write of a stage.       *)
LEMMA ReenrichOK ==
  ASSUME NEW q \in Requests, PlaceOK(q), RetryOK(q), q.on \in Keys,
         q.pc \in {"save", "unbind", "bind"}, RowConsistent(q.row),
         \A s \in q.live : Registered(s.party),
         q.row.status = "released" => Covered(q.on, q.row.matched)
  PROVE  Reenrich(q) \in Requests /\ RequestOK(Reenrich(q))
<1> DEFINE next == Reenrich(q)
<1>1. /\ next \in Requests /\ next.pc = "hits" /\ next.live = q.live
      /\ next.kind = q.kind /\ next.on = q.on /\ next.row = q.row
      /\ next.clash = q.clash /\ next.outcome = q.outcome
  BY DEF Reenrich, Requests
<1> HIDE DEF next
<1>2. PlaceOK(next) /\ RetryOK(next)
  BY <1>1 DEF PlaceOK, RetryOK
<1>3. DataOK(next)
  BY <1>1 DEF DataOK, Releasing
<1> QED BY <1>1, <1>2, <1>3 DEF RequestOK, next

(* Saved, a decision to release has approved what it shows. *)
LEMMA SaveRowKeeps ==
  ASSUME IInv, NEW r \in Slots, SaveRow(r)
  PROVE  IInv'
<1> DEFINE releasing == req[r].stage = "decide" /\ req[r].kind = "release"
           rejecting == req[r].stage = "decide" /\ req[r].kind = "reject"
<1>1. PICK q \in Requests : q = req[r] /\ RequestOK(q)
  BY DEF IInv, TypeOK
<1>2. q.pc = "save" /\ q.on \in Keys /\ PlaceOK(q) /\ RetryOK(q) /\ DataOK(q)
  BY <1>1 DEF SaveRow, RequestOK, PlaceOK
<1>3. /\ q.row \in Row /\ RowConsistent(q.row) /\ q.row.status # "absent"
      /\ \A s \in q.live : Registered(s.party)
      /\ q.row.matched \in SUBSET Snapshot
  BY <1>2 DEF Requests, DataOK, Row
<1>4. /\ checks' = [checks EXCEPT ![q.on] = q.row]
      /\ approvals' = [approvals EXCEPT ![q.on] =
                         IF releasing THEN @ \cup q.row.matched ELSE @]
      /\ UNCHANGED <<caseStatus, parties, bindings>>
      /\ Goto(r, IF rejecting THEN Reenrich(q) ELSE [q EXCEPT !.pc = "unbind"])
  BY <1>1 DEF SaveRow
<1>5. /\ approvals' \in [Keys -> SUBSET Snapshot]
      /\ \A l \in Keys : approvals[l] \subseteq approvals'[l]
      /\ releasing => q.row.matched \subseteq approvals'[q.on]
  BY <1>2, <1>3, <1>4 DEF IInv, TypeOK
<1>6. q.row.status = "released" => Covered(q.on, q.row.matched)'
  <2> HIDE DEF releasing
  <2>1. q.row.status = "released" => releasing \/ Covered(q.on, q.row.matched)
    BY <1>1, <1>2 DEF DataOK, Releasing, releasing
  <2> QED BY <1>2, <1>5, <2>1 DEF Covered
<1>7. PICK k \in Keys, row \in Row : k = q.on /\ row = q.row
  BY <1>2, <1>3
<1>8. /\ NothingTakenBack /\ checks' \in [Keys -> Row]
      /\ \A l \in Keys : KeyOK(l)'
  <2> HIDE DEF releasing
  <2>1. checks' = [checks EXCEPT ![k] = row] /\ UNCHANGED parties
    BY <1>4, <1>7
  <2> QED BY <1>3, <1>5, <1>6, <1>7, <2>1, RowWritten
<1>9. /\ PlaceOK(q)' /\ RetryOK(q)'
      /\ \A s \in q.live : Registered(s.party)'
  BY <1>1, <1>3, <1>8, RequestStays DEF RequestOK, NothingTakenBack, Requests, Snapshot
<1>10. PICK next \in Requests :
         /\ next = IF rejecting THEN Reenrich(q) ELSE [q EXCEPT !.pc = "unbind"]
         /\ next.pc \in {"hits", "unbind"} /\ next.live = q.live
         /\ next.kind = q.kind /\ next.on = q.on /\ next.row = q.row
         /\ next.clash = q.clash /\ next.outcome = q.outcome
  <2> DEFINE n == IF rejecting THEN Reenrich(q) ELSE [q EXCEPT !.pc = "unbind"]
  <2>1. /\ n \in Requests /\ n.pc \in {"hits", "unbind"} /\ n.live = q.live
        /\ n.kind = q.kind /\ n.on = q.on /\ n.row = q.row
        /\ n.clash = q.clash /\ n.outcome = q.outcome
    BY ZenonT(90) DEF Reenrich, Requests
  <2> QED BY <2>1
<1>11. PlaceOK(next)' /\ RetryOK(next)'
  BY <1>2, <1>9, <1>10 DEF PlaceOK, RetryOK
<1>12. DataOK(next)'
  BY <1>2, <1>3, <1>6, <1>9, <1>10 DEF DataOK, Releasing
<1>13. RequestOK(next)'
  BY <1>11, <1>12 DEF RequestOK
<1>14. Goto(r, next)
  BY <1>4, <1>10
<1> QED
  BY <1>4, <1>5, <1>8, <1>13, <1>14, StepKeeps DEF IInv, TypeOK, RegistryTypeOK

(* The links alone are written. *)
LEMMA LinksWritten ==
  ASSUME IInv, NEW r \in Slots, NEW next \in Requests, RequestOK(next),
         Goto(r, next), bindings' \in [Keys -> SUBSET Snapshot],
         UNCHANGED <<caseStatus, parties, checks, approvals>>
  PROVE  IInv'
<1>1. NothingTakenBack
  BY DEF NothingTakenBack, Stored, Registered
<1>2. RequestOK(next)'
  BY <1>1, RequestStays
<1>3. \A k \in Keys : KeyOK(k)'
  BY DEF IInv, KeyOK, Covered
<1> QED BY <1>1, <1>2, <1>3, StepKeeps DEF IInv, TypeOK, RegistryTypeOK

LEMMA ReplaceBindingsKeeps ==
  ASSUME IInv, NEW r \in Slots, DeleteBindings(r) \/ InsertBindings(r)
  PROVE  IInv'
<1> DEFINE q    == req[r]
           bind == [q EXCEPT !.pc = "bind"]
<1>1. /\ q \in Requests /\ RequestOK(q) /\ q.pc \in {"unbind", "bind"}
      /\ q.on \in Keys /\ q.live \in SUBSET Snapshot
  BY DEF IInv, TypeOK, DeleteBindings, InsertBindings, RequestOK, PlaceOK,
         Requests
<1>2. Reenrich(q) \in Requests /\ RequestOK(Reenrich(q))
  BY <1>1, ReenrichOK DEF RequestOK, DataOK, Releasing
<1>3. bindings \in [Keys -> SUBSET Snapshot]
  BY DEF IInv, TypeOK
<1>4. CASE DeleteBindings(r)
  <2>1. bind \in Requests /\ bind.pc = "bind" /\ bind.live = q.live
        /\ bind.kind = q.kind /\ bind.on = q.on /\ bind.row = q.row
        /\ bind.clash = q.clash /\ bind.outcome = q.outcome
    BY <1>1 DEF Requests
  <2> HIDE DEF bind
  <2>2. PlaceOK(bind) /\ RetryOK(bind)
    BY <1>1, <2>1 DEF RequestOK, PlaceOK, RetryOK
  <2>3. DataOK(bind)
    BY <1>1, <2>1 DEF RequestOK, DataOK, Releasing
  <2>4. RequestOK(bind)
    BY <2>2, <2>3 DEF RequestOK
  <2>5. bindings' \in [Keys -> SUBSET Snapshot]
    BY <1>3, <1>4 DEF DeleteBindings
  <2>6. Goto(r, IF q.live = {} THEN Reenrich(q) ELSE bind)
    BY <1>4 DEF DeleteBindings, bind
  <2>7. CASE q.live = {}
    BY <1>2, <1>4, <2>5, <2>6, <2>7, LinksWritten DEF DeleteBindings
  <2>8. CASE q.live # {}
    BY <1>4, <2>1, <2>4, <2>5, <2>6, <2>8, LinksWritten DEF DeleteBindings
  <2> QED BY <2>7, <2>8
<1>5. CASE InsertBindings(r)
  <2> DEFINE clash == SharesParty(q.live, bindings[q.on])
  <2>1. bindings' \in [Keys -> SUBSET Snapshot]
    BY <1>1, <1>3, <1>5 DEF InsertBindings
  <2>2. Goto(r, IF clash THEN Answer(r, "failed") ELSE Reenrich(q))
    BY <1>5 DEF InsertBindings
  <2>3. Answer(r, "failed") \in Requests /\ RequestOK(Answer(r, "failed"))
    BY AnswerOK
  <2> HIDE DEF clash
  <2>4. CASE clash
    BY <1>5, <2>1, <2>2, <2>3, <2>4, LinksWritten DEF InsertBindings
  <2>5. CASE ~clash
    BY <1>2, <1>5, <2>1, <2>2, <2>5, LinksWritten DEF InsertBindings
  <2> QED BY <2>4, <2>5
<1> QED BY <1>4, <1>5

-----------------------------------------------------------------------------
LEMMA FindPartyKeeps ==
  ASSUME IInv, NEW r \in Slots, FindParty(r)
  PROVE  IInv'
<1> DEFINE q    == req[r]
           next == [q EXCEPT !.pc = "write", !.party = parties[q.on]]
<1>1. /\ q \in Requests /\ RequestOK(q) /\ q.pc = "find" /\ q.kind = "update"
      /\ q.on \in Parties /\ Registered(q.on)
  BY DEF IInv, TypeOK, FindParty, RequestOK, PlaceOK
<1>2. parties[q.on] \in Party
  BY <1>1 DEF IInv, TypeOK, RegistryTypeOK
<1>3. /\ next \in Requests /\ next.pc = "write" /\ next.live = q.live
      /\ next.kind = q.kind /\ next.on = q.on /\ next.row = q.row
      /\ next.clash = q.clash /\ next.outcome = q.outcome
      /\ next.party = parties[q.on]
  BY <1>1, <1>2 DEF Requests
<1> HIDE DEF next
<1>4. PlaceOK(next) /\ RetryOK(next)
  BY <1>1, <1>3 DEF RequestOK, PlaceOK, RetryOK, Registered
<1>5. DataOK(next)
  BY <1>1, <1>3 DEF RequestOK, DataOK, Releasing
<1>6. RequestOK(next)
  BY <1>4, <1>5 DEF RequestOK
<1> QED BY <1>3, <1>6, ReadKeeps DEF FindParty, next

(* A party that stays registered is written, and with it the revocations.  *)
LEMMA PartyWritten ==
  ASSUME IInv, NEW r \in Slots, NEW next \in Requests, RequestOK(next),
         Goto(r, next), NEW p \in Parties, NEW party \in Party,
         party.version > 0, parties' = [parties EXCEPT ![p] = party],
         checks' = checks \/ checks' = Revoked(p),
         UNCHANGED <<caseStatus, bindings, approvals>>
  PROVE  IInv'
<1>1. RegistryTypeOK'
  BY DEF IInv, TypeOK, RegistryTypeOK
<1>2. \A k \in Keys :
        \/ checks'[k] = checks[k]
        \/ checks'[k] = [checks[k] EXCEPT !.status = "invalidated", !.reason = TRUE]
  BY DEF Revoked
<1>3. ASSUME NEW k \in Keys
      PROVE  checks'[k] \in Row /\ KeyOK(k)' /\ (Stored(k) => Stored(k)')
  <2>1. checks[k] \in Row /\ KeyOK(k)
    BY DEF IInv, TypeOK
  <2>2. CASE checks'[k] = checks[k]
    BY <2>1, <2>2 DEF KeyOK, Covered, Stored
  <2>3. CASE checks'[k] = [checks[k] EXCEPT !.status = "invalidated", !.reason = TRUE]
    <3>1. /\ checks'[k] \in Row /\ checks'[k].status = "invalidated"
          /\ checks'[k].reason
      BY <2>1, <2>3 DEF Row, Statuses
    <3> QED BY <3>1 DEF KeyOK, RowConsistent, Stored
  <2> QED BY <1>2, <2>2, <2>3
<1>4. checks' \in [Keys -> Row]
  <2>1. checks' = [k \in Keys |-> checks'[k]]
    BY DEF IInv, TypeOK, Revoked
  <2> QED BY <1>3, <2>1
<1>5. NothingTakenBack
  BY <1>3 DEF NothingTakenBack, Registered, IInv, TypeOK, RegistryTypeOK
<1>6. RequestOK(next)'
  BY <1>5, RequestStays
<1> QED BY <1>1, <1>3, <1>4, <1>5, <1>6, StepKeeps DEF IInv, TypeOK

LEMMA SavePartyKeeps ==
  ASSUME IInv, NEW r \in Slots, SaveParty(r) \/ SaveIdentity(r)
  PROVE  IInv'
<1> DEFINE q     == req[r]
           new   == WithIdentity(q.party, q.name, q.id)
           taken == IdentityTaken(q.on, new.case, new.side, new.name, new.id)
           saved == ~taken /\ q.party.version < MaxVersion
           next  == [new EXCEPT !.version = @ + 1]
<1>1. /\ q \in Requests /\ q.on \in Parties /\ q.party \in Party
      /\ q.party.version > 0
  BY DEF IInv, TypeOK, SaveParty, SaveIdentity, RequestOK, PlaceOK, Requests
<1>2. ASSUME NEW outcome \in {"saved", "failed"}
      PROVE  /\ Answer(r, outcome) \in Requests
             /\ RequestOK(Answer(r, outcome))
  BY AnswerOK
<1>3. CASE SaveParty(r)
  <2> DEFINE was == IdentityTaken(q.on, q.party.case, q.party.side,
                                  q.party.name, q.party.id)
  <2>1. /\ parties' = [parties EXCEPT ![q.on] = IF was THEN @ ELSE q.party]
        /\ Goto(r, Answer(r, IF was THEN "failed" ELSE "saved"))
        /\ UNCHANGED <<caseStatus, checks, bindings, approvals>>
    BY <1>3 DEF SaveParty
  <2> HIDE DEF was
  <2>2. CASE ~was
    <3>1. parties' = [parties EXCEPT ![q.on] = q.party] /\ Goto(r, Answer(r, "saved"))
      BY <2>1, <2>2
    <3> QED BY <1>1, <1>2, <2>1, <3>1, PartyWritten
  <2>3. CASE was
    <3>1. parties' = parties
      BY <2>1, <2>3 DEF IInv, TypeOK, RegistryTypeOK
    <3>2. Goto(r, Answer(r, "failed"))
      BY <2>1, <2>3
    <3> QED BY <1>2, <2>1, <3>1, <3>2, ReadKeeps
  <2> QED BY <2>2, <2>3
<1>4. CASE SaveIdentity(r)
  <2>1. next \in Party /\ next.version > 0
    <3>1. q.name \in Forms /\ q.id \in Forms
      BY <1>1 DEF Requests
    <3>2. new \in Party /\ new.version = q.party.version
      BY <1>1, <3>1 DEF WithIdentity, Kept, Party
    <3> HIDE DEF new
    <3> QED BY <1>1, <3>2 DEF Party
  <2>2. /\ parties' = [parties EXCEPT ![q.on] = IF saved THEN next ELSE @]
        /\ checks' = IF saved THEN Revoked(q.on) ELSE checks
        /\ Goto(r, Answer(r, IF saved THEN "saved" ELSE "failed"))
        /\ UNCHANGED <<caseStatus, bindings, approvals>>
    BY <1>4 DEF SaveIdentity
  <2> HIDE DEF saved, next
  <2>3. CASE saved
    <3>1. parties' = [parties EXCEPT ![q.on] = next] /\ checks' = Revoked(q.on)
          /\ Goto(r, Answer(r, "saved"))
      BY <2>2, <2>3
    <3> QED BY <1>1, <1>2, <2>1, <2>2, <3>1, PartyWritten
  <2>4. CASE ~saved
    <3>1. parties' = parties
      BY <2>2, <2>4 DEF IInv, TypeOK, RegistryTypeOK
    <3>2. Goto(r, Answer(r, "failed")) /\ checks' = checks
      BY <2>2, <2>4
    <3> QED BY <1>2, <2>2, <3>1, <3>2, ReadKeeps
  <2> QED BY <2>3, <2>4
<1> QED BY <1>3, <1>4

LEMMA RegistryStepKeeps ==
  ASSUME IInv, RegistryStep
  PROVE  IInv'
<1>1. RegistryTypeOK' /\ \A p \in Parties : Registered(p) => Registered(p)'
  <2>1. ASSUME NEW c \in Cases, NEW s \in CaseStatuses, ChangeCaseStatus(c, s)
        PROVE  RegistryTypeOK' /\ UNCHANGED parties
    BY <2>1 DEF ChangeCaseStatus, SetCaseStatus, IInv, TypeOK, RegistryTypeOK
  <2>2. ASSUME NEW p \in Parties, NEW c \in Cases, NEW s \in Sides,
               NEW i \in Identities, AddParty(p, c, s, i)
        PROVE  RegistryTypeOK' /\ \A q \in Parties : Registered(q) => Registered(q)'
    <3>1. Normalize(i[1]) \in Forms /\ Normalize(i[2]) \in Forms
      BY SpellingForms, ConcurrentAssumption
    <3>2. [case |-> c, side |-> s, name |-> Normalize(i[1]),
           id |-> Normalize(i[2]), version |-> 1] \in Party
      BY <3>1, RegistryAssumption DEF Party
    <3>3. /\ UNCHANGED caseStatus /\ ~Registered(p)
          /\ parties' = [parties EXCEPT ![p] =
                [case |-> c, side |-> s, name |-> Normalize(i[1]),
                 id |-> Normalize(i[2]), version |-> 1]]
      BY <2>2 DEF AddParty, InsertParty
    <3>4. parties' \in [Parties -> Party] /\ \A q \in Parties \ {p} : parties'[q] = parties[q]
      BY <3>2, <3>3 DEF IInv, TypeOK, RegistryTypeOK
    <3> QED BY <3>3, <3>4 DEF Registered, IInv, TypeOK, RegistryTypeOK
  <2> QED BY <2>1, <2>2 DEF RegistryStep, Registered
<1>2. UNCHANGED <<checks, bindings, req, approvals>>
  BY DEF RegistryStep, ChangeCaseStatus, AddParty
<1>3. NothingTakenBack
  BY <1>1, <1>2 DEF NothingTakenBack, Stored
<1>4. ASSUME NEW r \in Slots PROVE RequestOK(req[r])'
  <2>1. PICK q \in Requests : q = req[r] /\ RequestOK(q)
    BY DEF IInv, TypeOK
  <2>2. RequestOK(q)'
    BY <1>3, <2>1, RequestStays
  <2>3. req'[r] = q
    BY <1>2, <2>1
  <2> QED BY <2>2, <2>3 DEF RequestOK, PlaceOK, DataOK, RetryOK, Releasing, Covered,
                            Stored, Registered
<1>5. \A k \in Keys : KeyOK(k)'
  BY <1>2 DEF IInv, KeyOK, Covered
<1> QED BY <1>1, <1>2, <1>4, <1>5 DEF IInv, TypeOK

LEMMA RestartKeeps ==
  ASSUME IInv, Restart
  PROVE  IInv'
<1>1. UNCHANGED <<caseStatus, parties, checks, bindings, approvals>>
      /\ req' = [r \in Slots |-> Idle]
  BY DEF Restart
<1>2. NothingTakenBack
  BY <1>1 DEF NothingTakenBack, Stored, Registered
<1>3. PICK q \in Requests : q = Idle /\ RequestOK(q)
  BY IdleOK
<1>4. RequestOK(q)'
  BY <1>2, <1>3, RequestStays
<1>5. ASSUME NEW r \in Slots PROVE RequestOK(req[r])'
  <2>1. req'[r] = q
    BY <1>1, <1>3
  <2> QED BY <1>4, <2>1 DEF RequestOK, PlaceOK, DataOK, RetryOK, Releasing, Covered,
                            Stored, Registered
<1>6. \A k \in Keys : KeyOK(k)'
  BY <1>1 DEF IInv, KeyOK, Covered
<1>7. TypeOK'
  BY <1>1, IdleOK DEF IInv, TypeOK, RegistryTypeOK
<1> QED BY <1>5, <1>6, <1>7 DEF IInv

-----------------------------------------------------------------------------
LEMMA NextKeeps == IInv /\ [Next]_vars => IInv'
<1> SUFFICES ASSUME IInv, [Next]_vars PROVE IInv'
  OBVIOUS
<1>1. ASSUME NEW r \in Slots, Step(r) PROVE IInv'
  <2>1. CASE SubmitMatch(r)
    BY <2>1, SubmitMatchKeeps
  <2>2. CASE SubmitFind(r)
    BY <2>2, SubmitFindKeeps
  <2>3. CASE SubmitDuplicate(r)
    BY <2>3, SubmitDuplicateKeeps
  <2>4. CASE SubmitCommit(r)
    BY <2>4, SubmitCommitKeeps
  <2>5. CASE FindRow(r)
    BY <2>5, FindRowKeeps
  <2>6. CASE ReadHits(r)
    BY <2>6, ReadHitsKeeps
  <2>7. CASE ReadCurrent(r)
    BY <2>7, ReadCurrentKeeps
  <2>8. CASE SaveRow(r)
    BY <2>8, SaveRowKeeps
  <2>9. CASE DeleteBindings(r) \/ InsertBindings(r)
    BY <2>9, ReplaceBindingsKeeps
  <2>10. CASE FindParty(r)
    BY <2>10, FindPartyKeeps
  <2>11. CASE SaveParty(r) \/ SaveIdentity(r)
    BY <2>11, SavePartyKeeps
  <2> QED BY <1>1, <2>1, <2>2, <2>3, <2>4, <2>5, <2>6, <2>7, <2>8, <2>9, <2>10,
             <2>11 DEF Step
<1>2. ASSUME NEW r \in Slots, ClientStep(r) PROVE IInv'
  BY <1>2, ClientStepKeeps
<1>3. ASSUME NEW r \in Slots, StatementFails(r) PROVE IInv'
  BY <1>3, AnswerOK, ReadKeeps DEF StatementFails
<1>4. CASE RegistryStep
  BY <1>4, RegistryStepKeeps
<1>5. CASE Restart
  BY <1>5, RestartKeeps
<1>6. CASE UNCHANGED vars
  BY <1>6 DEF vars, IInv, TypeOK, RegistryTypeOK, KeyOK, RequestOK, PlaceOK,
              DataOK, RetryOK, Releasing, Covered, Stored, Registered
<1> QED BY <1>1, <1>2, <1>3, <1>4, <1>5, <1>6 DEF Next

LEMMA AlwaysIInv == Spec => []IInv
BY InitHolds, NextKeeps, PTL DEF Spec

(* Every reachable state of the tables and of the requests in flight is    *)
(* well typed (model/conflict_check.go, model/case_party.go).              *)
THEOREM TypeCorrect == Spec => []TypeOK
<1>1. IInv => TypeOK
  BY DEF IInv
<1> QED BY <1>1, AlwaysIInv, PTL

(* Whatever requests race, the columns of a conclusion agree with its      *)
(* status (conflict_check_repository.go, Save: every column at once).      *)
THEOREM RowsStayIntact == Spec => []RowIntegrity
<1>1. IInv => RowIntegrity
  BY DEF IInv, KeyOK, RowIntegrity
<1> QED BY <1>1, AlwaysIInv, PTL

(* A submission that loses the race for its key finds the row that won     *)
(* (conflict_service.go, Submit).                                          *)
THEOREM SubmissionsMeet == Spec => []SubmissionsConverge
<1>1. IInv => SubmissionsConverge
  BY DEF IInv, RequestOK, RetryOK, SubmissionsConverge
<1> QED BY <1>1, AlwaysIInv, PTL

-----------------------------------------------------------------------------
(* To say "proceed" of a row with hits is to have compared each party hit  *)
(* with a snapshot some release has approved.                              *)
LEMMA ProceedMeansApproved ==
  ASSUME IInv, NEW r \in Slots, req[r].pc \in {"hits", "current"},
         NEW live \in SUBSET Snapshot, NEW l \in live, Registered(l.party),
         CanProceed(req[r].row, live, CurrentOf(req[r].row)),
         IsOpenCase(caseStatus[parties[l.party].case])
  PROVE  ApprovedNow(req[r].on, l.party)
<1> DEFINE row == req[r].row
           c   == Candidate(l.party)
<1>1. row \in Row /\ DataOK(req[r])
  BY DEF IInv, TypeOK, RequestOK, Requests
<1>2. /\ row.status = "released" /\ row.matched # {} /\ ~HasNewHit(row, live)
      /\ StaleReason(row, live, CurrentOf(row)) = "fresh"
  BY DEF CanProceed
<1>3. PICK m \in row.matched : m.party = l.party
  BY <1>2 DEF HasNewHit
<1>4. c \in CurrentOf(row)
  BY <1>3 DEF CurrentOf, FindCandidatesByPartyIDs
<1>5. /\ c.party = l.party /\ IsOpenCase(c.case)
      /\ c.name = parties[l.party].name /\ c.id = parties[l.party].id
  BY DEF Candidate
<1> HIDE DEF c
<1>6. ~ProfileChanged(row, CurrentOf(row))
  BY <1>2 DEF StaleReason
<1>7. ~SnapshotStale(m, c)
  BY <1>3, <1>4, <1>5, <1>6 DEF ProfileChanged
<1>8. m.fp = Fingerprint(parties[l.party].name, parties[l.party].id)
  BY <1>5, <1>7 DEF SnapshotStale
<1>9. Covered(req[r].on, row.matched)
  BY <1>1, <1>2 DEF DataOK, Releasing
<1> QED BY <1>3, <1>8, <1>9 DEF Covered, ApprovedNow

LEMMA EnrichedProceeds ==
  ASSUME NEW r \in Slots, req[r] \in Requests, NEW live, NEW current,
         Enriched(r, live, current).proceed, ~req[r].proceed
  PROVE  /\ CanProceed(req[r].row, live, current)
         /\ Enriched(r, live, current).live = live
         /\ Enriched(r, live, current).pc = "done"
<1> DEFINE q == req[r]
<1>1. \A outcome : ~Answer(r, outcome).proceed
  BY DEF Answer, Idle
<1>2. /\ AnswerRow(r, q.row, live, current).live = live
      /\ AnswerRow(r, q.row, live, current).pc = "done"
      /\ AnswerRow(r, q.row, live, current).proceed
           <=> CanProceed(q.row, live, current)
  BY DEF AnswerRow, Answer, Idle
<1>3. \A row : ~[q EXCEPT !.pc = "save", !.live = live, !.row = row].proceed
  BY DEF Requests
<1>4. \A row : ~[q EXCEPT !.pc = "save", !.stage = "decide", !.live = live,
                        !.row = row].proceed
  BY DEF Requests
<1>5. Enriched(r, live, current) = AnswerRow(r, q.row, live, current)
  BY <1>1, <1>3, <1>4 DEF Enriched, Decided
<1> QED BY <1>2, <1>5

(* No other step says "proceed". *)
LEMMA OnlyReadsProceed ==
  ASSUME IInv, [Next]_vars, NEW r \in Slots, req'[r].proceed, ~req[r].proceed
  PROVE  ReadHits(r) \/ ReadCurrent(r)
<1>1. req \in [Slots -> Requests] /\ ~Idle.proceed
  BY DEF IInv, TypeOK, Idle
<1>2. ASSUME NEW s \in Slots, NEW next, Goto(s, next), ~next.proceed \/ s # r
      PROVE  FALSE
  BY <1>1, <1>2 DEF Goto
<1>3. ASSUME NEW s \in Slots PROVE \A outcome : ~Answer(s, outcome).proceed
  BY DEF Answer, Idle
<1>4. req[r] \in Requests
  BY <1>1
<1>5. PICK s \in Slots : Step(s) \/ ClientStep(s) \/ StatementFails(s)
  <2>1. ~Restart /\ ~UNCHANGED vars /\ ~RegistryStep
    BY <1>1 DEF Restart, vars, RegistryStep, ChangeCaseStatus, AddParty
  <2> QED BY <2>1 DEF Next
<1>6. CASE StatementFails(s)
  BY SMTT(40), <1>2, <1>3, <1>6 DEF StatementFails
<1>7. CASE ClientStep(s)
  <2>1. \A pc, kind, on, name, id :
          ~[Idle EXCEPT !.pc = pc, !.kind = kind, !.on = on,
                        !.name = name, !.id = id].proceed
    BY DEF Idle
  <2> QED BY ZenonT(60), <1>1, <1>2, <1>7, <2>1
          DEF ClientStep, BeginSubmit, BeginOnRow, BeginUpdate, Begin, Received
<1>8. CASE Step(s)
  <2>1. CASE s # r
    <3>1. PICK next : Goto(s, next)
      BY <1>8
      DEF Step, SubmitMatch, SubmitFind, SubmitDuplicate, SubmitCommit, FindRow,
          ReadHits, ReadCurrent, SaveRow, DeleteBindings, InsertBindings,
          FindParty, SaveParty, SaveIdentity
    <3> QED BY <1>2, <2>1, <3>1
  <2>2. CASE s = r
    <3> DEFINE q == req[r]
    <3>1. \A next : Goto(r, next) => next.proceed
      BY <1>2
    <3>2. ~SubmitMatch(r)
      <4>1. \A live : ~[q EXCEPT !.pc = "find", !.live = live].proceed
        BY <1>4 DEF Requests
      <4> QED BY <3>1, <4>1 DEF SubmitMatch
    <3>3. ~SubmitFind(r)
      <4>1. \A pc, row : ~[q EXCEPT !.pc = pc, !.row = row].proceed
        BY <1>4 DEF Requests
      <4> QED BY <1>3, <3>1, <4>1 DEF SubmitFind
    <3>4. ~SubmitDuplicate(r)
      <4>1. \A attempt, clash :
              ~[q EXCEPT !.pc = "match", !.attempt = attempt, !.row = NoRow,
                         !.live = {}, !.clash = clash].proceed
        BY <1>4 DEF Requests
      <4> QED BY <1>3, <3>1, <4>1 DEF SubmitDuplicate
    <3>5. ~SubmitCommit(r)
      <4>1. ~[q EXCEPT !.pc = "hits", !.stage = "final"].proceed
        BY <1>4 DEF Requests
      <4> QED BY <3>1, <4>1 DEF SubmitCommit
    <3>6. ~FindRow(r)
      <4>1. \A row, stage :
              ~[q EXCEPT !.pc = "hits", !.row = row, !.stage = stage].proceed
        BY <1>4 DEF Requests
      <4> QED BY <3>1, <4>1 DEF FindRow
    <3>7. ~Reenrich(q).proceed
      BY <1>4 DEF Reenrich, Requests
    <3>8. ~SaveRow(r)
      BY <1>4, <3>1, <3>7 DEF SaveRow, Requests
    <3>9. ~DeleteBindings(r)
      BY <1>4, <3>1, <3>7 DEF DeleteBindings, Requests
    <3>10. ~InsertBindings(r)
      BY <1>3, <3>1, <3>7 DEF InsertBindings
    <3>11. ~FindParty(r)
      <4>1. \A party : ~[q EXCEPT !.pc = "write", !.party = party].proceed
        BY <1>4 DEF Requests
      <4> QED BY <3>1, <4>1 DEF FindParty
    <3>12. ~SaveParty(r) /\ ~SaveIdentity(r)
      BY <1>3, <3>1 DEF SaveParty, SaveIdentity
    <3> QED BY <1>8, <2>2, <3>2, <3>3, <3>4, <3>5, <3>6, <3>8, <3>9, <3>10, <3>11,
               <3>12 DEF Step
  <2> QED BY <2>1, <2>2
<1> QED BY <1>5, <1>6, <1>7, <1>8

(* However requests race, an answer that says "can proceed" is given only  *)
(* when every opponent it shows in an open case has an identity that a     *)
(* release of this matter approved (conflict_service.go, enrich).          *)
THEOREM AnswersWereApproved == Spec => ProceedAnswersWereApproved
<1> DEFINE Approved ==
      \A r \in Slots : \A l \in req'[r].live :
       /\ req'[r].proceed
       /\ ~req[r].proceed
       /\ IsOpenCase(caseStatus[parties[l.party].case])
       => ApprovedNow(req[r].on, l.party)
<1>1. IInv /\ [Next]_vars => [Approved]_vars
  <2> SUFFICES ASSUME IInv, [Next]_vars, NEW r \in Slots, NEW l \in req'[r].live,
                      req'[r].proceed, ~req[r].proceed,
                      IsOpenCase(caseStatus[parties[l.party].case])
               PROVE  ApprovedNow(req[r].on, l.party)
    OBVIOUS
  <2> DEFINE q == req[r]
  <2>1. q \in Requests /\ DataOK(q) /\ req \in [Slots -> Requests]
    BY DEF IInv, TypeOK, RequestOK
  <2>2. CASE ReadHits(r)
    <3> DEFINE live == LiveOf(q.row)
    <3>1. q.row.matched = {}
      <4>1. q.row.matched # {} => req'[r] = [q EXCEPT !.pc = "current", !.live = live]
        BY <2>1, <2>2 DEF ReadHits, Goto
      <4>2. ~[q EXCEPT !.pc = "current", !.live = live].proceed
        BY <2>1 DEF Requests
      <4> QED BY <4>1, <4>2
    <3>2. req'[r] = Enriched(r, live, {})
      BY <2>1, <2>2, <3>1 DEF ReadHits, Goto
    <3>3. CanProceed(q.row, live, {}) /\ l \in live
      BY <2>1, <3>2, EnrichedProceeds
    <3> QED BY <3>1, <3>3 DEF CanProceed
  <2>3. CASE ReadCurrent(r)
    <3> DEFINE current == CurrentOf(q.row)
    <3>1. req'[r] = Enriched(r, q.live, current) /\ q.pc = "current"
      BY <2>1, <2>3 DEF ReadCurrent, Goto
    <3>2. CanProceed(q.row, q.live, current) /\ l \in q.live
      BY <2>1, <3>1, EnrichedProceeds
    <3>3. q.live \in SUBSET Snapshot /\ Registered(l.party)
      BY <2>1, <3>2 DEF Requests, DataOK
    <3> QED BY <3>1, <3>2, <3>3, ProceedMeansApproved
  <2> QED BY <2>2, <2>3, OnlyReadsProceed
<1> QED BY <1>1, AlwaysIInv, PTL DEF Spec, ProceedAnswersWereApproved
=============================================================================
