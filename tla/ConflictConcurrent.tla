-------------------------- MODULE ConflictConcurrent ------------------------
(***************************************************************************)
(* The handlers of the conflict check and of case parties, statement by    *)
(* statement, several requests at a time.                                  *)
(*                                                                         *)
(* A request in flight keeps what its handler has read: the row, the live  *)
(* hits, the party record.  A step is one database statement together with *)
(* the local code up to the next one.  The database is PostgreSQL at READ  *)
(* COMMITTED: a statement is atomic and sees committed data only, and the  *)
(* writes of a transaction appear together when it commits.  Two handlers  *)
(* have a transaction, Submit (upsert) and Update of a party's identity;   *)
(* reading back and deciding write with separate statements, and no row is *)
(* locked between a read and the write that follows from it.               *)
(***************************************************************************)
EXTENDS CaseParties

CONSTANTS Keys,          \* case keys of new matters
          Slots,         \* requests that can be in flight at once
          Opponents,     \* <<name, ID>> spellings submissions carry
          Identities,    \* <<name, ID>> spellings parties are registered with
          Updates,       \* <<name, ID>> spellings updates carry
          Kinds,         \* the kinds of request clients send
          CheckNoClash,  \* whether a generated check number may be taken
          Nothing,       \* no key, no party
          MaxVersion     \* bound: versions a party goes through

MaxAttempts == 3

ASSUME ConcurrentAssumption ==
  /\ Opponents \subseteq Spellings \X Spellings
  /\ Identities \subseteq Spellings \X Spellings
  /\ Updates \subseteq Spellings \X Spellings
  /\ Kinds \subseteq {"submit", "get", "list", "release", "reject", "update"}
  /\ CheckNoClash \in BOOLEAN
  /\ Nothing \notin Keys \cup Parties
  /\ MaxVersion \in Nat \ {0}

VARIABLES checks,    \* Keys -> row of conflict_checks
          bindings,  \* Keys -> rows of conflict_check_parties
          req,       \* Slots -> the request a slot is busy with
          approvals  \* history: Keys -> snapshots ever released

vars == <<caseStatus, parties, checks, bindings, req, approvals>>

(***************************************************************************)
(* pc: the next statement of a request.                                    *)
(*   match, find             the reads of Submit's transaction             *)
(*   insert, update          its writes, up to the commit                  *)
(*   find                    the row or party the request is about         *)
(*   write                   Save of a party, or the transaction around it *)
(*   hits, current           the two reads of enrich                       *)
(*   save, unbind, bind      Save, then the two statements of              *)
(*                           ReplaceBindings                               *)
(* stage: which enrich, or whose save, it is.                              *)
(*   read     enrich and save of revalidate                                *)
(*   reread   enrich after that save                                       *)
(*   decide   save of an administrator's decision                          *)
(*   final    enrich of the row the answer shows, all there is of List     *)
(***************************************************************************)
Idle ==
  [pc |-> "idle", kind |-> "none", on |-> Nothing, stage |-> "read",
   name |-> Blank, id |-> Blank, row |-> NoRow, live |-> {},
   party |-> Unregistered, attempt |-> 1, clash |-> FALSE,
   outcome |-> "none", proceed |-> FALSE]

Requests ==
  [pc : {"idle", "match", "find", "insert", "update", "write", "hits",
         "current", "save", "unbind", "bind", "done"},
   kind : Kinds \cup {"none"}, on : Keys \cup Parties \cup {Nothing},
   stage : {"read", "reread", "decide", "final"},
   name : Forms, id : Forms, row : Row, live : SUBSET Snapshot,
   party : Party, attempt : 1..MaxAttempts, clash : BOOLEAN,
   outcome : {"none", "row", "saved", "refused", "not_found", "retry",
              "failed"},
   proceed : BOOLEAN]

InFlight(r) == req[r].pc \notin {"idle", "done"}

(* The answered request: only what the client sees is kept. *)
Answer(r, outcome) ==
  [Idle EXCEPT !.pc = "done", !.kind = req[r].kind, !.on = req[r].on,
               !.clash = req[r].clash, !.outcome = outcome]

AnswerRow(r, row, live, current) ==
  [Answer(r, "row") EXCEPT !.live = live,
                           !.proceed = CanProceed(row, live, current)]

Goto(r, next) == req' = [req EXCEPT ![r] = next]

-----------------------------------------------------------------------------
(* A quiescent database: cases filed, some opponents registered. *)
Init ==
  /\ caseStatus = [c \in Cases |-> "filed"]
  /\ \E start \in [Parties -> {Unregistered} \cup
             {[case |-> c, side |-> "opposing", name |-> Normalize(i[1]),
               id |-> Normalize(i[2]), version |-> 1] :
                c \in Cases, i \in Identities}] :
       /\ parties = start
       /\ \A p, q \in Parties :
            /\ start[p] = start[q]
            /\ start[p] # Unregistered
            => p = q
  /\ checks = [k \in Keys |-> NoRow]
  /\ bindings = [k \in Keys |-> {}]
  /\ req = [r \in Slots |-> Idle]
  /\ approvals = [k \in Keys |-> {}]

(* The registry's one-statement writes. *)
ChangeCaseStatus(c, s) ==
  /\ SetCaseStatus(c, s)
  /\ caseStatus[c] # s
  /\ UNCHANGED <<checks, bindings, req, approvals>>

AddParty(p, c, s, i) ==
  /\ InsertParty(p, c, s, Normalize(i[1]), Normalize(i[2]))
  /\ UNCHANGED <<checks, bindings, req, approvals>>

(* A client sends a request. *)
Begin(r, kind, on, name, id, pc) ==
  /\ req[r].pc = "idle"
  /\ kind \in Kinds
  /\ Goto(r, [Idle EXCEPT !.pc = pc, !.kind = kind, !.on = on,
                          !.name = name, !.id = id])
  /\ UNCHANGED <<caseStatus, parties, checks, bindings, approvals>>

BeginSubmit(r, k, o) ==
  /\ Normalize(o[1]) # Blank
  /\ Begin(r, "submit", k, Normalize(o[1]), Normalize(o[2]), "match")

(* About a row, once it has an id to name it by. *)
BeginOnRow(r, kind, k) ==
  /\ checks[k].status # "absent"
  /\ Begin(r, kind, k, Blank, Blank, "find")

(* Blank name and ID: only the contact or role of the party changes. *)
BeginUpdate(r, p, u) ==
  /\ Registered(p)
  /\ Begin(r, "update", p, Normalize(u[1]), Normalize(u[2]), "find")

-----------------------------------------------------------------------------
(* Submit.  upsert reads the candidates, then the row of the case key.     *)
SubmitMatch(r) ==
  /\ req[r].pc = "match"
  /\ Goto(r, [req[r] EXCEPT !.pc = "find",
                            !.live = Live(req[r].name, req[r].id)])
  /\ UNCHANGED <<caseStatus, parties, checks, bindings, approvals>>

(* Wrong on purpose: the first attempt too expects a row. *)
AlwaysExisting(attempt) == attempt >= 1

(* After a unique violation the row must be there: none is inserted again. *)
ForceExisting(attempt) == attempt > 1

SubmitFind(r) ==
  LET q == req[r]  existing == checks[q.on]
  IN /\ q.pc = "find" /\ q.kind = "submit"
     /\ Goto(r,
          IF existing.status # "absent"
          THEN [q EXCEPT !.pc = "update",
                         !.row = ResubmittedRow(existing, q.name, q.id, q.live)]
          ELSE IF ForceExisting(q.attempt) THEN Answer(r, "not_found")
               ELSE [q EXCEPT !.pc = "insert",
                              !.row = FreshRow(q.name, q.id, q.live)])
     /\ UNCHANGED <<caseStatus, parties, checks, bindings, approvals>>

SharesParty(snaps, links) == \E s \in snaps, l \in links : s.party = l.party

(* Another handler between its two ReplaceBindings statements may insert   *)
(* its links after this transaction's DELETE and before its INSERT.        *)
Rebinding(r) ==
  \E s \in Slots \ {r} : /\ req[s].pc = "bind"
                         /\ req[s].on = req[r].on
                         /\ SharesParty(req[s].live, req[r].live)

(* Wrong on purpose: the attempts are not counted. *)
SameAttempt(attempt) == attempt

NextAttempt(attempt) == attempt + 1

(* A unique violation (case_key, check_no or idx_check_party) rolls the    *)
(* transaction back; Submit tries again, three times in all.               *)
SubmitDuplicate(r) ==
  LET q == req[r]
      keyTaken  == q.pc = "insert" /\ checks[q.on].status # "absent"
      linkTaken == q.pc = "update" /\ Rebinding(r)
      noTaken   == q.pc = "insert" /\ ~keyTaken /\ CheckNoClash
  IN /\ keyTaken \/ linkTaken \/ noTaken
     /\ Goto(r, IF q.attempt = MaxAttempts THEN Answer(r, "retry")
                ELSE [q EXCEPT !.pc = "match",
                               !.attempt = NextAttempt(@),
                               !.row = NoRow, !.live = {},
                               !.clash = @ \/ noTaken])
     /\ UNCHANGED <<caseStatus, parties, checks, bindings, approvals>>

(* Committed: the whole row as computed from what was read, and its links. *)
SubmitCommit(r) ==
  LET q == req[r]
  IN /\ \/ q.pc = "update"
        \/ q.pc = "insert" /\ checks[q.on].status = "absent"
     /\ checks' = [checks EXCEPT ![q.on] = q.row]
     /\ bindings' = [bindings EXCEPT ![q.on] = q.live]
     /\ Goto(r, [q EXCEPT !.pc = "hits", !.stage = "final"])
     /\ UNCHANGED <<caseStatus, parties, approvals>>

-----------------------------------------------------------------------------
(* Get, Release, Reject: FindByID.  List shows the row as it is stored.    *)
FindRow(r) ==
  /\ req[r].pc = "find" /\ req[r].kind \notin {"submit", "update"}
  /\ Goto(r, [req[r] EXCEPT !.pc = "hits", !.row = checks[req[r].on],
                            !.stage = IF req[r].kind = "list" THEN "final"
                                      ELSE "read"])
  /\ UNCHANGED <<caseStatus, parties, checks, bindings, approvals>>

(* What decide does with the row once it is read back. *)
Decided(r, row, live, current) ==
  LET q == req[r]
      target == IF q.kind = "release" THEN "released" ELSE "rejected"
  IN IF row.status = target THEN AnswerRow(r, row, live, current)
     ELSE IF ~CanDecide(row.status) \/ (q.kind = "release" /\ live = {})
          THEN Answer(r, "refused")
          ELSE [q EXCEPT !.pc = "save", !.stage = "decide", !.live = live,
                         !.row = IF q.kind = "release"
                                 THEN ReleasedRow(row, live)
                                 ELSE RejectedRow(row)]

(* What follows an enrich with these reads, by the stage it ends. *)
Enriched(r, live, current) ==
  LET q    == req[r]
      next == NextStatus(q.row, live, current)
  IN IF q.stage = "read" /\ next # q.row.status
     THEN [q EXCEPT !.pc = "save", !.live = live,
                    !.row = RevalidatedRow(q.row, live, next)]
     ELSE IF q.stage = "final" \/ q.kind = "get"
          THEN AnswerRow(r, q.row, live, current)
          ELSE Decided(r, q.row, live, current)

(* First read of enrich; a row that matched nothing needs no second one. *)
ReadHits(r) ==
  LET q == req[r]  live == LiveOf(q.row)
  IN /\ q.pc = "hits"
     /\ Goto(r, IF q.row.matched = {} THEN Enriched(r, live, {})
                ELSE [q EXCEPT !.pc = "current", !.live = live])
     /\ UNCHANGED <<caseStatus, parties, checks, bindings, approvals>>

ReadCurrent(r) ==
  /\ req[r].pc = "current"
  /\ Goto(r, Enriched(r, req[r].live, CurrentOf(req[r].row)))
  /\ UNCHANGED <<caseStatus, parties, checks, bindings, approvals>>

(* After the last write of a stage the row is enriched again. *)
Reenrich(q) ==
  [q EXCEPT !.pc = "hits",
            !.stage = IF q.stage = "decide" THEN "final" ELSE "reread"]

(* Wrong on purpose: an UPDATE of the status and review columns only. *)
SaveReview(r) ==
  LET q == req[r]
      releasing == q.stage = "decide" /\ q.kind = "release"
  IN /\ q.pc = "save"
     /\ checks' = [checks EXCEPT ![q.on] =
                     [q.row EXCEPT !.matched = checks[q.on].matched,
                                   !.bound = checks[q.on].bound]]
     /\ Goto(r, IF q.stage = "decide" /\ q.kind = "reject" THEN Reenrich(q)
                ELSE [q EXCEPT !.pc = "unbind"])
     /\ approvals' = [approvals EXCEPT ![q.on] =
                        IF releasing THEN @ \cup q.row.matched ELSE @]
     /\ UNCHANGED <<caseStatus, parties, bindings>>

(* Save: an UPDATE of every column, by id, whatever the row is by now. *)
SaveRow(r) ==
  LET q == req[r]
      releasing == q.stage = "decide" /\ q.kind = "release"
  IN /\ q.pc = "save"
     /\ checks' = [checks EXCEPT ![q.on] = q.row]
     /\ Goto(r, IF q.stage = "decide" /\ q.kind = "reject" THEN Reenrich(q)
                ELSE [q EXCEPT !.pc = "unbind"])
     /\ approvals' = [approvals EXCEPT ![q.on] =
                        IF releasing THEN @ \cup q.row.matched ELSE @]
     /\ UNCHANGED <<caseStatus, parties, bindings>>

DeleteBindings(r) ==
  LET q == req[r]
  IN /\ q.pc = "unbind"
     /\ bindings' = [bindings EXCEPT ![q.on] = {}]
     /\ Goto(r, IF q.live = {} THEN Reenrich(q) ELSE [q EXCEPT !.pc = "bind"])
     /\ UNCHANGED <<caseStatus, parties, checks, approvals>>

(* A link another handler has put there meanwhile makes the INSERT fail.   *)
InsertBindings(r) ==
  LET q == req[r]
      clash == SharesParty(q.live, bindings[q.on])
  IN /\ q.pc = "bind"
     /\ bindings' = [bindings EXCEPT ![q.on] =
                       IF clash THEN @ ELSE @ \cup q.live]
     /\ Goto(r, IF clash THEN Answer(r, "failed") ELSE Reenrich(q))
     /\ UNCHANGED <<caseStatus, parties, checks, approvals>>

-----------------------------------------------------------------------------
(* Update of a party: FindByID. *)
FindParty(r) ==
  LET q == req[r]
  IN /\ q.pc = "find" /\ q.kind = "update"
     /\ Goto(r, [q EXCEPT !.pc = "write", !.party = parties[q.on]])
     /\ UNCHANGED <<caseStatus, parties, checks, bindings, approvals>>

(* Wrong on purpose: a status the table does not know. *)
RevokedMisspelt(p) ==
  [k \in Keys |->
     IF /\ checks[k].status = "released"
        /\ \E b \in bindings[k] : b.party = p
     THEN [checks[k] EXCEPT !.status = "invalid", !.reason = TRUE]
     ELSE checks[k]]

(* The released conclusions linked to party p, revoked. *)
Revoked(p) ==
  [k \in Keys |->
     IF /\ checks[k].status = "released"
        /\ \E b \in bindings[k] : b.party = p
     THEN [checks[k] EXCEPT !.status = "invalidated", !.reason = TRUE]
     ELSE checks[k]]

(* Save writes every column of the record read before, its version and its *)
(* identity too, which another party may have taken since.                 *)
SaveParty(r) ==
  LET q     == req[r]
      taken == IdentityTaken(q.on, q.party.case, q.party.side, q.party.name,
                             q.party.id)
  IN /\ q.pc = "write"
     /\ WithIdentity(q.party, q.name, q.id) = q.party
     /\ parties' = [parties EXCEPT ![q.on] = IF taken THEN @ ELSE q.party]
     /\ Goto(r, Answer(r, IF taken THEN "failed" ELSE "saved"))
     /\ UNCHANGED <<caseStatus, checks, bindings, approvals>>

(* Identity change: Save, BumpVersion on top of the version saved, and the *)
(* revocations commit together; a taken identity rolls all of it back.     *)
(* At MaxVersion the change is not followed further.                       *)
SaveIdentity(r) ==
  LET q     == req[r]
      new   == WithIdentity(q.party, q.name, q.id)
      taken == IdentityTaken(q.on, new.case, new.side, new.name, new.id)
      saved == ~taken /\ q.party.version < MaxVersion
  IN /\ q.pc = "write"
     /\ new # q.party
     /\ parties' = [parties EXCEPT ![q.on] =
          IF saved THEN [new EXCEPT !.version = @ + 1] ELSE @]
     /\ checks' = IF saved THEN Revoked(q.on) ELSE checks
     /\ Goto(r, Answer(r, IF saved THEN "saved" ELSE "failed"))
     /\ UNCHANGED <<caseStatus, bindings, approvals>>

-----------------------------------------------------------------------------
(* A statement fails: the handler answers with an error where it stands,   *)
(* what it has committed stays.                                            *)
StatementFails(r) ==
  /\ InFlight(r)
  /\ Goto(r, Answer(r, "failed"))
  /\ UNCHANGED <<caseStatus, parties, checks, bindings, approvals>>

(* The process stops and comes back: no request in flight is answered.     *)
Restart ==
  /\ \E r \in Slots : req[r].pc # "idle"
  /\ req' = [r \in Slots |-> Idle]
  /\ UNCHANGED <<caseStatus, parties, checks, bindings, approvals>>

Received(r) ==
  /\ req[r].pc = "done"
  /\ Goto(r, Idle)
  /\ UNCHANGED <<caseStatus, parties, checks, bindings, approvals>>

(* The next statement of the request in slot r. *)
Step(r) ==
  \/ SubmitMatch(r)
  \/ SubmitFind(r)
  \/ SubmitDuplicate(r)
  \/ SubmitCommit(r)
  \/ FindRow(r)
  \/ ReadHits(r)
  \/ ReadCurrent(r)
  \/ SaveRow(r)
  \/ DeleteBindings(r)
  \/ InsertBindings(r)
  \/ FindParty(r)
  \/ SaveParty(r)
  \/ SaveIdentity(r)

ClientStep(r) ==
  \/ \E k \in Keys, o \in Opponents : BeginSubmit(r, k, o)
  \/ \E k \in Keys, kind \in {"get", "list", "release", "reject"} :
       BeginOnRow(r, kind, k)
  \/ \E p \in Parties, u \in Updates : BeginUpdate(r, p, u)
  \/ Received(r)

RegistryStep ==
  \/ \E c \in Cases, s \in CaseStatuses : ChangeCaseStatus(c, s)
  \/ \E p \in Parties, c \in Cases, s \in Sides, i \in Identities :
       AddParty(p, c, s, i)

Next ==
  \/ \E r \in Slots : Step(r) \/ ClientStep(r) \/ StatementFails(r)
  \/ RegistryStep
  \/ Restart

Spec == Init /\ [][Next]_vars

(* A handler that can go on does: its goroutine is scheduled and the       *)
(* database answers.                                                       *)
FairSpec == Spec /\ \A r \in Slots : WF_vars(Step(r))

-----------------------------------------------------------------------------
(***************************************************************************)
(* What holds whatever the interleaving.                                   *)
(***************************************************************************)

(* Columns, and what requests in flight hold of them, have their types     *)
(* (model/conflict_check.go, model/case_party.go).                         *)
TypeOK ==
  /\ RegistryTypeOK
  /\ checks \in [Keys -> Row]
  /\ bindings \in [Keys -> SUBSET Snapshot]
  /\ req \in [Slots -> Requests]
  /\ approvals \in [Keys -> SUBSET Snapshot]

(* Since every write of a conclusion is of the whole row,    *)
(* stale or not, races never mix the columns of two outcomes.              *)
RowIntegrity == \A k \in Keys : RowConsistent(checks[k])

(* An answer that says "can proceed" and shows opponents is given only     *)
(* when each of them still in an open case has, at that moment, an         *)
(* identity an administrator released this matter for - even when a race   *)
(* has lost a revocation or rolled a party's version back                  *)
(* (conflict_service.go, enrich: the second read and its comparison).      *)
ApprovedNow(k, p) ==
  \E a \in approvals[k] :
     /\ a.party = p
     /\ a.fp = Fingerprint(parties[p].name, parties[p].id)

ProceedAnswersWereApproved ==
  [][\A r \in Slots : \A l \in req'[r].live :
       /\ req'[r].proceed
       /\ ~req[r].proceed
       /\ IsOpenCase(caseStatus[parties[l.party].case])
       => ApprovedNow(req[r].on, l.party)]_vars

(* Concurrent submissions of one case key converge on its row: a client is *)
(* told the conclusion does not exist only after a clash of check numbers  *)
(* (conflict_service.go, Submit: the loser of the insert reads back).      *)
SubmissionsConverge ==
  \A r \in Slots :
    req[r].kind = "submit" /\ req[r].outcome = "not_found" => req[r].clash

(* Every request is answered, or lost in a restart: the retries of Submit  *)
(* end, and no handler waits for another.                                  *)
RequestsEnd == \A r \in Slots : InFlight(r) ~> ~InFlight(r)

-----------------------------------------------------------------------------
(***************************************************************************)
(* What the code says of itself and interleaving breaks.                   *)
(***************************************************************************)

(* A rejected conclusion stays rejected (core.go, CollapseStatus). *)
RejectedIsFinal ==
  [][\A k \in Keys :
       checks[k].status = "rejected" => checks'[k].status = "rejected"]_vars

(* Each change of a party's identity advances its version                  *)
(* (model/case_party.go, Version).                                         *)
IdentityChangeAdvancesVersion ==
  [][\A p \in Parties :
       Registered(p) /\ <<parties'[p].name, parties'[p].id>> #
                         <<parties[p].name, parties[p].id>>
       => parties'[p].version > parties[p].version]_vars

(* A change of a party's identity revokes, in the same step, every release *)
(* bound to it (case_party_service.go, Update).                            *)
IdentityChangeRevokes ==
  [][\A p \in Parties :
       Registered(p) /\ <<parties'[p].name, parties'[p].id>> #
                         <<parties[p].name, parties[p].id>>
       => \A k \in Keys :
            /\ checks[k].status = "released"
            /\ \E m \in checks[k].matched : m.party = p
            => checks'[k].status # "released"]_vars

(* With no request in flight the links of a conclusion are those of its    *)
(* snapshots (conflict_check_repository.go, ReplaceBindings: called in a   *)
(* transaction).                                                           *)
LinksMatchSnapshots ==
  (\A r \in Slots : ~InFlight(r)) =>
    \A k \in Keys : bindings[k] = checks[k].matched
=============================================================================
