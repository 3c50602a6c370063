--------------------------- MODULE OneAtATimeProofs --------------------------
(***************************************************************************)
(* Requests that do not overlap: the statements of ConflictConcurrent do   *)
(* what the handlers of ConflictService do, and so the answers are as good *)
(* as that module's.                                                       *)
(*                                                                         *)
(* The argument: at each statement the tables are those the request found, *)
(* but for the row and the links of its key, and these are what the writes *)
(* the request has made so far make of them.  Where a request may end, so  *)
(* far is no write, a whole read-back, or the whole handler.               *)
(***************************************************************************)
EXTENDS OneAtATime, ConflictConcurrentProofs

(* What reading a row back makes of it (conflict_service.go, revalidate).  *)
NextOf(row) == NextStatus(row, LiveOf(row), CurrentOf(row))

Moved(row) == NextOf(row) # row.status

Back(row) ==
  IF Moved(row) THEN RevalidatedRow(row, LiveOf(row), NextOf(row)) ELSE row

(* The tables that requests write, now and when the request began. *)
Now == <<checks, bindings, approved>>

Before == <<settled.checks, settled.bindings, settled.approved>>

(* The tables as before, but for key k. *)
But(k, row, links, ok) ==
  <<[settled.checks EXCEPT ![k] = row], [settled.bindings EXCEPT ![k] = links],
    [settled.approved EXCEPT ![k] = ok]>>

(* What the request q, which found row R at its key, holds of it, and what *)
(* it has made of the tables t: a submission,                              *)
SubmitHolds(q, R, t) ==
  LET hits  == Live(q.name, q.id)
      again == IF R.status = "absent" THEN FreshRow(q.name, q.id, hits)
               ELSE ResubmittedRow(R, q.name, q.id, hits)
  IN /\ q.pc \in {"match", "find", "insert", "update", "hits", "current"}
     /\ q.name # Blank
     /\ \E n, i \in Spellings : q.name = Normalize(n) /\ q.id = Normalize(i)
     /\ q.pc \in {"find", "insert", "update"} => q.live = hits
     /\ q.pc \in {"insert", "update"} => q.row = again
     /\ IF q.pc \in {"hits", "current"}
        THEN /\ q.stage = "final" /\ q.row = again
             /\ t = But(q.on, again, hits, settled.approved[q.on])
             /\ q.pc = "current" => q.live = LiveOf(again)
        ELSE t = Before

(* a reading or a decision, as far as the read-back,                       *)
ReadHolds(q, R, t) ==
  LET live == LiveOf(R)  ok == settled.approved[q.on]
  IN /\ q.pc = "find" => t = Before
     /\ q.stage = "read" /\ q.pc # "find" => q.kind # "list"
     /\ q.stage = "read" /\ q.pc \in {"hits", "current"} =>
          t = Before /\ q.row = R
     /\ q.stage = "read" /\ q.pc \in {"save", "unbind", "bind"} =>
          Moved(R) /\ q.row = Back(R) /\ q.live = live
     /\ q.stage = "read" /\ q.pc = "save" => t = Before
     /\ q.stage = "read" /\ q.pc = "unbind" =>
          t = But(q.on, Back(R), settled.bindings[q.on], ok)
     /\ q.stage = "read" /\ q.pc = "bind" => t = But(q.on, Back(R), {}, ok)
     /\ q.stage = "reread" =>
          /\ q.pc \in {"hits", "current"} /\ q.kind # "list" /\ Moved(R)
          /\ t = But(q.on, Back(R), live, ok) /\ q.row = Back(R)
     /\ q.pc = "current" => q.live = LiveOf(q.row)

(* and from there on.                                                      *)
DecideHolds(q, R, t) ==
  LET live  == LiveOf(R)
      ok    == settled.approved[q.on]
      links == IF Moved(R) THEN live ELSE settled.bindings[q.on]
      row   == IF q.kind = "release" THEN ReleasedRow(Back(R), live)
               ELSE RejectedRow(Back(R))
  IN /\ q.stage = "decide" => q.pc \in {"save", "unbind", "bind"}
     /\ q.stage = "decide" \/ (q.stage = "final" /\ q.kind # "list") =>
          /\ q.kind \in {"release", "reject"} /\ CanDecide(Back(R).status)
          /\ q.kind = "release" => live # {}
          /\ q.row = row
     /\ q.stage = "decide" => q.live = live
     /\ q.stage = "decide" /\ q.pc = "save" => t = But(q.on, Back(R), links, ok)
     /\ q.stage = "decide" /\ q.pc = "unbind" =>
          q.kind = "release" /\ t = But(q.on, row, links, live)
     /\ q.stage = "decide" /\ q.pc = "bind" =>
          q.kind = "release" /\ t = But(q.on, row, {}, live)
     /\ q.stage = "final" =>
          /\ q.pc \in {"hits", "current"}
          /\ IF q.kind = "list" THEN t = Before /\ q.row = R
             ELSE t = IF q.kind = "release" THEN But(q.on, row, live, live)
                      ELSE But(q.on, row, links, ok)

RowHolds(q, R, t) ==
  /\ q.kind \in {"get", "list", "release", "reject"}
  /\ q.pc \in {"find", "hits", "current", "save", "unbind", "bind"}
  /\ q.pc = "find" => q.stage = "read"
  /\ R.status # "absent"
  /\ ReadHolds(q, R, t)
  /\ DecideHolds(q, R, t)

UpdateHolds(q, t) ==
  /\ q.pc \in {"find", "write"} /\ t = Before
  /\ q.on \in Parties /\ Registered(q.on)
  /\ \E n, i \in Spellings : q.name = Normalize(n) /\ q.id = Normalize(i)
  /\ q.pc = "write" => q.party = parties[q.on]

Holds(q, t) ==
  IF q.kind = "update" THEN UpdateHolds(q, t)
  ELSE /\ q.on \in Keys
       /\ \A R \in {settled.checks[q.on]} :
            IF q.kind = "submit" THEN SubmitHolds(q, R, t)
            ELSE RowHolds(q, R, t)

SettledOK ==
  /\ settled.checks \in [Keys -> Row]
  /\ settled.bindings \in [Keys -> SUBSET Snapshot]
  /\ settled.approved \in [Keys -> SUBSET Snapshot]
  /\ settled.caseStatus = caseStatus
  /\ settled.parties = parties

AloneInv ==
  /\ IInv
  /\ approved \in [Keys -> SUBSET Snapshot]
  /\ SettledOK
  /\ \A r, s \in Slots : InFlight(r) /\ InFlight(s) => r = s
  /\ Quiet => Now = Before
  /\ \A r \in Slots : InFlight(r) =>
       \A q \in {req[r]}, t \in {Now} : Holds(q, t)

-----------------------------------------------------------------------------
(* ConflictService computes what ConflictConcurrent computes: the rules,   *)
LEMMA SameRules ==
  ASSUME NEW row, NEW name, NEW id, NEW hits, NEW current, NEW status
  PROVE  /\ Serial!Normalize(name) = Normalize(name)
         /\ Serial!FreshRow(name, id, hits) = FreshRow(name, id, hits)
         /\ Serial!ResubmittedRow(row, name, id, hits)
              = ResubmittedRow(row, name, id, hits)
         /\ Serial!NextStatus(row, hits, current) = NextStatus(row, hits, current)
         /\ Serial!RevalidatedRow(row, hits, status)
              = RevalidatedRow(row, hits, status)
         /\ Serial!ReleasedRow(row, hits) = ReleasedRow(row, hits)
         /\ Serial!RejectedRow(row) = RejectedRow(row)
         /\ Serial!CanDecide(status) = CanDecide(status)
         /\ Serial!CanProceed(row, hits, current) = CanProceed(row, hits, current)
<1>1. Serial!Binding(hits) = Binding(hits) /\ Serial!Binding({}) = Binding({})
  BY DEF Serial!Binding, Binding, Serial!LeastVersion, LeastVersion,
         Serial!CombinedFingerprint, CombinedFingerprint
<1>2. Serial!NoRow = NoRow
  BY <1>1 DEF Serial!NoRow, NoRow
<1>3. Serial!FreshRow(name, id, hits) = FreshRow(name, id, hits)
  BY <1>1, <1>2 DEF Serial!FreshRow, FreshRow
<1>4. Serial!ResubmittedRow(row, name, id, hits)
        = ResubmittedRow(row, name, id, hits)
  BY <1>1 DEF Serial!ResubmittedRow, ResubmittedRow, Serial!CollapseStatus,
              CollapseStatus, Serial!BindingUnchanged, BindingUnchanged
<1>5. /\ Serial!HasNewHit(row, hits) = HasNewHit(row, hits)
      /\ Serial!StaleReason(row, hits, current) = StaleReason(row, hits, current)
  <2>1. Serial!HasNewHit(row, hits) = HasNewHit(row, hits)
    BY DEF Serial!HasNewHit, HasNewHit
  <2>2. \A c : Serial!IsOpenCase(c) = IsOpenCase(c)
    BY DEF Serial!IsOpenCase, IsOpenCase
  <2>3. \A m, c : Serial!SnapshotStale(m, c) = SnapshotStale(m, c)
    BY <2>2 DEF Serial!SnapshotStale, SnapshotStale, Serial!Fingerprint, Fingerprint
  <2>4. Serial!ProfileChanged(row, current) = ProfileChanged(row, current)
    BY <2>2, <2>3 DEF Serial!ProfileChanged, ProfileChanged
  <2>5. Serial!ChangedWhileOpen(row, current) = ChangedWhileOpen(row, current)
    BY <2>2 DEF Serial!ChangedWhileOpen, ChangedWhileOpen
  <2> QED BY <2>1, <2>4, <2>5 DEF Serial!StaleReason, StaleReason
<1>6. /\ Serial!NextStatus(row, hits, current) = NextStatus(row, hits, current)
      /\ Serial!CanProceed(row, hits, current) = CanProceed(row, hits, current)
  BY <1>5 DEF Serial!NextStatus, NextStatus, Serial!CanProceed, CanProceed
<1>7. /\ Serial!Normalize(name) = Normalize(name)
      /\ Serial!RevalidatedRow(row, hits, status)
           = RevalidatedRow(row, hits, status)
      /\ Serial!CanDecide(status) = CanDecide(status)
      /\ Serial!RejectedRow(row) = RejectedRow(row)
  BY DEF Serial!Normalize, Normalize, Serial!RevalidatedRow, RevalidatedRow,
         Serial!CanDecide, CanDecide, Serial!RejectedRow, RejectedRow
<1>8. Serial!ReleasedRow(row, hits) = ReleasedRow(row, hits)
  BY <1>1 DEF Serial!ReleasedRow, ReleasedRow
<1> QED BY <1>3, <1>4, <1>6, <1>7, <1>8

(* and the queries, of a registry that requests find as it was.            *)
LEMMA SameQueries ==
  ASSUME settled.caseStatus = caseStatus, settled.parties = parties,
         NEW row, NEW name, NEW id
  PROVE  /\ Serial!Live(name, id) = Live(name, id)
         /\ Serial!LiveOf(row) = LiveOf(row)
         /\ Serial!CurrentOf(row) = CurrentOf(row)
         /\ Serial!NextStatusOf(row) = NextOf(row)
         /\ Serial!Moves(row) = Moved(row)
         /\ Serial!Revalidated(row) = Back(row)
<1>1. \A p : /\ Serial!Candidate(p) = Candidate(p)
             /\ Serial!Registered(p) = Registered(p)
  BY DEF Serial!Candidate, Candidate, Serial!Registered, Registered
<1>2. \A c : Serial!IsOpenCase(c) = IsOpenCase(c)
  BY DEF Serial!IsOpenCase, IsOpenCase
<1>3. \A n, i : Serial!Live(n, i) = Live(n, i)
  <2> TAKE n, i
  <2>1. Serial!FindOpposingCandidates(n, i) = FindOpposingCandidates(n, i)
    BY <1>1, <1>2 DEF Serial!FindOpposingCandidates, FindOpposingCandidates
  <2>2. \A cs : Serial!Match(n, i, cs) = Match(n, i, cs)
    BY <1>2 DEF Serial!Match, Match, Serial!Opposing, Opposing, Serial!IdHit,
               IdHit, Serial!NameHit, NameHit
  <2>3. \A hits : Serial!Snapshots(hits) = Snapshots(hits)
    BY DEF Serial!Snapshots, Snapshots, Serial!ToSnapshot, ToSnapshot,
           Serial!Fingerprint, Fingerprint
  <2> QED BY <2>1, <2>2, <2>3 DEF Serial!Live, Live
<1>4. \A rw : Serial!LiveOf(rw) = LiveOf(rw)
  BY <1>3 DEF Serial!LiveOf, LiveOf
<1>5. \A rw : Serial!CurrentOf(rw) = CurrentOf(rw)
  BY <1>1 DEF Serial!CurrentOf, CurrentOf, Serial!FindCandidatesByPartyIDs,
              FindCandidatesByPartyIDs
<1>6. Serial!NextStatusOf(row) = NextOf(row) /\ Serial!Moves(row) = Moved(row)
  BY <1>4, <1>5, SameRules
  DEF Serial!NextStatusOf, NextOf, Serial!Moves, Moved
<1>7. Serial!Revalidated(row) = Back(row)
  BY <1>4, <1>6, SameRules DEF Serial!Revalidated, Back
<1> QED BY <1>3, <1>4, <1>5, <1>6, <1>7

-----------------------------------------------------------------------------
(* Where a request may end, what it has done is a handler of              *)
(* ConflictService, or nothing.                                            *)
LEMMA SettledAs ==
  ASSUME AloneInv, settled' = Tables',
         UNCHANGED <<caseStatus, parties, checks, bindings, approved>>
  PROVE  /\ UNCHANGED <<settled.caseStatus, settled.parties>>
         /\ Now = Before => UNCHANGED Serial!vars
         /\ \A k, row, links, ok : Now = But(k, row, links, ok) =>
              /\ settled'.checks = [settled.checks EXCEPT ![k] = row]
              /\ settled'.bindings = [settled.bindings EXCEPT ![k] = links]
              /\ settled'.approved = [settled.approved EXCEPT ![k] = ok]
<1>1. /\ settled'.caseStatus = caseStatus /\ settled'.parties = parties
      /\ settled'.checks = checks /\ settled'.bindings = bindings
      /\ settled'.approved = approved
  BY DEF Tables
<1>2. settled.caseStatus = caseStatus /\ settled.parties = parties
  BY DEF AloneInv, SettledOK
<1>3. Now = Before => UNCHANGED Serial!vars
  BY <1>1, <1>2 DEF Now, Before, Serial!vars
<1>4. \A k, row, links, ok : Now = But(k, row, links, ok) =>
        /\ checks = [settled.checks EXCEPT ![k] = row]
        /\ bindings = [settled.bindings EXCEPT ![k] = links]
        /\ approved = [settled.approved EXCEPT ![k] = ok]
  BY DEF Now, But
<1> QED BY <1>1, <1>2, <1>3, <1>4

LEMMA SubmissionSettles ==
  ASSUME AloneInv, settled' = Tables',
         UNCHANGED <<caseStatus, parties, checks, bindings, approved>>,
         NEW q, q.kind = "submit", q.pc \in {"hits", "current"}, Holds(q, Now)
  PROVE  Serial!Next
<1>1. PICK k \in Keys, R \in Row : k = q.on /\ R = settled.checks[k]
  BY DEF Holds, AloneInv, SettledOK
<1> DEFINE hits  == Live(q.name, q.id)
           again == IF R.status = "absent" THEN FreshRow(q.name, q.id, hits)
                    ELSE ResubmittedRow(R, q.name, q.id, hits)
<1>2. SubmitHolds(q, R, Now)
  BY <1>1 DEF Holds
<1>3. PICK n, i \in Spellings :
        q.name = Normalize(n) /\ q.id = Normalize(i) /\ q.name # Blank
  BY <1>2 DEF SubmitHolds
<1>4. Now = But(k, again, hits, settled.approved[k])
  BY <1>1, <1>2 DEF SubmitHolds
<1>5. /\ settled'.checks = [settled.checks EXCEPT ![k] = again]
      /\ settled'.bindings = [settled.bindings EXCEPT ![k] = hits]
      /\ settled'.approved = settled.approved
      /\ UNCHANGED <<settled.caseStatus, settled.parties>>
  <2>1. settled.approved = [settled.approved EXCEPT ![k] = settled.approved[k]]
    BY DEF AloneInv, SettledOK
  <2> HIDE DEF again, hits
  <2> QED BY <1>4, <2>1, SettledAs
<1>6. Serial!Live(q.name, q.id) = hits
  BY SameQueries DEF AloneInv, SettledOK
<1> HIDE DEF hits
<1>7. /\ again = IF settled.checks[k].status = "absent"
                 THEN Serial!FreshRow(q.name, q.id, hits)
                 ELSE Serial!ResubmittedRow(settled.checks[k], q.name, q.id, hits)
      /\ Serial!Normalize(n) = q.name /\ Serial!Normalize(i) = q.id
  BY <1>1, <1>3, SameRules
<1>8. Serial!Submit(k, n, i)
  BY <1>3, <1>5, <1>6, <1>7 DEF Serial!Submit, Serial!ReplaceBindings
<1> QED BY <1>3, <1>8 DEF Serial!Next, Serial!CheckStep

LEMMA RowSettles ==
  ASSUME AloneInv, settled' = Tables',
         UNCHANGED <<caseStatus, parties, checks, bindings, approved>>,
         NEW q, q.kind \notin {"submit", "update"}, q.pc \notin {"unbind", "bind"},
         q.stage \in {"read", "reread", "decide", "final"}, Holds(q, Now)
  PROVE  [Serial!Next]_(Serial!vars)
<1>1. PICK k \in Keys, R \in Row : k = q.on /\ R = settled.checks[k]
  BY DEF Holds, AloneInv, SettledOK
<1> DEFINE live  == LiveOf(R)
           old   == settled.bindings[k]
           ok    == settled.approved[k]
           links == IF Moved(R) THEN live ELSE old
<1>2. RowHolds(q, R, Now)
  BY <1>1 DEF Holds
<1>3. /\ R.status # "absent" /\ q.kind \in {"get", "list", "release", "reject"}
      /\ q.pc \in {"find", "hits", "current", "save"}
      /\ ReadHolds(q, R, Now) /\ DecideHolds(q, R, Now)
  BY <1>2 DEF RowHolds
<1>4. /\ Serial!LiveOf(settled.checks[k]) = live
      /\ Serial!Moves(settled.checks[k]) = Moved(R)
      /\ Serial!Revalidated(settled.checks[k]) = Back(R)
  BY <1>1, SameQueries DEF AloneInv, SettledOK
<1>5. /\ settled.checks = [settled.checks EXCEPT ![k] = R]
      /\ settled.bindings = [settled.bindings EXCEPT ![k] = old]
      /\ settled.approved = [settled.approved EXCEPT ![k] = ok]
  BY <1>1 DEF AloneInv, SettledOK
<1>6. /\ UNCHANGED <<settled.caseStatus, settled.parties>>
      /\ \A row, ls, a : Now = But(k, row, ls, a) =>
           /\ settled'.checks = [settled.checks EXCEPT ![k] = row]
           /\ settled'.bindings = [settled.bindings EXCEPT ![k] = ls]
           /\ settled'.approved = [settled.approved EXCEPT ![k] = a]
  BY SettledAs
<1>7. CASE Now = Before
  BY <1>7, SettledAs
(* Read back, and no more. *)
<1>8. CASE Now = But(k, Back(R), links, ok)
  <2>1. /\ settled'.checks = [settled.checks EXCEPT ![k] = Back(R)]
        /\ settled'.bindings = [settled.bindings EXCEPT ![k] = links]
        /\ settled'.approved = settled.approved
    <3> HIDE DEF links, ok, old
    <3> QED BY <1>5, <1>6, <1>8
  <2>2. CASE Moved(R)
    <3>1. Serial!Get(k)
      BY <1>1, <1>3, <1>4, <1>6, <2>1, <2>2 DEF Serial!Get, Serial!ReplaceBindings
    <3> QED BY <3>1 DEF Serial!Next, Serial!CheckStep
  <2>3. CASE ~Moved(R)
    BY <1>5, <1>6, <2>1, <2>3 DEF Back, Serial!vars
  <2> QED BY <2>2, <2>3
(* Released. *)
<1>9. CASE /\ CanDecide(Back(R).status) /\ live # {}
           /\ Now = But(k, ReleasedRow(Back(R), live), live, live)
  <2>1. /\ settled'.checks = [settled.checks EXCEPT ![k] = ReleasedRow(Back(R), live)]
        /\ settled'.bindings = [settled.bindings EXCEPT ![k] = live]
        /\ settled'.approved = [settled.approved EXCEPT ![k] = live]
    <3> HIDE DEF live
    <3> QED BY <1>6, <1>9
  <2>2. /\ Serial!CanDecide(Back(R).status)
        /\ Serial!ReleasedRow(Back(R), live) = ReleasedRow(Back(R), live)
    BY <1>9, SameRules
  <2> HIDE DEF live
  <2>3. Serial!Release(k)
    BY <1>1, <1>3, <1>4, <1>6, <1>9, <2>1, <2>2
    DEF Serial!Release, Serial!ReplaceBindings
  <2> QED BY <2>3 DEF Serial!Next, Serial!CheckStep
(* Rejected. *)
<1>10. CASE /\ CanDecide(Back(R).status)
            /\ Now = But(k, RejectedRow(Back(R)), links, ok)
  <2>1. /\ settled'.checks = [settled.checks EXCEPT ![k] = RejectedRow(Back(R))]
        /\ settled'.bindings = [settled.bindings EXCEPT ![k] = links]
        /\ settled'.approved = settled.approved
    <3> HIDE DEF links, ok, old
    <3> QED BY <1>5, <1>6, <1>10
  <2>2. /\ Serial!CanDecide(Back(R).status)
        /\ Serial!RejectedRow(Back(R)) = RejectedRow(Back(R))
    BY <1>10, SameRules
  <2>3. settled'.bindings = IF Moved(R) THEN [settled.bindings EXCEPT ![k] = live]
                            ELSE settled.bindings
    BY <1>5, <2>1
  <2> HIDE DEF live
  <2>4. Serial!Reject(k)
    BY <1>1, <1>3, <1>4, <1>6, <1>10, <2>1, <2>2, <2>3
    DEF Serial!Reject, Serial!ReplaceBindings
  <2> QED BY <2>4 DEF Serial!Next, Serial!CheckStep
<1> HIDE DEF live, links, ok, old
<1>11. \/ Now = Before
       \/ Now = But(k, Back(R), links, ok)
       \/ /\ CanDecide(Back(R).status) /\ live # {}
          /\ Now = But(k, ReleasedRow(Back(R), live), live, live)
       \/ /\ CanDecide(Back(R).status)
          /\ Now = But(k, RejectedRow(Back(R)), links, ok)
  BY <1>1, <1>3 DEF ReadHolds, DecideHolds, live, links, ok, old
<1> QED BY <1>7, <1>8, <1>9, <1>10, <1>11

(* A request that ends, between two of its writes or after the last.       *)
LEMMA RequestSettles ==
  ASSUME AloneInv, settled' = Tables',
         UNCHANGED <<caseStatus, parties, checks, bindings, approved>>,
         NEW r \in Slots, InFlight(r), Linked(r)
  PROVE  [Serial!Next]_(Serial!vars)
<1>1. PICK q \in Requests : q = req[r]
  BY DEF AloneInv, IInv, TypeOK
<1>2. Holds(q, Now)
  BY <1>1 DEF AloneInv
<1>3. CASE q.kind = "update"
  <2>1. Now = Before
    BY <1>2, <1>3 DEF Holds, UpdateHolds
  <2> QED BY <2>1, SettledAs
<1>4. CASE q.kind = "submit" /\ q.pc \in {"hits", "current"}
  BY <1>2, <1>4, SubmissionSettles
<1>5. CASE q.kind = "submit" /\ q.pc \notin {"hits", "current"}
  <2>1. Now = Before
    BY <1>2, <1>5 DEF Holds, SubmitHolds, AloneInv, SettledOK
  <2> QED BY <2>1, SettledAs
<1>6. CASE q.kind \notin {"submit", "update"}
  <2>1. q.pc \notin {"unbind", "bind"} /\ q.stage \in {"read", "reread", "decide", "final"}
    BY <1>1 DEF Linked, Requests
  <2> QED BY <1>2, <1>6, <2>1, RowSettles
<1> QED BY <1>3, <1>4, <1>5, <1>6

-----------------------------------------------------------------------------
(* What a request holds, it holds while it writes only what it says.       *)
LEMMA QueriesStay ==
  ASSUME UNCHANGED <<caseStatus, parties>>
  PROVE  /\ \A name, id : Live(name, id)' = Live(name, id)
         /\ \A row : /\ LiveOf(row)' = LiveOf(row)
                     /\ CurrentOf(row)' = CurrentOf(row)
                     /\ Moved(row)' = Moved(row)
                     /\ Back(row)' = Back(row)
<1>1. \A p : Candidate(p)' = Candidate(p) /\ Registered(p)' = Registered(p)
  BY DEF Candidate, Registered
<1>2. \A name, id : Live(name, id)' = Live(name, id)
  BY <1>1 DEF Live, FindOpposingCandidates, Registered, Candidate
<1>3. \A row : LiveOf(row)' = LiveOf(row)
  BY <1>2 DEF LiveOf
<1>4. \A row : CurrentOf(row)' = CurrentOf(row)
  BY <1>1 DEF CurrentOf, FindCandidatesByPartyIDs
<1>5. \A row : NextOf(row)' = NextOf(row)
  BY <1>3, <1>4 DEF NextOf
<1>6. \A row : Moved(row)' = Moved(row)
  BY <1>5 DEF Moved
<1>7. \A row : Back(row)' = Back(row)
  BY <1>3, <1>5, <1>6 DEF Back
<1> QED BY <1>2, <1>3, <1>4, <1>6, <1>7

LEMMA HoldsStays ==
  ASSUME UNCHANGED <<caseStatus, parties, settled>>, NEW q, NEW t, Holds(q, t)
  PROVE  Holds(q, t)'
<1>1. /\ Before' = Before
      /\ \A k, row, links, ok : But(k, row, links, ok)' = But(k, row, links, ok)
  BY DEF Before, But
<1>2. \A R : SubmitHolds(q, R, t) => SubmitHolds(q, R, t)'
  BY <1>1, QueriesStay DEF SubmitHolds, But, LiveOf
<1>3. \A R : ReadHolds(q, R, t) => ReadHolds(q, R, t)'
  BY <1>1, QueriesStay DEF ReadHolds, But
<1>4. \A R : DecideHolds(q, R, t) => DecideHolds(q, R, t)'
  BY <1>1, QueriesStay DEF DecideHolds, But
<1>5. \A R : RowHolds(q, R, t) => RowHolds(q, R, t)'
  BY <1>3, <1>4 DEF RowHolds
<1>6. UpdateHolds(q, t) => UpdateHolds(q, t)'
  BY <1>1 DEF UpdateHolds, Registered
<1> QED BY <1>2, <1>5, <1>6 DEF Holds

(* A step after which the request of slot r goes on keeps the invariant,   *)
LEMMA GoesOn ==
  ASSUME AloneInv, IInv', NEW r \in Slots, InFlight(r) \/ Quiet,
         \A s \in Slots \ {r} : req'[s] = req[s], req'[r].pc \notin {"idle", "done"},
         UNCHANGED <<caseStatus, parties>>, approved' \in [Keys -> SUBSET Snapshot],
         settled' = IF Quiet' THEN Tables' ELSE settled, Holds(req'[r], Now')
  PROVE  AloneInv' /\ UNCHANGED settled
<1>1. InFlight(r)' /\ \A s \in Slots \ {r} : ~InFlight(s)'
  BY DEF AloneInv, InFlight, Quiet
<1>2. UNCHANGED settled
  BY <1>1 DEF Quiet
<1>3. SettledOK'
  BY <1>2 DEF AloneInv, SettledOK
<1>4. \A q \in {req'[r]}, t \in {Now'} : Holds(q, t)'
  BY <1>2, HoldsStays
<1>5. \A s \in Slots : InFlight(s)' => \A q \in {req'[s]}, t \in {Now'} : Holds(q, t)'
  BY <1>1, <1>4
<1>6. (\A s, u \in Slots : InFlight(s) /\ InFlight(u) => s = u)' /\ ~Quiet'
  BY <1>1 DEF Quiet
<1> QED BY <1>2, <1>3, <1>5, <1>6 DEF AloneInv

(* and so does one that leaves no request in flight.                       *)
LEMMA Rests ==
  ASSUME AloneInv, IInv', approved' \in [Keys -> SUBSET Snapshot], Quiet',
         settled' = IF Quiet' THEN Tables' ELSE settled
  PROVE  AloneInv' /\ settled' = Tables'
<1>1. settled' = Tables'
  OBVIOUS
<1>2. SettledOK' /\ Now' = Before'
  BY <1>1 DEF SettledOK, Tables, Now, Before, IInv, TypeOK
<1>3. \A s \in Slots : ~InFlight(s)'
  BY DEF Quiet
<1>4. \A s \in Slots : InFlight(s)' => \A q \in {req'[s]}, t \in {Now'} : Holds(q, t)'
  BY <1>3
<1> QED BY <1>1, <1>2, <1>3, <1>4 DEF AloneInv

LEMMA Ends ==
  ASSUME AloneInv, IInv', NEW r \in Slots, InFlight(r) \/ Quiet,
         \A s \in Slots \ {r} : req'[s] = req[s], req'[r].pc \in {"idle", "done"},
         approved' \in [Keys -> SUBSET Snapshot],
         settled' = IF Quiet' THEN Tables' ELSE settled
  PROVE  AloneInv' /\ settled' = Tables'
<1>1. Quiet'
  BY DEF AloneInv, InFlight, Quiet
<1> QED BY <1>1, Rests

(* A statement that only reads, or fails.                                  *)
LEMMA Reads ==
  ASSUME AloneInv, IInv', NEW r \in Slots, InFlight(r), Linked(r),
         \A s \in Slots \ {r} : req'[s] = req[s],
         UNCHANGED <<caseStatus, parties, checks, bindings, approved>>,
         settled' = IF Quiet' THEN Tables' ELSE settled,
         req'[r].pc \in {"idle", "done"} \/ Holds(req'[r], Now)
  PROVE  AloneInv' /\ [Serial!Next]_(Serial!vars)
<1>1. approved' \in [Keys -> SUBSET Snapshot] /\ Now' = Now
  BY DEF AloneInv, Now
<1>2. CASE req'[r].pc \in {"idle", "done"}
  BY <1>1, <1>2, Ends, RequestSettles
<1>3. CASE req'[r].pc \notin {"idle", "done"}
  <2>1. Holds(req'[r], Now')
    BY <1>1, <1>3
  <2>2. AloneInv' /\ UNCHANGED settled
    BY <1>1, <1>3, <2>1, GoesOn
  <2> QED BY <2>2 DEF Serial!vars
<1> QED BY <1>2, <1>3

(* A statement that writes, and is not the last.                           *)
LEMMA WritesOn ==
  ASSUME AloneInv, IInv', NEW r \in Slots, InFlight(r),
         \A s \in Slots \ {r} : req'[s] = req[s], req'[r].pc \notin {"idle", "done"},
         UNCHANGED <<caseStatus, parties>>, approved' \in [Keys -> SUBSET Snapshot],
         settled' = IF Quiet' THEN Tables' ELSE settled, Holds(req'[r], Now')
  PROVE  AloneInv' /\ [Serial!Next]_(Serial!vars)
<1>1. AloneInv' /\ UNCHANGED settled
  BY GoesOn
<1> QED BY <1>1 DEF Serial!vars

(* The request of a slot in flight.                                        *)
LEMMA InHand ==
  ASSUME AloneInv, NEW r \in Slots, InFlight(r)
  PROVE  /\ req \in [Slots -> Requests] /\ req[r] \in Requests
         /\ PlaceOK(req[r]) /\ Holds(req[r], Now)
BY DEF AloneInv, IInv, TypeOK, RequestOK

(* The row of a submission or a row's request, when it began.              *)
LEMMA FoundRow ==
  ASSUME AloneInv, NEW q, Holds(q, Now), q.kind # "update"
  PROVE  /\ q.on \in Keys /\ settled.checks[q.on] \in Row
         /\ q.kind = "submit" => SubmitHolds(q, settled.checks[q.on], Now)
         /\ q.kind # "submit" => RowHolds(q, settled.checks[q.on], Now)
         /\ Now = Before => checks[q.on] = settled.checks[q.on]
BY DEF Holds, AloneInv, SettledOK, Now, Before

-----------------------------------------------------------------------------
LEMMA SubmitMatchAlone ==
  ASSUME AloneInv, IInv', NEW r \in Slots, SubmitMatch(r), UNCHANGED approved,
         settled' = IF Quiet' THEN Tables' ELSE settled
  PROVE  AloneInv' /\ [Serial!Next]_(Serial!vars)
<1>1. InFlight(r) /\ Linked(r) /\ req[r].pc = "match"
  BY DEF SubmitMatch, InFlight, Linked
<1>2. PICK q \in Requests : q = req[r] /\ q.kind = "submit" /\ Holds(q, Now)
  BY <1>1, InHand DEF PlaceOK
<1>3. PICK R \in Row : R = settled.checks[q.on] /\ SubmitHolds(q, R, Now) /\ q.on \in Keys
  BY <1>2, FoundRow
<1>4. PICK live : live = Live(q.name, q.id)
  OBVIOUS
<1>5. /\ req'[r] = [q EXCEPT !.pc = "find", !.live = live]
      /\ \A s \in Slots \ {r} : req'[s] = req[s]
      /\ UNCHANGED <<caseStatus, parties, checks, bindings>>
  BY <1>1, <1>2, <1>4, InHand DEF SubmitMatch, Goto
<1> DEFINE next == [q EXCEPT !.pc = "find", !.live = live]
<1>6. /\ next.pc = "find" /\ next.kind = "submit" /\ next.on = q.on
      /\ next.name = q.name /\ next.id = q.id /\ next.live = live
  BY <1>2 DEF Requests
<1> HIDE DEF next
<1>7. SubmitHolds(next, R, Now)
  BY <1>1, <1>2, <1>3, <1>4, <1>6 DEF SubmitHolds
<1>8. Holds(next, Now)
  BY <1>3, <1>6, <1>7 DEF Holds
<1> QED BY <1>1, <1>5, <1>8, Reads DEF next

LEMMA SubmitFindAlone ==
  ASSUME AloneInv, IInv', NEW r \in Slots, SubmitFind(r), UNCHANGED approved,
         settled' = IF Quiet' THEN Tables' ELSE settled
  PROVE  AloneInv' /\ [Serial!Next]_(Serial!vars)
<1>1. /\ InFlight(r) /\ Linked(r) /\ req[r].pc = "find" /\ req[r].kind = "submit"
      /\ UNCHANGED <<caseStatus, parties, checks, bindings>>
  BY DEF SubmitFind, InFlight, Linked
<1>2. PICK q \in Requests : q = req[r] /\ q.kind = "submit" /\ Holds(q, Now)
  BY <1>1, InHand
<1>3. PICK R \in Row :
        /\ R = settled.checks[q.on] /\ SubmitHolds(q, R, Now) /\ q.on \in Keys
        /\ Now = Before => checks[q.on] = R
  BY <1>2, FoundRow
<1>4. Now = Before /\ q.live = Live(q.name, q.id) /\ checks[q.on] = R
  BY <1>1, <1>2, <1>3 DEF SubmitHolds
<1>5. \A s \in Slots \ {r} : req'[s] = req[s]
  BY <1>1, InHand DEF SubmitFind, Goto
<1>6. CASE R.status # "absent"
  <2> DEFINE row  == ResubmittedRow(R, q.name, q.id, q.live)
             next == [q EXCEPT !.pc = "update", !.row = row]
  <2>1. req'[r] = next
    BY <1>1, <1>2, <1>4, <1>6, InHand DEF SubmitFind, Goto
  <2>2. /\ next.pc = "update" /\ next.kind = "submit" /\ next.on = q.on
        /\ next.name = q.name /\ next.id = q.id /\ next.live = q.live
        /\ next.row = row
    BY <1>2 DEF Requests
  <2> HIDE DEF next
  <2>3. SubmitHolds(next, R, Now)
    BY <1>1, <1>2, <1>3, <1>4, <1>6, <2>2 DEF SubmitHolds
  <2>4. Holds(req'[r], Now)
    BY <1>3, <2>1, <2>2, <2>3 DEF Holds
  <2> QED BY <1>1, <1>5, <2>4, Reads
<1>7. CASE R.status = "absent" /\ ~ForceExisting(q.attempt)
  <2> DEFINE row  == FreshRow(q.name, q.id, q.live)
             next == [q EXCEPT !.pc = "insert", !.row = row]
  <2>1. req'[r] = next
    BY <1>1, <1>2, <1>4, <1>7, InHand DEF SubmitFind, Goto
  <2>2. /\ next.pc = "insert" /\ next.kind = "submit" /\ next.on = q.on
        /\ next.name = q.name /\ next.id = q.id /\ next.live = q.live
        /\ next.row = row
    BY <1>2 DEF Requests
  <2> HIDE DEF next
  <2>3. SubmitHolds(next, R, Now)
    BY <1>1, <1>2, <1>3, <1>4, <1>7, <2>2 DEF SubmitHolds
  <2>4. Holds(req'[r], Now)
    BY <1>3, <2>1, <2>2, <2>3 DEF Holds
  <2> QED BY <1>1, <1>5, <2>4, Reads
<1>8. CASE R.status = "absent" /\ ForceExisting(q.attempt)
  <2>1. req'[r] = Answer(r, "not_found")
    BY <1>1, <1>2, <1>4, <1>8, InHand DEF SubmitFind, Goto
  <2>2. req'[r].pc = "done"
    BY <2>1 DEF Answer, Idle
  <2> QED BY <1>1, <1>5, <2>2, Reads
<1> QED BY <1>6, <1>7, <1>8

LEMMA SubmitDuplicateAlone ==
  ASSUME AloneInv, IInv', NEW r \in Slots, SubmitDuplicate(r), UNCHANGED approved,
         settled' = IF Quiet' THEN Tables' ELSE settled
  PROVE  AloneInv' /\ [Serial!Next]_(Serial!vars)
<1>1. /\ InFlight(r) /\ Linked(r) /\ req[r].pc \in {"insert", "update"}
      /\ UNCHANGED <<caseStatus, parties, checks, bindings>>
  BY DEF SubmitDuplicate, InFlight, Linked
<1>2. PICK q \in Requests : q = req[r] /\ q.kind = "submit" /\ Holds(q, Now)
  BY <1>1, InHand DEF PlaceOK
<1>3. PICK R \in Row : R = settled.checks[q.on] /\ SubmitHolds(q, R, Now) /\ q.on \in Keys
  BY <1>2, FoundRow
<1>4. \A s \in Slots \ {r} : req'[s] = req[s]
  BY <1>1, InHand DEF SubmitDuplicate, Goto
<1>5. CASE q.attempt = MaxAttempts
  <2>1. req'[r] = Answer(r, "retry")
    BY <1>1, <1>2, <1>5, InHand DEF SubmitDuplicate, Goto
  <2>2. req'[r].pc = "done"
    BY <2>1 DEF Answer, Idle
  <2> QED BY <1>1, <1>4, <2>2, Reads
<1>6. CASE q.attempt # MaxAttempts
  <2>1. PICK attempt, clash :
          req'[r] = [q EXCEPT !.pc = "match", !.attempt = attempt,
                              !.row = NoRow, !.live = {}, !.clash = clash]
    BY <1>1, <1>2, <1>6, InHand DEF SubmitDuplicate, Goto
  <2> DEFINE next == [q EXCEPT !.pc = "match", !.attempt = attempt,
                              !.row = NoRow, !.live = {}, !.clash = clash]
  <2>2. /\ next.pc = "match" /\ next.kind = "submit" /\ next.on = q.on
        /\ next.name = q.name /\ next.id = q.id
    BY <1>2 DEF Requests
  <2> HIDE DEF next
  <2>3. SubmitHolds(next, R, Now)
    BY <1>1, <1>2, <1>3, <2>2 DEF SubmitHolds
  <2>4. Holds(next, Now)
    BY <1>3, <2>2, <2>3 DEF Holds
  <2> QED BY <1>1, <1>4, <2>1, <2>4, Reads DEF next
<1> QED BY <1>5, <1>6

LEMMA SubmitCommitAlone ==
  ASSUME AloneInv, IInv', NEW r \in Slots, SubmitCommit(r), UNCHANGED approved,
         settled' = IF Quiet' THEN Tables' ELSE settled
  PROVE  AloneInv' /\ [Serial!Next]_(Serial!vars)
<1>1. /\ InFlight(r) /\ req[r].pc \in {"insert", "update"}
      /\ UNCHANGED <<caseStatus, parties>>
  BY DEF SubmitCommit, InFlight
<1>2. PICK q \in Requests : q = req[r] /\ q.kind = "submit" /\ Holds(q, Now)
  BY <1>1, InHand DEF PlaceOK
<1>3. PICK R \in Row : R = settled.checks[q.on] /\ SubmitHolds(q, R, Now) /\ q.on \in Keys
  BY <1>2, FoundRow
<1> DEFINE next == [q EXCEPT !.pc = "hits", !.stage = "final"]
<1>4. /\ req'[r] = next
      /\ \A s \in Slots \ {r} : req'[s] = req[s]
      /\ checks' = [checks EXCEPT ![q.on] = q.row]
      /\ bindings' = [bindings EXCEPT ![q.on] = q.live]
  BY <1>1, <1>2, InHand DEF SubmitCommit, Goto
<1>5. /\ next.pc = "hits" /\ next.kind = "submit" /\ next.on = q.on
      /\ next.name = q.name /\ next.id = q.id /\ next.live = q.live
      /\ next.row = q.row /\ next.stage = "final"
  BY <1>2 DEF Requests
<1> HIDE DEF next
<1>6. Now' = But(q.on, q.row, q.live, settled.approved[q.on])
  <2>1. Now = Before
    BY <1>1, <1>2, <1>3 DEF SubmitHolds
  <2>2. /\ checks = settled.checks /\ bindings = settled.bindings
        /\ approved = settled.approved
    BY <2>1 DEF Now, Before
  <2>3. settled.approved = [settled.approved EXCEPT ![q.on] = settled.approved[q.on]]
    BY <1>3 DEF AloneInv, SettledOK
  <2> QED BY <1>4, <2>2, <2>3 DEF Now, But
<1>7. SubmitHolds(next, R, Now')
  BY <1>1, <1>2, <1>3, <1>5, <1>6 DEF SubmitHolds
<1>8. Holds(req'[r], Now')
  BY <1>3, <1>4, <1>5, <1>7 DEF Holds
<1>9. approved' \in [Keys -> SUBSET Snapshot]
  BY DEF AloneInv
<1> QED BY <1>1, <1>4, <1>5, <1>8, <1>9, WritesOn

-----------------------------------------------------------------------------
(* Reading back leaves the opponent of a row, so its hits, as they were.   *)
LEMMA BackKeepsHits ==
  ASSUME NEW R \in Row
  PROVE  LiveOf(Back(R)) = LiveOf(R) /\ (~Moved(R) => Back(R) = R)
<1>1. Back(R).name = R.name /\ Back(R).id = R.id
  BY DEF Back, RevalidatedRow, Row
<1> QED BY <1>1 DEF LiveOf, Back

LEMMA FindRowAlone ==
  ASSUME AloneInv, IInv', NEW r \in Slots, FindRow(r), UNCHANGED approved,
         settled' = IF Quiet' THEN Tables' ELSE settled
  PROVE  AloneInv' /\ [Serial!Next]_(Serial!vars)
<1>1. /\ InFlight(r) /\ Linked(r) /\ req[r].pc = "find"
      /\ req[r].kind \notin {"submit", "update"}
      /\ UNCHANGED <<caseStatus, parties, checks, bindings>>
  BY DEF FindRow, InFlight, Linked
<1>2. PICK q \in Requests : q = req[r] /\ Holds(q, Now)
  BY <1>1, InHand
<1>3. PICK R \in Row :
        /\ R = settled.checks[q.on] /\ RowHolds(q, R, Now) /\ q.on \in Keys
        /\ Now = Before => checks[q.on] = R
  BY <1>1, <1>2, FoundRow
<1>4. Now = Before /\ checks[q.on] = R
  BY <1>1, <1>2, <1>3 DEF RowHolds, ReadHolds
<1> DEFINE stage == IF q.kind = "list" THEN "final" ELSE "read"
           next  == [q EXCEPT !.pc = "hits", !.row = R, !.stage = stage]
<1>5. req'[r] = next /\ \A s \in Slots \ {r} : req'[s] = req[s]
  BY <1>1, <1>2, <1>4, InHand DEF FindRow, Goto
<1>6. /\ next.pc = "hits" /\ next.kind = q.kind /\ next.on = q.on
      /\ next.row = R /\ next.stage = stage
  BY <1>2 DEF Requests
<1> HIDE DEF next
<1>7. RowHolds(next, R, Now)
  BY <1>1, <1>2, <1>3, <1>4, <1>6 DEF RowHolds, ReadHolds, DecideHolds
<1>8. Holds(next, Now)
  BY <1>1, <1>2, <1>3, <1>6, <1>7 DEF Holds
<1> QED BY <1>1, <1>5, <1>8, Reads

(* After an enrich a request ends or saves the row.                        *)
LEMMA EnrichedAlone ==
  ASSUME AloneInv, NEW r \in Slots, NEW q \in Requests, q = req[r], Holds(q, Now),
         q.pc \in {"hits", "current"}, NEW live, live = LiveOf(q.row),
         NEW current, current = CurrentOf(q.row),
         NEW next, next = Enriched(r, live, current)
  PROVE  \/ next.pc = "done"
         \/ next.pc = "save" /\ Holds(next, Now)
<1>1. ASSUME NEW row PROVE AnswerRow(r, row, live, current).pc = "done"
  BY DEF AnswerRow, Answer, Idle
<1>2. ASSUME NEW outcome PROVE Answer(r, outcome).pc = "done"
  BY DEF Answer, Idle
<1>3. CASE \/ q.stage = "final"
           \/ q.kind = "get" /\ ~(q.stage = "read" /\ Moved(q.row))
  <2>1. next = AnswerRow(r, q.row, live, current)
    BY <1>3 DEF Enriched, Moved, NextOf
  <2> QED BY <1>1, <2>1
<1>4. CASE q.kind = "submit" /\ q.stage # "final"
  BY <1>4, FoundRow DEF SubmitHolds
<1>5. CASE q.kind = "update"
  BY <1>5 DEF Holds, UpdateHolds
<1>6. CASE q.kind \notin {"submit", "update"} /\ q.stage # "final"
  <2>1. PICK R \in Row :
          R = settled.checks[q.on] /\ RowHolds(q, R, Now) /\ q.on \in Keys
    BY <1>6, FoundRow
  <2>2. /\ ReadHolds(q, R, Now) /\ DecideHolds(q, R, Now) /\ R.status # "absent"
        /\ q.kind \in {"get", "list", "release", "reject"}
    BY <2>1 DEF RowHolds
  <2>3. q.stage \in {"read", "reread"} /\ q.kind # "list"
    BY <1>6, <2>2 DEF ReadHolds, DecideHolds, Requests
  (* It moves: revalidate saves it. *)
  <2>4. CASE q.stage = "read" /\ Moved(q.row)
    <3>1. q.row = R /\ Now = Before
      BY <2>2, <2>4 DEF ReadHolds
    <3>2. Back(R) = RevalidatedRow(R, live, NextOf(R)) /\ live = LiveOf(R)
      BY <2>4, <3>1 DEF Back
    <3> DEFINE after == [q EXCEPT !.pc = "save", !.live = live, !.row = Back(R)]
    <3>3. next = after
      BY <2>4, <3>1, <3>2 DEF Enriched, Moved, NextOf
    <3>4. /\ after.pc = "save" /\ after.kind = q.kind /\ after.on = q.on
          /\ after.live = live /\ after.row = Back(R) /\ after.stage = "read"
      BY <2>4 DEF Requests
    <3> HIDE DEF after
    <3>5. RowHolds(after, R, Now)
      BY <2>2, <2>3, <2>4, <3>1, <3>2, <3>4
      DEF RowHolds, ReadHolds, DecideHolds
    <3> QED BY <1>6, <2>1, <3>3, <3>4, <3>5 DEF Holds
  (* It does not, or it has: the decision. *)
  <2>5. CASE ~(q.stage = "read" /\ Moved(q.row)) /\ q.kind # "get"
    <3> DEFINE links == IF Moved(R) THEN LiveOf(R) ELSE settled.bindings[q.on]
               ok    == settled.approved[q.on]
    <3>1. /\ q.row = Back(R) /\ live = LiveOf(R)
          /\ Now = But(q.on, Back(R), links, ok)
      <4>1. CASE q.stage = "read"
        <5>1. q.row = R /\ ~Moved(R) /\ Now = Before
          BY <2>2, <2>5, <4>1 DEF ReadHolds
        <5>2. Before = But(q.on, R, settled.bindings[q.on], ok)
          BY <2>1 DEF Before, But, AloneInv, SettledOK
        <5> QED BY <5>1, <5>2, BackKeepsHits
      <4>2. CASE q.stage = "reread"
        BY <2>2, <4>2, BackKeepsHits DEF ReadHolds
      <4> QED BY <2>3, <4>1, <4>2
    <3> HIDE DEF links, ok
    <3>2. next = Decided(r, q.row, live, current)
      BY <1>6, <2>5 DEF Enriched, Moved, NextOf
    <3> DEFINE row   == IF q.kind = "release" THEN ReleasedRow(q.row, live)
                        ELSE RejectedRow(q.row)
               after == [q EXCEPT !.pc = "save", !.stage = "decide",
                                  !.live = live, !.row = row]
    <3>3. \/ next.pc = "done"
          \/ /\ CanDecide(q.row.status) /\ ~(q.kind = "release" /\ live = {})
             /\ next = after
      BY <1>1, <1>2, <3>2 DEF Decided
    <3>4. /\ after.pc = "save" /\ after.kind = q.kind /\ after.on = q.on
          /\ after.live = live /\ after.row = row /\ after.stage = "decide"
      BY DEF Requests
    <3> HIDE DEF after
    <3>5. CASE CanDecide(q.row.status) /\ ~(q.kind = "release" /\ live = {})
      <4>1. ReadHolds(after, R, Now)
        BY <3>4 DEF ReadHolds
      <4>2. DecideHolds(after, R, Now)
        BY <2>2, <2>3, <2>5, <3>1, <3>4, <3>5 DEF DecideHolds, links, ok
      <4>3. RowHolds(after, R, Now)
        BY <2>2, <3>4, <4>1, <4>2 DEF RowHolds
      <4>4. Holds(after, Now)
        BY <1>6, <2>1, <3>4, <4>3 DEF Holds
      <4> QED BY <3>3, <3>4, <4>4
    <3> QED BY <3>3, <3>5
  <2> QED BY <1>3, <2>4, <2>5
<1> QED BY <1>3, <1>4, <1>5, <1>6

LEMMA ReadHitsAlone ==
  ASSUME AloneInv, IInv', NEW r \in Slots, ReadHits(r), UNCHANGED approved,
         settled' = IF Quiet' THEN Tables' ELSE settled
  PROVE  AloneInv' /\ [Serial!Next]_(Serial!vars)
<1>1. /\ InFlight(r) /\ Linked(r) /\ req[r].pc = "hits"
      /\ UNCHANGED <<caseStatus, parties, checks, bindings>>
  BY DEF ReadHits, InFlight, Linked
<1>2. PICK q \in Requests : q = req[r] /\ Holds(q, Now)
  BY <1>1, InHand
<1>3. PICK live : live = LiveOf(q.row)
  OBVIOUS
<1>4. \A s \in Slots \ {r} : req'[s] = req[s]
  BY <1>1, InHand DEF ReadHits, Goto
<1>5. CASE q.row.matched = {}
  <2>1. PICK next : next = Enriched(r, live, {})
    OBVIOUS
  <2>2. CurrentOf(q.row) = {}
    BY <1>5 DEF CurrentOf, FindCandidatesByPartyIDs
  <2>3. next.pc = "done" \/ Holds(next, Now)
    BY <1>1, <1>2, <1>3, <2>1, <2>2, EnrichedAlone
  <2>4. req'[r] = next
    BY <1>2, <1>3, <1>5, <2>1, InHand, <1>1 DEF ReadHits, Goto
  <2> QED BY <1>1, <1>4, <2>3, <2>4, Reads
<1>6. CASE q.row.matched # {}
  <2> DEFINE next == [q EXCEPT !.pc = "current", !.live = live]
  <2>1. req'[r] = next
    BY <1>1, <1>2, <1>3, <1>6, InHand DEF ReadHits, Goto
  <2>2. /\ next.pc = "current" /\ next.kind = q.kind /\ next.on = q.on
        /\ next.name = q.name /\ next.id = q.id /\ next.live = live
        /\ next.row = q.row /\ next.stage = q.stage
    BY <1>2 DEF Requests
  <2> HIDE DEF next
  <2>3. q.kind # "update"
    BY <1>1, <1>2 DEF Holds, UpdateHolds
  <2>4. PICK R \in Row : R = settled.checks[q.on] /\ q.on \in Keys
    BY <1>2, <2>3, FoundRow
  <2>5. CASE q.kind = "submit"
    <3>1. SubmitHolds(q, R, Now)
      BY <1>2, <2>4, <2>5, FoundRow
    <3>2. SubmitHolds(next, R, Now)
      BY <1>1, <1>2, <1>3, <2>2, <3>1 DEF SubmitHolds
    <3> QED BY <1>1, <1>4, <2>1, <2>2, <2>4, <2>5, <3>2, Reads DEF Holds
  <2>6. CASE q.kind # "submit"
    <3>1. RowHolds(q, R, Now)
      BY <1>2, <2>3, <2>4, <2>6, FoundRow
    <3>2. ReadHolds(next, R, Now)
      BY <1>1, <1>2, <1>3, <2>2, <3>1 DEF RowHolds, ReadHolds
    <3>3. DecideHolds(next, R, Now)
      BY <1>1, <1>2, <1>3, <2>2, <3>1 DEF RowHolds, DecideHolds
    <3>4. RowHolds(next, R, Now)
      BY <2>2, <3>1, <3>2, <3>3 DEF RowHolds
    <3> QED BY <1>1, <1>4, <2>1, <2>2, <2>3, <2>4, <2>6, <3>4, Reads DEF Holds
  <2> QED BY <2>5, <2>6
<1> QED BY <1>5, <1>6

LEMMA ReadCurrentAlone ==
  ASSUME AloneInv, IInv', NEW r \in Slots, ReadCurrent(r), UNCHANGED approved,
         settled' = IF Quiet' THEN Tables' ELSE settled
  PROVE  AloneInv' /\ [Serial!Next]_(Serial!vars)
<1>1. /\ InFlight(r) /\ Linked(r) /\ req[r].pc = "current"
      /\ UNCHANGED <<caseStatus, parties, checks, bindings>>
  BY DEF ReadCurrent, InFlight, Linked
<1>2. PICK q \in Requests : q = req[r] /\ Holds(q, Now)
  BY <1>1, InHand
<1>3. q.live = LiveOf(q.row)
  <2>1. q.kind # "update"
    BY <1>1, <1>2 DEF Holds, UpdateHolds
  <2>2. CASE q.kind = "submit"
    BY <1>1, <1>2, <2>2, FoundRow DEF SubmitHolds
  <2>3. CASE q.kind # "submit"
    BY <1>1, <1>2, <2>1, <2>3, FoundRow DEF RowHolds, ReadHolds
  <2> QED BY <2>2, <2>3
<1>4. PICK next : next = Enriched(r, q.live, CurrentOf(q.row))
  OBVIOUS
<1>5. next.pc = "done" \/ Holds(next, Now)
  BY <1>1, <1>2, <1>3, <1>4, EnrichedAlone
<1>6. req'[r] = next /\ \A s \in Slots \ {r} : req'[s] = req[s]
  BY <1>1, <1>2, <1>4, InHand DEF ReadCurrent, Goto
<1> QED BY <1>1, <1>5, <1>6, Reads

-----------------------------------------------------------------------------
(* A write of key k's row, links or approval, after others of them.        *)
LEMMA Written ==
  ASSUME AloneInv, NEW k \in Keys, NEW row, NEW links, NEW ok,
         Now = But(k, row, links, ok)
  PROVE  /\ \A new, ls : [checks EXCEPT ![k] = new] = checks'
                       /\ [approved EXCEPT ![k] = ls] = approved'
                       /\ UNCHANGED bindings
                       => Now' = But(k, new, links, ls)
         /\ \A ls : [bindings EXCEPT ![k] = ls] = bindings'
                   /\ UNCHANGED <<checks, approved>>
                   => Now' = But(k, row, ls, ok)
         /\ bindings[k] = links /\ approved = [approved EXCEPT ![k] = ok]
<1>1. /\ checks = [settled.checks EXCEPT ![k] = row]
      /\ bindings = [settled.bindings EXCEPT ![k] = links]
      /\ approved = [settled.approved EXCEPT ![k] = ok]
  BY DEF Now, But
<1>2. /\ k \in DOMAIN settled.checks /\ k \in DOMAIN settled.bindings
      /\ k \in DOMAIN settled.approved
  BY DEF AloneInv, SettledOK
<1>3. /\ \A new : [checks EXCEPT ![k] = new] = [settled.checks EXCEPT ![k] = new]
      /\ \A ls : [bindings EXCEPT ![k] = ls] = [settled.bindings EXCEPT ![k] = ls]
      /\ \A ls : [approved EXCEPT ![k] = ls] = [settled.approved EXCEPT ![k] = ls]
  BY <1>1, <1>2
<1>4. bindings[k] = links /\ approved = [approved EXCEPT ![k] = ok]
  BY <1>1, <1>2
<1> QED BY <1>1, <1>3, <1>4 DEF Now, But

(* At the save of a row, key k is as the request found it or read it back. *)
LEMMA BeforeIsBut ==
  ASSUME AloneInv, NEW k \in Keys
  PROVE  Before = But(k, settled.checks[k], settled.bindings[k], settled.approved[k])
BY DEF Before, But, AloneInv, SettledOK

LEMMA AfterWrite ==
  ASSUME NEW q \in Requests, NEW pc
  PROVE  /\ [q EXCEPT !.pc = pc].pc = pc
         /\ [q EXCEPT !.pc = pc].kind = q.kind
         /\ [q EXCEPT !.pc = pc].on = q.on
         /\ [q EXCEPT !.pc = pc].row = q.row
         /\ [q EXCEPT !.pc = pc].live = q.live
         /\ [q EXCEPT !.pc = pc].stage = q.stage
         /\ Reenrich(q).pc = "hits" /\ Reenrich(q).kind = q.kind
         /\ Reenrich(q).on = q.on /\ Reenrich(q).row = q.row
         /\ Reenrich(q).live = q.live
         /\ Reenrich(q).stage = IF q.stage = "decide" THEN "final" ELSE "reread"
BY DEF Requests, Reenrich

(* Whose write it is.                                                      *)
LEMMA RowWriter ==
  ASSUME AloneInv, NEW q \in Requests, Holds(q, Now),
         q.pc \in {"save", "unbind", "bind"}
  PROVE  /\ q.kind \in {"get", "list", "release", "reject"} /\ q.on \in Keys
         /\ settled.checks[q.on] \in Row
         /\ RowHolds(q, settled.checks[q.on], Now)
         /\ q.stage \in {"read", "decide"}
<1>1. q.kind \notin {"submit", "update"}
  BY FoundRow DEF SubmitHolds, Holds, UpdateHolds
<1>2. /\ q.on \in Keys /\ settled.checks[q.on] \in Row
      /\ RowHolds(q, settled.checks[q.on], Now)
  BY <1>1, FoundRow
<1> QED BY <1>2 DEF RowHolds, ReadHolds, DecideHolds, Requests

LEMMA SaveRowAlone ==
  ASSUME AloneInv, IInv', NEW r \in Slots, SaveRow(r),
         approved' = IF SavesRelease(r)
                     THEN [approved EXCEPT ![req[r].on] = req[r].row.matched]
                     ELSE approved,
         settled' = IF Quiet' THEN Tables' ELSE settled
  PROVE  AloneInv' /\ [Serial!Next]_(Serial!vars)
<1>1. /\ InFlight(r) /\ req[r].pc = "save"
      /\ UNCHANGED <<caseStatus, parties, bindings>>
  BY DEF SaveRow, InFlight
<1>2. PICK q \in Requests : q = req[r] /\ Holds(q, Now)
  BY <1>1, InHand
<1>3. PICK k \in Keys, R \in Row :
        /\ k = q.on /\ R = settled.checks[k] /\ RowHolds(q, R, Now)
        /\ q.kind \in {"get", "list", "release", "reject"}
        /\ q.stage \in {"read", "decide"}
  BY <1>1, <1>2, RowWriter
<1>4. ReadHolds(q, R, Now) /\ DecideHolds(q, R, Now) /\ R.status # "absent"
  BY <1>3 DEF RowHolds
<1>5. /\ \A s \in Slots \ {r} : req'[s] = req[s]
      /\ checks' = [checks EXCEPT ![k] = q.row]
      /\ req'[r] = IF q.stage = "decide" /\ q.kind = "reject" THEN Reenrich(q)
                   ELSE [q EXCEPT !.pc = "unbind"]
  BY <1>1, <1>2, <1>3, InHand DEF SaveRow, Goto
<1> DEFINE next  == [q EXCEPT !.pc = "unbind"]
           links == IF Moved(R) THEN LiveOf(R) ELSE settled.bindings[k]
           old   == settled.bindings[k]
           ok    == settled.approved[k]
<1>6. approved' \in [Keys -> SUBSET Snapshot]
  BY <1>2 DEF AloneInv, Requests, Row
<1>7. ASSUME NEW after, after.pc \notin {"find"}, after.kind = q.kind, after.on = q.on,
             after.pc \in {"hits", "unbind"}, req'[r] = after,
             ReadHolds(after, R, Now'), DecideHolds(after, R, Now')
      PROVE  AloneInv' /\ [Serial!Next]_(Serial!vars)
  <2>1. RowHolds(after, R, Now')
    BY <1>3, <1>4, <1>7 DEF RowHolds
  <2>2. Holds(after, Now')
    BY <1>3, <1>7, <2>1 DEF Holds
  <2> QED BY <1>1, <1>5, <1>6, <1>7, <2>2, WritesOn
<1>8. ASSUME NEW row, NEW ls, NEW a, Now = But(k, row, ls, a)
      PROVE  Now' = But(k, q.row, ls, IF SavesRelease(r) THEN q.row.matched ELSE a)
  <2> DEFINE b == IF SavesRelease(r) THEN q.row.matched ELSE a
  <2>1. /\ \A new, c : [checks EXCEPT ![k] = new] = checks'
                     /\ [approved EXCEPT ![k] = c] = approved'
                     /\ UNCHANGED bindings
                     => Now' = But(k, new, ls, c)
        /\ approved = [approved EXCEPT ![k] = a]
    BY <1>8, Written
  <2>2. approved' = [approved EXCEPT ![k] = b]
    BY <1>2, <1>3, <2>1
  <2> HIDE DEF b
  <2>3. Now' = But(k, q.row, ls, b)
    BY <1>1, <1>5, <2>1, <2>2
  <2> QED BY <2>3 DEF b
<1>9. CASE q.stage = "read"
  <2>1. Now = But(k, R, old, ok) /\ Moved(R) /\ q.row = Back(R) /\ q.live = LiveOf(R)
        /\ q.kind # "list"
    BY <1>1, <1>2, <1>3, <1>4, <1>9, BeforeIsBut DEF ReadHolds
  <2> HIDE DEF old, ok
  <2>2. Now' = But(k, Back(R), old, ok)
    BY <1>2, <1>9, <1>8, <2>1 DEF SavesRelease
  <2>3. /\ next.pc = "unbind" /\ next.kind = q.kind /\ next.on = q.on
        /\ next.row = q.row /\ next.live = q.live /\ next.stage = "read"
    BY <1>9, AfterWrite
  <2>4. req'[r] = next
    BY <1>5, <1>9
  <2> HIDE DEF next
  <2>5. ReadHolds(next, R, Now') /\ DecideHolds(next, R, Now')
    BY <1>3, <2>1, <2>2, <2>3 DEF ReadHolds, DecideHolds, old, ok
  <2> QED BY <1>7, <2>3, <2>4, <2>5
<1>10. CASE q.stage = "decide" /\ q.kind = "release"
  <2>1. /\ Now = But(k, Back(R), links, ok) /\ CanDecide(Back(R).status)
        /\ q.row = ReleasedRow(Back(R), LiveOf(R)) /\ q.live = LiveOf(R)
        /\ LiveOf(R) # {}
    BY <1>1, <1>2, <1>3, <1>4, <1>10 DEF DecideHolds
  <2>2. q.row.matched = LiveOf(R)
    <3>1. ReleasedRow(Back(R), LiveOf(R)).matched = LiveOf(R)
      BY DEF ReleasedRow, Back, RevalidatedRow, Row
    <3> QED BY <2>1, <3>1
  <2> HIDE DEF links, ok
  <2>3. Now' = But(k, q.row, links, LiveOf(R))
    BY <1>1, <1>2, <1>10, <1>8, <2>1, <2>2 DEF SavesRelease
  <2>4. /\ next.pc = "unbind" /\ next.kind = q.kind /\ next.on = q.on
        /\ next.row = q.row /\ next.live = q.live /\ next.stage = "decide"
    BY <1>10, AfterWrite
  <2>5. req'[r] = next
    BY <1>5, <1>10
  <2> HIDE DEF next
  <2>6. ReadHolds(next, R, Now') /\ DecideHolds(next, R, Now')
    BY <1>3, <1>10, <2>1, <2>3, <2>4 DEF ReadHolds, DecideHolds, links, ok
  <2> QED BY <1>7, <2>4, <2>5, <2>6
<1>11. CASE q.stage = "decide" /\ q.kind # "release"
  <2>1. /\ Now = But(k, Back(R), links, ok) /\ CanDecide(Back(R).status)
        /\ q.kind = "reject"
        /\ q.row = RejectedRow(Back(R)) /\ q.live = LiveOf(R)
    BY <1>1, <1>2, <1>3, <1>4, <1>11 DEF DecideHolds
  <2> HIDE DEF links, ok
  <2>2. Now' = But(k, q.row, links, ok)
    BY <1>2, <1>11, <1>8, <2>1 DEF SavesRelease
  <2> DEFINE after == Reenrich(q)
  <2>3. /\ after.pc = "hits" /\ after.kind = q.kind /\ after.on = q.on
        /\ after.row = q.row /\ after.live = q.live /\ after.stage = "final"
    BY <1>11, AfterWrite
  <2>4. req'[r] = after
    BY <1>5, <1>11, <2>1
  <2> HIDE DEF after
  <2>5. ReadHolds(after, R, Now') /\ DecideHolds(after, R, Now')
    BY <1>3, <1>11, <2>1, <2>2, <2>3 DEF ReadHolds, DecideHolds, links, ok
  <2> QED BY <1>7, <2>3, <2>4, <2>5
<1> QED BY <1>3, <1>9, <1>10, <1>11

(* A write of the links of a key that leaves the request to go on.         *)
LEMMA LinksAlone ==
  ASSUME AloneInv, IInv', NEW r \in Slots, InFlight(r), NEW q \in Requests, q = req[r],
         RowHolds(q, settled.checks[q.on], Now), q.on \in Keys,
         UNCHANGED <<caseStatus, parties, checks, approved>>,
         \A s \in Slots \ {r} : req'[s] = req[s],
         settled' = IF Quiet' THEN Tables' ELSE settled,
         NEW after, req'[r] = after, after.pc \in {"hits", "bind"},
         after.kind = q.kind, after.on = q.on,
         ReadHolds(after, settled.checks[q.on], Now'),
         DecideHolds(after, settled.checks[q.on], Now')
  PROVE  AloneInv' /\ [Serial!Next]_(Serial!vars)
<1>1. RowHolds(after, settled.checks[q.on], Now')
  BY DEF RowHolds
<1>2. Holds(after, Now')
  BY <1>1 DEF Holds, RowHolds
<1>3. approved' \in [Keys -> SUBSET Snapshot]
  BY DEF AloneInv
<1> QED BY <1>2, <1>3, WritesOn

LEMMA DeleteBindingsAlone ==
  ASSUME AloneInv, IInv', NEW r \in Slots, DeleteBindings(r), UNCHANGED approved,
         settled' = IF Quiet' THEN Tables' ELSE settled
  PROVE  AloneInv' /\ [Serial!Next]_(Serial!vars)
<1>1. /\ InFlight(r) /\ req[r].pc = "unbind"
      /\ UNCHANGED <<caseStatus, parties, checks>>
  BY DEF DeleteBindings, InFlight
<1>2. PICK q \in Requests : q = req[r] /\ Holds(q, Now)
  BY <1>1, InHand
<1>3. PICK k \in Keys, R \in Row :
        /\ k = q.on /\ R = settled.checks[k] /\ RowHolds(q, R, Now)
        /\ q.kind \in {"get", "list", "release", "reject"}
        /\ q.stage \in {"read", "decide"}
  BY <1>1, <1>2, RowWriter
<1>4. ReadHolds(q, R, Now) /\ DecideHolds(q, R, Now) /\ R.status # "absent"
  BY <1>3 DEF RowHolds
<1> DEFINE links == IF Moved(R) THEN LiveOf(R) ELSE settled.bindings[k]
           old   == settled.bindings[k]
           ok    == settled.approved[k]
           again == Reenrich(q)
           next  == [q EXCEPT !.pc = "bind"]
<1>5. /\ \A s \in Slots \ {r} : req'[s] = req[s]
      /\ bindings' = [bindings EXCEPT ![k] = {}]
      /\ req'[r] = IF q.live = {} THEN again ELSE next
  BY <1>1, <1>2, <1>3, InHand DEF DeleteBindings, Goto
<1>6. ASSUME NEW row, NEW ls, NEW a, Now = But(k, row, ls, a)
      PROVE  Now' = But(k, row, {}, a)
  <2>1. \A new : [bindings EXCEPT ![k] = new] = bindings' /\ UNCHANGED <<checks, approved>>
                 => Now' = But(k, row, new, a)
    BY <1>6, Written
  <2> QED BY <1>1, <1>5, <2>1
<1>7. /\ next.pc = "bind" /\ next.kind = q.kind /\ next.on = q.on
      /\ next.row = q.row /\ next.live = q.live /\ next.stage = q.stage
      /\ again.pc = "hits" /\ again.kind = q.kind /\ again.on = q.on
      /\ again.row = q.row /\ again.live = q.live
      /\ again.stage = IF q.stage = "decide" THEN "final" ELSE "reread"
  BY AfterWrite
<1> HIDE DEF next, again
<1>8. CASE q.stage = "read"
  <2>1. /\ Now = But(k, Back(R), old, ok) /\ Moved(R) /\ q.row = Back(R)
        /\ q.live = LiveOf(R) /\ q.kind # "list"
    BY <1>1, <1>2, <1>3, <1>4, <1>8 DEF ReadHolds
  <2> HIDE DEF old, ok
  <2>2. Now' = But(k, Back(R), {}, ok)
    BY <1>6, <2>1
  <2>3. CASE q.live = {}
    <3>1. ReadHolds(again, R, Now') /\ DecideHolds(again, R, Now')
      BY <1>3, <1>7, <1>8, <2>1, <2>2, <2>3 DEF ReadHolds, DecideHolds, ok
    <3> QED BY <1>1, <1>2, <1>3, <1>5, <1>7, <2>3, <3>1, LinksAlone
  <2>4. CASE q.live # {}
    <3>1. ReadHolds(next, R, Now') /\ DecideHolds(next, R, Now')
      BY <1>3, <1>7, <1>8, <2>1, <2>2 DEF ReadHolds, DecideHolds, ok
    <3> QED BY <1>1, <1>2, <1>3, <1>5, <1>7, <2>4, <3>1, LinksAlone
  <2> QED BY <2>3, <2>4
<1>9. CASE q.stage = "decide"
  <2>1. /\ Now = But(k, q.row, links, LiveOf(R)) /\ CanDecide(Back(R).status)
        /\ q.kind = "release" /\ q.row = ReleasedRow(Back(R), LiveOf(R))
        /\ q.live = LiveOf(R) /\ LiveOf(R) # {}
    BY <1>1, <1>2, <1>3, <1>4, <1>9 DEF DecideHolds
  <2> HIDE DEF links
  <2>2. Now' = But(k, q.row, {}, LiveOf(R))
    BY <1>6, <2>1
  <2>3. ReadHolds(next, R, Now') /\ DecideHolds(next, R, Now')
    BY <1>3, <1>7, <1>9, <2>1, <2>2 DEF ReadHolds, DecideHolds
  <2> QED BY <1>1, <1>2, <1>3, <1>5, <1>7, <2>1, <2>3, LinksAlone
<1> QED BY <1>3, <1>8, <1>9

LEMMA InsertBindingsAlone ==
  ASSUME AloneInv, IInv', NEW r \in Slots, InsertBindings(r), UNCHANGED approved,
         settled' = IF Quiet' THEN Tables' ELSE settled
  PROVE  AloneInv' /\ [Serial!Next]_(Serial!vars)
<1>1. /\ InFlight(r) /\ req[r].pc = "bind"
      /\ UNCHANGED <<caseStatus, parties, checks>>
  BY DEF InsertBindings, InFlight
<1>2. PICK q \in Requests : q = req[r] /\ Holds(q, Now)
  BY <1>1, InHand
<1>3. PICK k \in Keys, R \in Row :
        /\ k = q.on /\ R = settled.checks[k] /\ RowHolds(q, R, Now)
        /\ q.kind \in {"get", "list", "release", "reject"}
        /\ q.stage \in {"read", "decide"}
  BY <1>1, <1>2, RowWriter
<1>4. ReadHolds(q, R, Now) /\ DecideHolds(q, R, Now) /\ R.status # "absent"
  BY <1>3 DEF RowHolds
<1> DEFINE ok    == settled.approved[k]
           again == Reenrich(q)
<1>5. PICK row, a : Now = But(k, row, {}, a)
  <2>1. CASE q.stage = "read"
    BY <1>1, <1>2, <1>3, <1>4, <2>1 DEF ReadHolds
  <2>2. CASE q.stage = "decide"
    BY <1>1, <1>2, <1>3, <1>4, <2>2 DEF DecideHolds
  <2> QED BY <1>3, <2>1, <2>2
<1>6. bindings[k] = {}
  BY <1>5, Written
<1>7. /\ \A s \in Slots \ {r} : req'[s] = req[s]
      /\ bindings' = [bindings EXCEPT ![k] = q.live]
      /\ req'[r] = again
  <2>1. ~SharesParty(q.live, bindings[k])
    BY <1>6 DEF SharesParty
  <2>2. bindings[k] \cup q.live = q.live
    BY <1>6
  <2>3. /\ Goto(r, again)
        /\ bindings' = [bindings EXCEPT ![k] = bindings[k] \cup q.live]
    BY <1>2, <1>3, <2>1 DEF InsertBindings
  <2> HIDE DEF again
  <2> QED BY <1>1, <2>2, <2>3, InHand DEF Goto
<1>8. ASSUME NEW rw, NEW ls, NEW b, Now = But(k, rw, ls, b)
      PROVE  Now' = But(k, rw, q.live, b)
  <2>1. \A new : [bindings EXCEPT ![k] = new] = bindings' /\ UNCHANGED <<checks, approved>>
                 => Now' = But(k, rw, new, b)
    BY <1>8, Written
  <2> QED BY <1>1, <1>7, <2>1
<1>9. /\ again.pc = "hits" /\ again.kind = q.kind /\ again.on = q.on
      /\ again.row = q.row /\ again.live = q.live
      /\ again.stage = IF q.stage = "decide" THEN "final" ELSE "reread"
  BY AfterWrite
<1> HIDE DEF again
<1>10. ReadHolds(again, R, Now') /\ DecideHolds(again, R, Now')
  <2>1. CASE q.stage = "read"
    <3>1. /\ Now = But(k, Back(R), {}, ok) /\ Moved(R) /\ q.row = Back(R)
          /\ q.live = LiveOf(R) /\ q.kind # "list"
      BY <1>1, <1>2, <1>3, <1>4, <2>1 DEF ReadHolds
    <3> HIDE DEF ok
    <3>2. Now' = But(k, Back(R), LiveOf(R), ok)
      BY <1>8, <3>1
    <3> QED BY <1>3, <1>9, <2>1, <3>1, <3>2 DEF ReadHolds, DecideHolds, ok
  <2>2. CASE q.stage = "decide"
    <3>1. /\ Now = But(k, q.row, {}, LiveOf(R)) /\ CanDecide(Back(R).status)
          /\ q.kind = "release" /\ q.row = ReleasedRow(Back(R), LiveOf(R))
          /\ q.live = LiveOf(R) /\ LiveOf(R) # {}
      BY <1>1, <1>2, <1>3, <1>4, <2>2 DEF DecideHolds
    <3>2. Now' = But(k, q.row, LiveOf(R), LiveOf(R))
      BY <1>8, <3>1
    <3> QED BY <1>3, <1>9, <2>2, <3>1, <3>2 DEF ReadHolds, DecideHolds
  <2> QED BY <1>3, <2>1, <2>2
<1> QED BY <1>1, <1>2, <1>3, <1>7, <1>9, <1>10, LinksAlone

-----------------------------------------------------------------------------
(* The registry: an update of a party, and the writes of one statement.    *)
LEMMA SameRegistry ==
  ASSUME AloneInv, Now = Before
  PROVE  /\ settled.caseStatus = caseStatus /\ settled.parties = parties
         /\ settled.checks = checks /\ settled.bindings = bindings
         /\ settled.approved = approved
         /\ \A p : /\ Serial!Registered(p) = Registered(p)
                   /\ Serial!Revoked(p) = Revoked(p)
         /\ \A party, name, id : Serial!WithIdentity(party, name, id)
                                   = WithIdentity(party, name, id)
         /\ \A p, c, side, name, id : Serial!IdentityTaken(p, c, side, name, id)
                                        = IdentityTaken(p, c, side, name, id)
<1>1. /\ settled.caseStatus = caseStatus /\ settled.parties = parties
      /\ settled.checks = checks /\ settled.bindings = bindings
      /\ settled.approved = approved
  BY DEF AloneInv, SettledOK, Now, Before
<1>2. \A p : Serial!Registered(p) = Registered(p)
  BY <1>1 DEF Serial!Registered, Registered
<1>3. \A p : Serial!Revoked(p) = Revoked(p)
  BY <1>1 DEF Serial!Revoked, Revoked
<1>4. \A party, name, id : Serial!WithIdentity(party, name, id)
                             = WithIdentity(party, name, id)
  BY DEF Serial!WithIdentity, WithIdentity, Serial!Kept, Kept
<1>5. \A p, c, side, name, id : Serial!IdentityTaken(p, c, side, name, id)
                                  = IdentityTaken(p, c, side, name, id)
  BY <1>1, <1>2 DEF Serial!IdentityTaken, IdentityTaken
<1> QED BY <1>1, <1>2, <1>3, <1>4, <1>5

LEMMA FindPartyAlone ==
  ASSUME AloneInv, IInv', NEW r \in Slots, FindParty(r), UNCHANGED approved,
         settled' = IF Quiet' THEN Tables' ELSE settled
  PROVE  AloneInv' /\ [Serial!Next]_(Serial!vars)
<1>1. /\ InFlight(r) /\ Linked(r) /\ req[r].pc = "find" /\ req[r].kind = "update"
      /\ UNCHANGED <<caseStatus, parties, checks, bindings>>
  BY DEF FindParty, InFlight, Linked
<1>2. PICK q \in Requests : q = req[r] /\ Holds(q, Now)
  BY <1>1, InHand
<1>3. UpdateHolds(q, Now)
  BY <1>1, <1>2 DEF Holds
<1>4. PICK party : party = parties[q.on]
  OBVIOUS
<1> DEFINE next == [q EXCEPT !.pc = "write", !.party = party]
<1>5. req'[r] = next /\ \A s \in Slots \ {r} : req'[s] = req[s]
  BY <1>1, <1>2, <1>4, InHand DEF FindParty, Goto
<1>6. /\ next.pc = "write" /\ next.kind = "update" /\ next.on = q.on
      /\ next.name = q.name /\ next.id = q.id /\ next.party = party
  BY <1>1, <1>2 DEF Requests
<1> HIDE DEF next
<1>7. Holds(next, Now)
  BY <1>3, <1>4, <1>6 DEF Holds, UpdateHolds
<1> QED BY <1>1, <1>5, <1>7, Reads

LEMMA SavePartyAlone ==
  ASSUME AloneInv, IInv', NEW r \in Slots, SaveParty(r) \/ SaveIdentity(r),
         UNCHANGED approved, settled' = IF Quiet' THEN Tables' ELSE settled
  PROVE  AloneInv' /\ [Serial!Next]_(Serial!vars)
<1>1. /\ InFlight(r) /\ Linked(r) /\ req[r].pc = "write"
      /\ UNCHANGED <<caseStatus, bindings>>
  BY DEF SaveParty, SaveIdentity, InFlight, Linked
<1>2. PICK q \in Requests : q = req[r] /\ Holds(q, Now) /\ PlaceOK(q)
  BY <1>1, InHand
<1>3. UpdateHolds(q, Now)
  <2>1. q.kind = "update"
    BY <1>1, <1>2, FoundRow DEF SubmitHolds, RowHolds
  <2> QED BY <1>2, <2>1 DEF Holds
<1>4. PICK p \in Parties, n \in Spellings, i \in Spellings :
        /\ p = q.on /\ Registered(p) /\ q.party = parties[p]
        /\ q.name = Normalize(n) /\ q.id = Normalize(i)
  BY <1>1, <1>2, <1>3 DEF UpdateHolds
<1>5. Now = Before /\ parties \in [Parties -> Party]
  BY <1>3 DEF UpdateHolds, AloneInv, IInv, TypeOK, RegistryTypeOK
<1>6. req'[r].pc = "done" /\ \A s \in Slots \ {r} : req'[s] = req[s]
  <2>1. PICK outcome : req' = [req EXCEPT ![r] = Answer(r, outcome)]
    BY DEF SaveParty, SaveIdentity, Goto
  <2>2. Answer(r, outcome).pc = "done"
    BY DEF Answer, Idle
  <2> QED BY <1>1, <2>1, <2>2, InHand
<1> DEFINE new   == WithIdentity(parties[p], q.name, q.id)
           taken == IdentityTaken(p, new.case, new.side, new.name, new.id)
           saved == ~taken /\ parties[p].version < MaxVersion
<1>7. CASE SaveParty(r) \/ (SaveIdentity(r) /\ ~saved)
  <2>1. UNCHANGED <<parties, checks>>
    BY <1>2, <1>4, <1>5, <1>7 DEF SaveParty, SaveIdentity
  <2> QED BY <1>1, <1>6, <2>1, Reads
<1>8. CASE SaveIdentity(r) /\ saved
  <2>1. AloneInv' /\ settled' = Tables'
    <3>1. approved' \in [Keys -> SUBSET Snapshot]
      BY DEF AloneInv
    <3> QED BY <1>1, <1>6, <3>1, Ends
  <2>2. /\ new # parties[p]
        /\ parties' = [parties EXCEPT ![p] = [new EXCEPT !.version = @ + 1]]
        /\ checks' = Revoked(p)
    BY <1>2, <1>4, <1>8 DEF SaveIdentity
  <2>3. new.version = parties[p].version
    BY DEF WithIdentity
  <2>4. PICK party : /\ party = [new EXCEPT !.version = parties[p].version + 1]
                     /\ parties' = [parties EXCEPT ![p] = party]
    BY <2>2, <2>3
  <2>5. /\ settled'.caseStatus = settled.caseStatus
        /\ settled'.parties = [settled.parties EXCEPT ![p] = party]
        /\ party = [new EXCEPT !.version = settled.parties[p].version + 1]
        /\ settled'.checks = Serial!Revoked(p)
        /\ settled'.bindings = settled.bindings
        /\ settled'.approved = settled.approved
    <3>1. /\ settled.caseStatus = caseStatus /\ settled.parties = parties
          /\ settled.bindings = bindings /\ settled.approved = approved
          /\ Serial!Revoked(p) = Revoked(p)
      BY <1>5, SameRegistry
    <3>2. /\ settled'.caseStatus = caseStatus' /\ settled'.parties = parties'
          /\ settled'.checks = checks' /\ settled'.bindings = bindings'
          /\ settled'.approved = approved'
      BY <2>1 DEF Tables
    <3> HIDE DEF new
    <3> QED BY <1>1, <2>2, <2>4, <3>1, <3>2
  <2>6. /\ new = Serial!WithIdentity(settled.parties[p], Serial!Normalize(n),
                                     Serial!Normalize(i))
        /\ ~Serial!IdentityTaken(p, new.case, new.side, new.name, new.id)
        /\ Serial!Registered(p) /\ new # settled.parties[p]
        /\ settled.parties[p].version < MaxVersion
    <3>1. Serial!Normalize(n) = q.name /\ Serial!Normalize(i) = q.id
      BY <1>4, SameRules
    <3>2. settled.parties = parties /\ Serial!Registered(p)
      BY <1>4, <1>5, SameRegistry
    <3>3. ~Serial!IdentityTaken(p, new.case, new.side, new.name, new.id)
      BY <1>5, <1>8, SameRegistry
    <3>4. new = Serial!WithIdentity(parties[p], q.name, q.id)
      BY <1>5, SameRegistry
    <3> QED BY <1>8, <2>2, <3>1, <3>2, <3>3, <3>4
  <2> HIDE DEF new
  <2>7. Serial!UpdateParty(p, n, i)
    BY <2>5, <2>6 DEF Serial!UpdateParty
  <2> QED BY <2>1, <2>7 DEF Serial!Next, Serial!RegistryStep
<1> QED BY <1>7, <1>8

LEMMA RegistryAlone ==
  ASSUME AloneInv, IInv', Quiet, RegistryStep, UNCHANGED approved,
         settled' = IF Quiet' THEN Tables' ELSE settled
  PROVE  AloneInv' /\ [Serial!Next]_(Serial!vars)
<1>1. UNCHANGED <<checks, bindings, req>>
  BY DEF RegistryStep, ChangeCaseStatus, AddParty
<1>2. AloneInv' /\ settled' = Tables'
  <2>1. Quiet' /\ approved' \in [Keys -> SUBSET Snapshot]
    BY <1>1 DEF Quiet, InFlight, AloneInv
  <2> QED BY <2>1, Rests
<1>3. Now = Before
  BY DEF AloneInv
<1>4. /\ settled'.checks = settled.checks /\ settled'.bindings = settled.bindings
      /\ settled'.approved = settled.approved
      /\ settled'.caseStatus = caseStatus' /\ settled'.parties = parties'
      /\ settled.caseStatus = caseStatus /\ settled.parties = parties
  BY <1>1, <1>2, <1>3, SameRegistry DEF Tables
<1>5. ASSUME NEW c \in Cases, NEW s \in CaseStatuses, ChangeCaseStatus(c, s)
      PROVE  Serial!ChangeCaseStatus(c, s)
  BY <1>4, <1>5 DEF ChangeCaseStatus, SetCaseStatus, Serial!ChangeCaseStatus,
                    Serial!SetCaseStatus
<1>6. ASSUME NEW p \in Parties, NEW c \in Cases, NEW s \in Sides,
             NEW i \in Identities, AddParty(p, c, s, i)
      PROVE  Serial!AddParty(p, c, s, i[1], i[2])
  <2>1. Serial!Normalize(i[1]) = Normalize(i[1]) /\ Serial!Normalize(i[2]) = Normalize(i[2])
    BY SameRules
  <2>2. /\ Serial!Registered(p) = Registered(p)
        /\ \A name, id : Serial!IdentityTaken(p, c, s, name, id)
                           = IdentityTaken(p, c, s, name, id)
    BY <1>3, SameRegistry
  <2> QED BY <1>4, <1>6, <2>1, <2>2 DEF AddParty, InsertParty, Serial!AddParty,
                                       Serial!InsertParty
<1>7. \A i \in Identities : i[1] \in Spellings /\ i[2] \in Spellings
  BY ConcurrentAssumption
<1>8. CASE \E c \in Cases, s \in CaseStatuses : ChangeCaseStatus(c, s)
  BY <1>2, <1>5, <1>8 DEF Serial!Next, Serial!RegistryStep
<1>9. CASE \E p \in Parties, c \in Cases, s \in Sides, i \in Identities :
             AddParty(p, c, s, i)
  <2>1. PICK p \in Parties, c \in Cases, s \in Sides, i \in Identities :
          AddParty(p, c, s, i)
    BY <1>9
  <2>2. Serial!AddParty(p, c, s, i[1], i[2])
    BY <1>6, <2>1
  <2>3. Serial!RegistryStep
    BY <1>7, <2>2 DEF Serial!RegistryStep
  <2> QED BY <1>2, <2>3 DEF Serial!Next
<1> QED BY <1>8, <1>9 DEF RegistryStep

-----------------------------------------------------------------------------
(* Clients, failures and restarts.                                         *)
LEMMA BeginsAlone ==
  ASSUME AloneInv, IInv', Quiet, NEW r \in Slots, UNCHANGED approved,
         settled' = IF Quiet' THEN Tables' ELSE settled,
         NEW kind \in Kinds, NEW on, NEW name, NEW id, NEW pc \in {"match", "find"},
         Begin(r, kind, on, name, id, pc),
         \A next : /\ next.pc = pc /\ next.kind = kind /\ next.on = on
                   /\ next.name = name /\ next.id = id /\ next.stage = "read"
                   => Holds(next, Now)
  PROVE  AloneInv' /\ [Serial!Next]_(Serial!vars)
<1> DEFINE next == [Idle EXCEPT !.pc = pc, !.kind = kind, !.on = on,
                               !.name = name, !.id = id]
<1>1. /\ next.pc = pc /\ next.kind = kind /\ next.on = on
      /\ next.name = name /\ next.id = id /\ next.stage = "read"
  BY DEF Idle
<1>2. /\ req'[r] = next /\ \A s \in Slots \ {r} : req'[s] = req[s]
      /\ UNCHANGED <<caseStatus, parties, checks, bindings>>
  BY DEF Begin, Goto, AloneInv, IInv, TypeOK
<1> HIDE DEF next
<1>3. Holds(next, Now) /\ Now' = Now
  BY <1>1, <1>2 DEF Now
<1>4. approved' \in [Keys -> SUBSET Snapshot] /\ next.pc \notin {"idle", "done"}
  BY <1>1 DEF AloneInv
<1>5. AloneInv' /\ UNCHANGED settled
  BY <1>2, <1>3, <1>4, GoesOn
<1> QED BY <1>5 DEF Serial!vars

LEMMA ClientAlone ==
  ASSUME AloneInv, IInv', Quiet, NEW r \in Slots, ClientStep(r), UNCHANGED approved,
         settled' = IF Quiet' THEN Tables' ELSE settled
  PROVE  AloneInv' /\ [Serial!Next]_(Serial!vars)
<1>1. /\ Now = Before
      /\ checks = settled.checks /\ checks \in [Keys -> Row]
  BY DEF AloneInv, Now, Before, SettledOK
<1>2. ASSUME NEW k \in Keys, NEW o \in Opponents, BeginSubmit(r, k, o)
      PROVE  AloneInv' /\ [Serial!Next]_(Serial!vars)
  <2>1. PICK n \in Spellings, i \in Spellings : n = o[1] /\ i = o[2]
    BY ConcurrentAssumption
  <2>2. PICK name, id : name = Normalize(n) /\ id = Normalize(i)
    OBVIOUS
  <2>3. name # Blank /\ Begin(r, "submit", k, name, id, "match")
    BY <1>2, <2>1, <2>2 DEF BeginSubmit
  <2>4. ASSUME NEW next, next.pc = "match", next.kind = "submit", next.on = k,
               next.name = name, next.id = id
        PROVE  Holds(next, Now)
    <3>1. \A R : SubmitHolds(next, R, Now)
      BY <1>1, <2>2, <2>3, <2>4 DEF SubmitHolds
    <3> QED BY <2>4, <3>1 DEF Holds
  <2>5. "submit" \in Kinds
    BY <2>3 DEF Begin
  <2> QED BY <2>3, <2>4, <2>5, BeginsAlone
<1>3. ASSUME NEW k \in Keys, NEW kind \in {"get", "list", "release", "reject"},
             BeginOnRow(r, kind, k)
      PROVE  AloneInv' /\ [Serial!Next]_(Serial!vars)
  <2>1. /\ settled.checks[k].status # "absent" /\ kind \in Kinds
        /\ Begin(r, kind, k, Blank, Blank, "find")
    BY <1>1, <1>3 DEF BeginOnRow, Begin
  <2>2. ASSUME NEW next, next.pc = "find", next.kind = kind, next.on = k,
               next.stage = "read"
        PROVE  Holds(next, Now)
    <3>1. RowHolds(next, settled.checks[k], Now)
      BY <1>1, <2>1, <2>2 DEF RowHolds, ReadHolds, DecideHolds
    <3> QED BY <2>2, <3>1 DEF Holds
  <2> QED BY <2>1, <2>2, BeginsAlone
<1>4. ASSUME NEW p \in Parties, NEW u \in Updates, BeginUpdate(r, p, u)
      PROVE  AloneInv' /\ [Serial!Next]_(Serial!vars)
  <2>1. PICK n \in Spellings, i \in Spellings : n = u[1] /\ i = u[2]
    BY ConcurrentAssumption
  <2>2. PICK name, id : name = Normalize(n) /\ id = Normalize(i)
    OBVIOUS
  <2>3. Registered(p) /\ Begin(r, "update", p, name, id, "find")
    BY <1>4, <2>1, <2>2 DEF BeginUpdate
  <2>4. ASSUME NEW next, next.pc = "find", next.kind = "update", next.on = p,
               next.name = name, next.id = id
        PROVE  Holds(next, Now)
    BY <1>1, <2>2, <2>3, <2>4 DEF Holds, UpdateHolds
  <2>5. "update" \in Kinds
    BY <2>3 DEF Begin
  <2> QED BY <2>3, <2>4, <2>5, BeginsAlone
<1>5. ASSUME Received(r)
      PROVE  AloneInv' /\ [Serial!Next]_(Serial!vars)
  <2>1. /\ UNCHANGED <<caseStatus, parties, checks, bindings>>
        /\ req'[r] = Idle /\ \A s \in Slots \ {r} : req'[s] = req[s]
    BY <1>5 DEF Received, Goto, AloneInv, IInv, TypeOK
  <2>2. Idle.pc = "idle" /\ approved' \in [Keys -> SUBSET Snapshot]
    BY DEF Idle, AloneInv
  <2>3. AloneInv' /\ settled' = Tables'
    BY <2>1, <2>2, Ends
  <2> QED BY <1>1, <2>1, <2>3, SettledAs
<1> QED BY <1>2, <1>3, <1>4, <1>5 DEF ClientStep

LEMMA FailsAlone ==
  ASSUME AloneInv, IInv', NEW r \in Slots, Linked(r), StatementFails(r),
         UNCHANGED approved, settled' = IF Quiet' THEN Tables' ELSE settled
  PROVE  AloneInv' /\ [Serial!Next]_(Serial!vars)
<1>1. InFlight(r) /\ UNCHANGED <<caseStatus, parties, checks, bindings>>
  BY DEF StatementFails
<1>2. req'[r] = Answer(r, "failed") /\ \A s \in Slots \ {r} : req'[s] = req[s]
  BY <1>1, InHand DEF StatementFails, Goto
<1>3. req'[r].pc = "done"
  BY <1>2 DEF Answer, Idle
<1> QED BY <1>1, <1>2, <1>3, Reads

LEMMA RestartAlone ==
  ASSUME AloneInv, IInv', \A r \in Slots : Linked(r), Restart, UNCHANGED approved,
         settled' = IF Quiet' THEN Tables' ELSE settled
  PROVE  AloneInv' /\ [Serial!Next]_(Serial!vars)
<1>1. /\ UNCHANGED <<caseStatus, parties, checks, bindings>>
      /\ req' = [r \in Slots |-> Idle] /\ Idle.pc = "idle"
  BY DEF Restart, Idle
<1>2. Quiet' /\ approved' \in [Keys -> SUBSET Snapshot]
  BY <1>1 DEF Quiet, InFlight, AloneInv
<1>3. AloneInv' /\ settled' = Tables'
  BY <1>2, Rests
<1>4. CASE Quiet
  <2>1. Now = Before
    BY <1>4 DEF AloneInv
  <2> QED BY <1>1, <1>3, <2>1, SettledAs
<1>5. CASE ~Quiet
  <2>1. PICK r \in Slots : InFlight(r)
    BY <1>5 DEF Quiet
  <2>2. Linked(r)
    OBVIOUS
  <2> QED BY <1>1, <1>3, <2>1, <2>2, RequestSettles
<1> QED BY <1>4, <1>5

-----------------------------------------------------------------------------
LEMMA AloneInitHolds == AloneInit => AloneInv
<1> SUFFICES ASSUME AloneInit PROVE AloneInv
  OBVIOUS
<1>1. IInv
  BY InitHolds DEF AloneInit
<1>2. approved \in [Keys -> SUBSET Snapshot] /\ settled = Tables
  BY DEF AloneInit
<1>3. SettledOK /\ Now = Before
  BY <1>1, <1>2 DEF SettledOK, Tables, Now, Before, IInv, TypeOK
<1>4. \A r \in Slots : ~InFlight(r)
  BY DEF AloneInit, Init, InFlight, Idle
<1> QED BY <1>1, <1>2, <1>3, <1>4 DEF AloneInv

LEMMA AloneStepIsStep == [AloneNext]_aloneVars => [Next]_vars
BY DEF AloneNext, HandlerStep, OtherStep, Next, aloneVars, vars

LEMMA AloneStep ==
  ASSUME AloneInv, [AloneNext]_aloneVars
  PROVE  AloneInv' /\ [Serial!Next]_(Serial!vars)
<1>1. IInv'
  BY AloneStepIsStep, NextKeeps DEF AloneInv
<1>2. CASE UNCHANGED aloneVars
  <2>1. /\ UNCHANGED <<caseStatus, parties, checks, bindings, req, approved, settled>>
        /\ Now' = Now /\ Before' = Before
    BY <1>2 DEF aloneVars, vars, Now, Before
  <2>2. \A r \in Slots : InFlight(r)' => \A q \in {req'[r]}, t \in {Now'} : Holds(q, t)'
    BY <2>1, HoldsStays DEF AloneInv, InFlight
  <2>3. AloneInv'
    BY <1>1, <2>1, <2>2 DEF AloneInv, SettledOK, Quiet, InFlight
  <2> QED BY <2>1, <2>3 DEF Serial!vars
<1>3. CASE AloneNext
  <2>1. settled' = IF Quiet' THEN Tables' ELSE settled
    BY <1>3 DEF AloneNext
  <2>2. ASSUME NEW r \in Slots, HandlerStep(r)
        PROVE  AloneInv' /\ [Serial!Next]_(Serial!vars)
    <3>1. /\ approved' = IF SavesRelease(r)
                         THEN [approved EXCEPT ![req[r].on] = req[r].row.matched]
                         ELSE approved
          /\ Step(r)
      BY <2>2 DEF HandlerStep
    <3>2. req[r].pc # "save" => UNCHANGED approved
      BY <3>1 DEF SavesRelease
    <3>3. CASE SubmitMatch(r)
      BY <1>1, <2>1, <3>2, <3>3, SubmitMatchAlone DEF SubmitMatch
    <3>4. CASE SubmitFind(r)
      BY <1>1, <2>1, <3>2, <3>4, SubmitFindAlone DEF SubmitFind
    <3>5. CASE SubmitDuplicate(r)
      BY <1>1, <2>1, <3>2, <3>5, SubmitDuplicateAlone DEF SubmitDuplicate
    <3>6. CASE SubmitCommit(r)
      BY <1>1, <2>1, <3>2, <3>6, SubmitCommitAlone DEF SubmitCommit
    <3>7. CASE FindRow(r)
      BY <1>1, <2>1, <3>2, <3>7, FindRowAlone DEF FindRow
    <3>8. CASE ReadHits(r)
      BY <1>1, <2>1, <3>2, <3>8, ReadHitsAlone DEF ReadHits
    <3>9. CASE ReadCurrent(r)
      BY <1>1, <2>1, <3>2, <3>9, ReadCurrentAlone DEF ReadCurrent
    <3>10. CASE SaveRow(r)
      BY <1>1, <2>1, <3>1, <3>10, SaveRowAlone
    <3>11. CASE DeleteBindings(r)
      BY <1>1, <2>1, <3>2, <3>11, DeleteBindingsAlone DEF DeleteBindings
    <3>12. CASE InsertBindings(r)
      BY <1>1, <2>1, <3>2, <3>12, InsertBindingsAlone DEF InsertBindings
    <3>13. CASE FindParty(r)
      BY <1>1, <2>1, <3>2, <3>13, FindPartyAlone DEF FindParty
    <3>14. CASE SaveParty(r) \/ SaveIdentity(r)
      <4>1. req[r].pc = "write"
        BY <3>14 DEF SaveParty, SaveIdentity
      <4> QED BY <1>1, <2>1, <3>2, <3>14, <4>1, SavePartyAlone
    <3> QED BY <3>1, <3>3, <3>4, <3>5, <3>6, <3>7, <3>8, <3>9, <3>10, <3>11, <3>12,
               <3>13, <3>14 DEF Step
  <2>3. CASE OtherStep
    BY <1>1, <2>1, <2>3, ClientAlone, RegistryAlone, FailsAlone, RestartAlone
    DEF OtherStep
  <2> QED BY <1>3, <2>2, <2>3 DEF AloneNext
<1> QED BY <1>2, <1>3

LEMMA AlwaysAloneInv == AloneSpec => []AloneInv
<1>1. AloneInv /\ [AloneNext]_aloneVars => AloneInv'
  BY AloneStep
<1> QED BY <1>1, AloneInitHolds, PTL DEF AloneSpec

(* One request at a time, the statements of a handler, up to wherever it   *)
(* ends, are one step of ConflictService or none (conflict_service.go and  *)
(* case_party_service.go, each handler from its first statement on).       *)
THEOREM StatementsMakeHandlers == AloneSpec => RequestsAreHandlers
<1>1. AloneInv /\ [AloneNext]_aloneVars => [Serial!Next]_(Serial!vars)
  BY AloneStep
<1> QED BY <1>1, AlwaysAloneInv, PTL DEF AloneSpec, RequestsAreHandlers

-----------------------------------------------------------------------------
(* What is proved of ConflictService, of the tables between requests.      *)
Proved == INSTANCE ConflictServiceProofs WITH
  caseStatus <- settled.caseStatus, parties <- settled.parties,
  checks <- settled.checks, bindings <- settled.bindings,
  approved <- settled.approved,
  NameInputs <- Spellings, IdInputs <- Spellings

LEMMA ProvedAssumptions ==
  Proved!NormAssumption /\ Proved!RegistryAssumption /\ Proved!InputAssumption
BY NormAssumption, RegistryAssumption, ConcurrentAssumption
DEF Proved!NormAssumption, Proved!RegistryAssumption, Proved!InputAssumption

(* ConflictService is the same module in both instances: its rules,        *)
LEMMA SameRulesProved ==
  ASSUME NEW row, NEW name, NEW id, NEW hits, NEW current, NEW status
  PROVE  /\ Serial!Normalize(name) = Proved!Normalize(name)
         /\ Serial!FreshRow(name, id, hits) = Proved!FreshRow(name, id, hits)
         /\ Serial!ResubmittedRow(row, name, id, hits)
              = Proved!ResubmittedRow(row, name, id, hits)
         /\ Serial!NextStatus(row, hits, current)
              = Proved!NextStatus(row, hits, current)
         /\ Serial!RevalidatedRow(row, hits, status)
              = Proved!RevalidatedRow(row, hits, status)
         /\ Serial!ReleasedRow(row, hits) = Proved!ReleasedRow(row, hits)
         /\ Serial!RejectedRow(row) = Proved!RejectedRow(row)
         /\ Serial!CanDecide(status) = Proved!CanDecide(status)
         /\ Serial!CanProceed(row, hits, current)
              = Proved!CanProceed(row, hits, current)
<1>1. Serial!Binding(hits) = Proved!Binding(hits) /\ Serial!Binding({}) = Proved!Binding({})
  BY DEF Serial!Binding, Proved!Binding, Serial!LeastVersion, Proved!LeastVersion,
         Serial!CombinedFingerprint, Proved!CombinedFingerprint
<1>2. Serial!NoRow = Proved!NoRow
  BY <1>1 DEF Serial!NoRow, Proved!NoRow
<1>3. Serial!FreshRow(name, id, hits) = Proved!FreshRow(name, id, hits)
  BY <1>1, <1>2 DEF Serial!FreshRow, Proved!FreshRow
<1>4. Serial!ResubmittedRow(row, name, id, hits)
        = Proved!ResubmittedRow(row, name, id, hits)
  BY <1>1
  DEF Serial!ResubmittedRow, Proved!ResubmittedRow, Serial!CollapseStatus,
      Proved!CollapseStatus, Serial!BindingUnchanged, Proved!BindingUnchanged
<1>5. /\ Serial!HasNewHit(row, hits) = Proved!HasNewHit(row, hits)
      /\ Serial!StaleReason(row, hits, current)
           = Proved!StaleReason(row, hits, current)
  <2>1. Serial!HasNewHit(row, hits) = Proved!HasNewHit(row, hits)
    BY DEF Serial!HasNewHit, Proved!HasNewHit
  <2>2. \A c : Serial!IsOpenCase(c) = Proved!IsOpenCase(c)
    BY DEF Serial!IsOpenCase, Proved!IsOpenCase
  <2>3. \A m, c : Serial!SnapshotStale(m, c) = Proved!SnapshotStale(m, c)
    BY <2>2 DEF Serial!SnapshotStale, Proved!SnapshotStale, Serial!Fingerprint,
                Proved!Fingerprint
  <2>4. Serial!ProfileChanged(row, current) = Proved!ProfileChanged(row, current)
    BY <2>2, <2>3 DEF Serial!ProfileChanged, Proved!ProfileChanged
  <2>5. Serial!ChangedWhileOpen(row, current) = Proved!ChangedWhileOpen(row, current)
    BY <2>2 DEF Serial!ChangedWhileOpen, Proved!ChangedWhileOpen
  <2> QED BY <2>1, <2>4, <2>5 DEF Serial!StaleReason, Proved!StaleReason
<1>6. /\ Serial!NextStatus(row, hits, current)
           = Proved!NextStatus(row, hits, current)
      /\ Serial!CanProceed(row, hits, current)
           = Proved!CanProceed(row, hits, current)
  BY <1>5
  DEF Serial!NextStatus, Proved!NextStatus, Serial!CanProceed, Proved!CanProceed
<1>7. /\ Serial!Normalize(name) = Proved!Normalize(name)
      /\ Serial!RevalidatedRow(row, hits, status)
           = Proved!RevalidatedRow(row, hits, status)
      /\ Serial!CanDecide(status) = Proved!CanDecide(status)
      /\ Serial!RejectedRow(row) = Proved!RejectedRow(row)
  BY DEF Serial!Normalize, Proved!Normalize, Serial!RevalidatedRow,
         Proved!RevalidatedRow, Serial!CanDecide, Proved!CanDecide,
         Serial!RejectedRow, Proved!RejectedRow
<1>8. Serial!ReleasedRow(row, hits) = Proved!ReleasedRow(row, hits)
  BY <1>1 DEF Serial!ReleasedRow, Proved!ReleasedRow
<1> QED BY <1>3, <1>4, <1>6, <1>7, <1>8

(* its queries,                                                            *)
LEMMA SameQueriesProved ==
  ASSUME NEW row
  PROVE  /\ \A name, id : Serial!Live(name, id) = Proved!Live(name, id)
         /\ Serial!LiveOf(row) = Proved!LiveOf(row)
         /\ Serial!CurrentOf(row) = Proved!CurrentOf(row)
         /\ Serial!Moves(row) = Proved!Moves(row)
         /\ Serial!Revalidated(row) = Proved!Revalidated(row)
<1>1. /\ \A c : Serial!IsOpenCase(c) = Proved!IsOpenCase(c)
      /\ \A p : /\ Serial!Candidate(p) = Proved!Candidate(p)
                /\ Serial!Registered(p) = Proved!Registered(p)
  BY DEF Serial!IsOpenCase, Proved!IsOpenCase, Serial!Candidate, Proved!Candidate,
         Serial!Registered, Proved!Registered
<1>2. \A n, i : Serial!Live(n, i) = Proved!Live(n, i)
  <2> TAKE n, i
  <2>1. Serial!FindOpposingCandidates(n, i) = Proved!FindOpposingCandidates(n, i)
    BY <1>1 DEF Serial!FindOpposingCandidates, Proved!FindOpposingCandidates
  <2>2. \A c : /\ Serial!Opposing(c) = Proved!Opposing(c)
               /\ Serial!IdHit(i, c) = Proved!IdHit(i, c)
               /\ Serial!NameHit(n, c) = Proved!NameHit(n, c)
    BY <1>1 DEF Serial!Opposing, Proved!Opposing, Serial!IdHit, Proved!IdHit,
                Serial!NameHit, Proved!NameHit
  <2>3. \A cs : Serial!Match(n, i, cs) = Proved!Match(n, i, cs)
    BY <2>2 DEF Serial!Match, Proved!Match
  <2>4. \A hits : Serial!Snapshots(hits) = Proved!Snapshots(hits)
    BY DEF Serial!Snapshots, Proved!Snapshots, Serial!ToSnapshot,
           Proved!ToSnapshot, Serial!Fingerprint, Proved!Fingerprint
  <2> QED BY <2>1, <2>3, <2>4 DEF Serial!Live, Proved!Live
<1>3. Serial!LiveOf(row) = Proved!LiveOf(row)
  BY <1>2 DEF Serial!LiveOf, Proved!LiveOf
<1>4. Serial!CurrentOf(row) = Proved!CurrentOf(row)
  BY <1>1 DEF Serial!CurrentOf, Proved!CurrentOf,
              Serial!FindCandidatesByPartyIDs, Proved!FindCandidatesByPartyIDs
<1>5. /\ Serial!NextStatusOf(row) = Proved!NextStatusOf(row)
      /\ Serial!Moves(row) = Proved!Moves(row)
  BY <1>3, <1>4, SameRulesProved
  DEF Serial!NextStatusOf, Proved!NextStatusOf, Serial!Moves, Proved!Moves
<1>6. Serial!Revalidated(row) = Proved!Revalidated(row)
  BY <1>3, <1>5, SameRulesProved DEF Serial!Revalidated, Proved!Revalidated
<1> QED BY <1>2, <1>3, <1>4, <1>5, <1>6

(* and its steps.                                                          *)
LEMMA SameSteps ==
  ASSUME [Serial!Next]_(Serial!vars)
  PROVE  [Proved!Next]_(Proved!vars)
<1>1. CASE UNCHANGED Serial!vars
  BY <1>1 DEF Serial!vars, Proved!vars
<1>2. CASE Serial!RegistryStep
  <2>1. ASSUME NEW c \in Cases, Serial!CreateCase(c)
        PROVE  Proved!CreateCase(c)
    BY <2>1 DEF Serial!CreateCase, Proved!CreateCase
  <2>2. ASSUME NEW c \in Cases, NEW s \in CaseStatuses, Serial!ChangeCaseStatus(c, s)
        PROVE  Proved!ChangeCaseStatus(c, s)
    BY <2>2 DEF Serial!ChangeCaseStatus, Proved!ChangeCaseStatus,
                Serial!SetCaseStatus, Proved!SetCaseStatus
  <2>3. /\ \A p : /\ Serial!Registered(p) = Proved!Registered(p)
                  /\ Serial!Revoked(p) = Proved!Revoked(p)
        /\ \A s : Serial!Normalize(s) = Proved!Normalize(s)
        /\ \A party, name, id : Serial!WithIdentity(party, name, id)
                                  = Proved!WithIdentity(party, name, id)
    BY DEF Serial!Registered, Proved!Registered, Serial!Revoked, Proved!Revoked,
           Serial!Normalize, Proved!Normalize, Serial!WithIdentity,
           Proved!WithIdentity, Serial!Kept, Proved!Kept
  <2>4. \A p, c, side, name, id : Serial!IdentityTaken(p, c, side, name, id)
                                    = Proved!IdentityTaken(p, c, side, name, id)
    BY <2>3 DEF Serial!IdentityTaken, Proved!IdentityTaken
  <2>5. ASSUME NEW p \in Parties, NEW c \in Cases, NEW s \in Sides,
               NEW n \in Spellings, NEW i \in Spellings,
               Serial!AddParty(p, c, s, n, i)
        PROVE  Proved!AddParty(p, c, s, n, i)
    BY <2>3, <2>4, <2>5 DEF Serial!AddParty, Proved!AddParty,
                            Serial!InsertParty, Proved!InsertParty
  <2>6. ASSUME NEW p \in Parties, NEW n \in Spellings, NEW i \in Spellings,
               Serial!UpdateParty(p, n, i)
        PROVE  Proved!UpdateParty(p, n, i)
    BY <2>3, <2>4, <2>6 DEF Serial!UpdateParty, Proved!UpdateParty
  <2>7. Proved!RegistryStep
    BY <1>2, <2>1, <2>2, <2>5, <2>6 DEF Serial!RegistryStep, Proved!RegistryStep
  <2> QED BY <2>7 DEF Proved!Next
<1>3. CASE Serial!CheckStep
  <2>1. ASSUME NEW k \in Keys, NEW n \in Spellings, NEW i \in Spellings,
               Serial!Submit(k, n, i)
        PROVE  Proved!Submit(k, n, i)
    BY <2>1, SameRulesProved, SameQueriesProved
    DEF Serial!Submit, Proved!Submit, Serial!ReplaceBindings, Proved!ReplaceBindings
  <2>2. ASSUME NEW k \in Keys, Serial!Get(k) PROVE Proved!Get(k)
    BY <2>2, SameQueriesProved
    DEF Serial!Get, Proved!Get, Serial!ReplaceBindings, Proved!ReplaceBindings
  <2>3. ASSUME NEW k \in Keys, Serial!Release(k) PROVE Proved!Release(k)
    BY <2>3, SameRulesProved, SameQueriesProved
    DEF Serial!Release, Proved!Release, Serial!ReplaceBindings,
        Proved!ReplaceBindings
  <2>4. ASSUME NEW k \in Keys, Serial!Reject(k) PROVE Proved!Reject(k)
    BY <2>4, SameRulesProved, SameQueriesProved
    DEF Serial!Reject, Proved!Reject, Serial!ReplaceBindings, Proved!ReplaceBindings
  <2>5. Proved!CheckStep
    BY <1>3, <2>1, <2>2, <2>3, <2>4 DEF Serial!CheckStep, Proved!CheckStep
  <2> QED BY <2>5 DEF Proved!Next
<1> QED BY <1>1, <1>2, <1>3 DEF Serial!Next

(* So between requests the tables are as proved of ConflictService.        *)
LEMMA ProvedInit == AloneInit => Proved!IInv
<1> SUFFICES ASSUME AloneInit PROVE Proved!IInv
  OBVIOUS
<1>1. Init /\ settled = Tables /\ IInv
  BY InitHolds DEF AloneInit
<1>2. /\ settled.caseStatus = caseStatus /\ settled.parties = parties
      /\ settled.checks = [k \in Keys |-> NoRow]
      /\ settled.bindings = [k \in Keys |-> {}]
      /\ settled.approved = [k \in Keys |-> {}]
  BY <1>1 DEF AloneInit, Init, Tables
<1>3. /\ NoRow \in Proved!Row /\ NoRow.status = "absent" /\ NoRow.matched = {}
      /\ ~NoRow.reason
  <2>1. NoRow \in Row
    BY NoRowOK
  <2>2. Proved!Row = Row
    BY DEF Proved!Row, Row, Proved!Statuses, Statuses, Proved!Snapshot, Snapshot,
           Proved!Bindings, Bindings
  <2> QED BY <2>1, <2>2 DEF NoRow
<1>4. Proved!TypeOK
  <2>1. /\ caseStatus \in [Cases -> CaseStatuses \cup {"absent"}]
        /\ parties \in [Parties -> Party]
    BY <1>1 DEF IInv, TypeOK, RegistryTypeOK
  <2>2. Proved!RegistryTypeOK
    BY <1>2, <2>1 DEF Proved!RegistryTypeOK, Proved!Party, Party
  <2> QED BY <1>2, <1>3, <2>2 DEF Proved!TypeOK
<1>5. Proved!RowIntegrity /\ Proved!BindingsMirrorMatched
  BY <1>2, <1>3 DEF Proved!RowIntegrity, Proved!RowConsistent,
                    Proved!BindingsMirrorMatched
<1>6. Proved!ReleasedRowsAreCurrent /\ Proved!ReleaseCoversOnlyApproved
  BY <1>2, <1>3 DEF Proved!ReleasedRowsAreCurrent, Proved!ReleaseCoversOnlyApproved
<1> QED BY <1>4, <1>5, <1>6 DEF Proved!IInv

LEMMA ProvedStep ==
  ASSUME AloneInv, Proved!IInv, [AloneNext]_aloneVars
  PROVE  Proved!IInv'
<1>1. [Proved!Next]_(Proved!vars)
  BY AloneStep, SameSteps
<1> QED BY <1>1, ProvedAssumptions, Proved!InvariantStep

LEMMA AlwaysProved == AloneSpec => []Proved!IInv
<1>1. Proved!IInv /\ AloneInv /\ [AloneNext]_aloneVars => Proved!IInv'
  BY ProvedStep
<1> QED BY <1>1, AlwaysAloneInv, ProvedInit, PTL DEF AloneSpec

(* A row at rest that one may proceed with shows approved hits.            *)
Justified ==
  \A k \in Keys : \A row \in {checks[k]} :
    row.status # "absent" /\ CanProceed(row, LiveOf(row), CurrentOf(row))
    => LiveOf(row) \subseteq approved[k]

LEMMA RestJustifies == AloneInv /\ Quiet /\ Proved!IInv => Justified
<1> SUFFICES ASSUME AloneInv, Quiet, Proved!IInv PROVE Justified
  OBVIOUS
<1>1. Proved!ProceedJustified
  BY ProvedAssumptions, Proved!InvariantJustifies
<1>2. /\ settled.checks = checks /\ settled.approved = approved
      /\ settled.caseStatus = caseStatus /\ settled.parties = parties
  BY SameRegistry DEF AloneInv
<1>3. \A row : /\ Proved!LiveOf(row) = LiveOf(row)
               /\ Proved!CurrentOf(row) = CurrentOf(row)
  BY <1>2, SameQueries, SameQueriesProved
<1>4. \A row, hits, current :
        Proved!CanProceed(row, hits, current) = CanProceed(row, hits, current)
  BY SameRules, SameRulesProved
<1> QED BY <1>1, <1>2, <1>3, <1>4 DEF Proved!ProceedJustified, Justified

(* The row of an answer is the row stored.                                 *)
LEMMA RowAtHand ==
  ASSUME AloneInv, NEW q \in Requests, Holds(q, Now), q.pc \in {"hits", "current"}
  PROVE  /\ q.on \in Keys /\ q.row = checks[q.on]
         /\ q.pc = "current" => q.live = LiveOf(q.row)
<1>1. q.kind # "update"
  BY DEF Holds, UpdateHolds
<1>2. PICK k \in Keys, R \in Row :
        /\ k = q.on /\ R = settled.checks[k]
        /\ q.kind = "submit" => SubmitHolds(q, R, Now)
        /\ q.kind # "submit" => RowHolds(q, R, Now)
        /\ Now = Before => checks[k] = R
  BY <1>1, FoundRow
<1>3. \A row, links, ok : Now = But(k, row, links, ok) => checks[k] = row
  BY DEF Now, But, AloneInv, SettledOK
<1>4. CASE q.kind = "submit"
  BY <1>2, <1>3, <1>4 DEF SubmitHolds
<1>5. CASE q.kind # "submit"
  <2>1. ReadHolds(q, R, Now) /\ DecideHolds(q, R, Now)
    BY <1>2, <1>5 DEF RowHolds
  <2>2. CASE q.stage = "read"
    BY <1>2, <2>1, <2>2 DEF ReadHolds
  <2>3. CASE q.stage = "reread"
    BY <1>2, <1>3, <2>1, <2>3 DEF ReadHolds
  <2>4. CASE q.stage = "final"
    <3>1. q.row = checks[k]
      BY <1>2, <1>3, <2>1, <2>4 DEF DecideHolds
    <3> QED BY <1>2, <2>1, <3>1 DEF ReadHolds
  <2>5. q.stage # "decide"
    BY <2>1 DEF DecideHolds
  <2> QED BY <2>2, <2>3, <2>4, <2>5 DEF Requests
<1> QED BY <1>4, <1>5

LEMMA AnswerStep ==
  ASSUME AloneInv, [AloneNext]_aloneVars, Quiet' => Justified',
         NEW r \in Slots, req'[r].proceed, ~req[r].proceed
  PROVE  req'[r].live \subseteq approved'[req[r].on]
<1>1. ReadHits(r) \/ ReadCurrent(r)
  BY AloneStepIsStep, OnlyReadsProceed DEF AloneInv
<1>2. /\ InFlight(r) /\ req[r].pc \in {"hits", "current"}
      /\ UNCHANGED <<caseStatus, parties, checks, bindings>>
  BY <1>1 DEF ReadHits, ReadCurrent, InFlight
<1>3. PICK q \in Requests : q = req[r] /\ Holds(q, Now)
  BY <1>2, InHand
<1>4. /\ q.on \in Keys /\ q.row = checks[q.on]
      /\ q.pc = "current" => q.live = LiveOf(q.row)
  BY <1>2, <1>3, RowAtHand
<1>5. PICK row : row = q.row
  OBVIOUS
<1>6. /\ CanProceed(row, LiveOf(row), CurrentOf(row))
      /\ req'[r].live = LiveOf(row) /\ req'[r].pc = "done"
  <2>1. CASE ReadHits(r)
    <3> DEFINE next == [q EXCEPT !.pc = "current", !.live = LiveOf(q.row)]
    <3>1. ~next.proceed
      BY <1>3 DEF Requests
    <3>2. req'[r] = IF q.row.matched = {} THEN Enriched(r, LiveOf(q.row), {}) ELSE next
      BY <1>2, <1>3, <2>1, InHand DEF ReadHits, Goto
    <3>3. q.row.matched = {} /\ req'[r] = Enriched(r, LiveOf(q.row), {})
      BY <3>1, <3>2
    <3>4. CurrentOf(q.row) = {}
      BY <3>3 DEF CurrentOf, FindCandidatesByPartyIDs
    <3> QED BY <1>3, <1>5, <3>3, <3>4, EnrichedProceeds
  <2>2. CASE ReadCurrent(r)
    <3>1. req'[r] = Enriched(r, q.live, CurrentOf(q.row)) /\ q.pc = "current"
      BY <1>2, <1>3, <2>2, InHand DEF ReadCurrent, Goto
    <3> QED BY <1>3, <1>4, <1>5, <3>1, EnrichedProceeds
  <2> QED BY <1>1, <2>1, <2>2
<1>7. row.status # "absent"
  BY <1>6 DEF CanProceed
<1>8. row \in {checks'[q.on]} /\ LiveOf(row)' = LiveOf(row)
      /\ CurrentOf(row)' = CurrentOf(row)
  BY <1>2, <1>4, <1>5, QueriesStay
<1>9. Quiet'
  <2>1. \A s \in Slots \ {r} : req'[s] = req[s]
    BY <1>1, <1>2, InHand DEF ReadHits, ReadCurrent, Goto
  <2> QED BY <1>2, <1>6, <2>1 DEF Quiet, InFlight, AloneInv
<1> QED BY <1>3, <1>4, <1>6, <1>7, <1>8, <1>9 DEF Justified

(* When requests do not overlap, every hit shown under "can proceed" was   *)
(* approved as it is by the last release of the matter                     *)
(* (conflict_service.go, enrich and decide).                               *)
THEOREM AnswersAreRight == AloneSpec => AnswersAreJustified
<1> DEFINE Answered ==
      \A r \in Slots : req'[r].proceed /\ ~req[r].proceed
        => req'[r].live \subseteq approved'[req[r].on]
<1>1. AloneInv /\ (Quiet => Justified)' /\ [AloneNext]_aloneVars => [Answered]_aloneVars
  BY AnswerStep
<1>2. AloneSpec => [](Quiet => Justified)
  BY AlwaysProved, AlwaysAloneInv, RestJustifies, PTL
<1> QED BY <1>1, <1>2, AlwaysAloneInv, PTL DEF AloneSpec, AnswersAreJustified

(* Only requests that overlap, or one cut off between its writes, leave    *)
(* links that are not those of the conclusion                              *)
(* (conflict_check_repository.go, ReplaceBindings).                        *)
THEOREM LinksFollowSnapshots == AloneSpec => []LinksMatchSnapshots
<1>1. AloneInv /\ Proved!IInv => LinksMatchSnapshots
  <2> SUFFICES ASSUME AloneInv, Proved!IInv, Quiet, NEW k \in Keys
               PROVE  bindings[k] = checks[k].matched
    BY DEF LinksMatchSnapshots, Quiet
  <2>1. settled.checks = checks /\ settled.bindings = bindings
    BY SameRegistry DEF AloneInv
  <2> QED BY <2>1 DEF Proved!IInv, Proved!BindingsMirrorMatched
<1> QED BY <1>1, AlwaysProved, AlwaysAloneInv, PTL


(* The tables, looked at whenever nothing is in flight, only move as       *)
(* module Clearance promises: a matter is cleared by a release only, and   *)
(* falls in the request that changes an opponent's profile, whatever       *)
(* statements failed before (conflict_service.go and                       *)
(* case_party_service.go, all handlers).                                   *)
THEOREM StatementsKeepThePromise ==
  AloneSpec => [][Proved!Promise!Next]_(Proved!Promise!vars)
<1>1. AloneInv /\ Proved!IInv /\ [AloneNext]_aloneVars
      => [Proved!Promise!Next]_(Proved!Promise!vars)
  <2> SUFFICES ASSUME AloneInv, Proved!IInv, [AloneNext]_aloneVars
               PROVE  [Proved!Promise!Next]_(Proved!Promise!vars)
    OBVIOUS
  <2>1. [Proved!Next]_(Proved!vars)
    BY AloneStep, SameSteps
  <2> QED BY <2>1, ProvedAssumptions, Proved!PromiseStep
<1> QED BY <1>1, AlwaysProved, AlwaysAloneInv, PTL DEF AloneSpec
=============================================================================
