------------------------ MODULE ConflictServiceProofs -----------------------
(***************************************************************************)
(* Proofs about ConflictService, for any cases, parties, keys, spellings   *)
(* and version bound: its invariants, and that it implements the promise   *)
(* of module Clearance.                                                    *)
(***************************************************************************)
EXTENDS ConflictService, ConflictRulesProofs

LEMMA RevalidatedType ==
  ASSUME TypeOK, NEW row \in Row
  PROVE  Revalidated(row) \in Row
<1>1. CASE ~Moves(row)
  BY <1>1 DEF Revalidated
<1>2. CASE Moves(row)
  <2>1. NextStatusOf(row) \in Statuses
    BY <1>2, NextStatusCases DEF Moves, NextStatusOf, Statuses
  <2>2. LiveOf(row) \in SUBSET Snapshot
    BY LiveType DEF LiveOf, TypeOK
  <2>3. RevalidatedRow(row, LiveOf(row), NextStatusOf(row)) \in Row
    <3>1. row.name \in Forms /\ row.id \in Forms
      BY DEF Row
    <3> QED
      BY <2>1, <2>2, <3>1, RowTypes
  <2> QED
    BY <1>2, <2>3 DEF Revalidated
<1> QED
  BY <1>1, <1>2

-----------------------------------------------------------------------------
(* A spelling a request carries has a normal form. *)
LEMMA InputForms ==
  /\ \A n \in NameInputs : Normalize(n) \in Forms
  /\ \A i \in IdInputs : Normalize(i) \in Forms
BY NormAssumption, InputAssumption DEF Normalize

(* Every handler keeps the columns typed. *)
LEMMA TypeStep ==
  ASSUME TypeOK, [Next]_vars
  PROVE  TypeOK'
<1> USE DEF TypeOK, RegistryTypeOK
<1>1. ASSUME NEW c \in Cases, CreateCase(c)
      PROVE  TypeOK'
  BY <1>1, RegistryAssumption DEF CreateCase
<1>2. ASSUME NEW c \in Cases, NEW s \in CaseStatuses, ChangeCaseStatus(c, s)
      PROVE  TypeOK'
  BY <1>2 DEF ChangeCaseStatus, SetCaseStatus
<1>3. ASSUME NEW p \in Parties, NEW c \in Cases, NEW s \in Sides,
             NEW n \in NameInputs, NEW i \in IdInputs, AddParty(p, c, s, n, i)
      PROVE  TypeOK'
  <2>1. [case |-> c, side |-> s, name |-> Normalize(n),
         id |-> Normalize(i), version |-> 1] \in Party
    BY InputForms, RegistryAssumption DEF Party
  <2> QED
    BY <1>3, <2>1 DEF AddParty, InsertParty
<1>4. ASSUME NEW p \in Parties, NEW n \in NameInputs, NEW i \in IdInputs,
             UpdateParty(p, n, i)
      PROVE  TypeOK'
  <2>1. parties' \in [Parties -> Party]
    <3>1. /\ Kept(Normalize(n), parties[p].name) \in Forms
          /\ Kept(Normalize(i), parties[p].id) \in Forms
      BY InputForms DEF Kept, Party
    <3>2. ASSUME NEW q \in Party, NEW name \in Forms, NEW id \in Forms,
                 NEW v \in Nat
          PROVE  [[q EXCEPT !.name = name, !.id = id] EXCEPT !.version = v]
                   \in Party
      BY DEF Party
    <3>3. parties[p] \in Party /\ parties[p].version + 1 \in Nat
      <4>1. parties[p] \in Party /\ parties[p].version \in Nat
        BY DEF Party
      <4> QED
        BY <4>1
    <3>4. [WithIdentity(parties[p], Normalize(n), Normalize(i))
             EXCEPT !.version = parties[p].version + 1] \in Party
      BY <3>1, <3>2, <3>3 DEF WithIdentity
    <3> QED
      BY <1>4, <3>4 DEF UpdateParty
  <2>2. checks' \in [Keys -> Row]
    <3>1. \A k \in Keys :
            [checks[k] EXCEPT !.status = "invalidated", !.reason = TRUE]
              \in Row
      BY ZenonT(60) DEF Row, Statuses
    <3> QED
      BY <1>4, <3>1 DEF UpdateParty, Revoked
  <2> QED
    BY <1>4, <2>1, <2>2 DEF UpdateParty
<1>5. ASSUME NEW k \in Keys, NEW n \in NameInputs, NEW i \in IdInputs,
             Submit(k, n, i)
      PROVE  TypeOK'
  <2> DEFINE name == Normalize(n)
             id   == Normalize(i)
  <2>1. name \in Forms /\ id \in Forms
    BY InputForms
  <2>2. Live(name, id) \in SUBSET Snapshot
    BY LiveType
  <2>3. checks[k] \in Row /\ "pending_review" \in Statuses
    BY DEF Statuses
  <2>4. /\ FreshRow(name, id, Live(name, id)) \in Row
        /\ ResubmittedRow(checks[k], name, id, Live(name, id)) \in Row
    <3> HIDE DEF name, id
    <3> QED
      BY <2>1, <2>2, <2>3, RowTypes
  <2> QED
    BY <1>5, <2>2, <2>4 DEF Submit, ReplaceBindings
<1>6. ASSUME NEW k \in Keys
      PROVE  /\ Revalidated(checks[k]) \in Row
             /\ LiveOf(checks[k]) \in SUBSET Snapshot
             /\ ReleasedRow(Revalidated(checks[k]), LiveOf(checks[k])) \in Row
             /\ RejectedRow(Revalidated(checks[k])) \in Row
  <2>1. checks[k] \in Row /\ "released" \in Statuses /\ Blank \in Forms
    BY NormAssumption DEF Statuses
  <2>2. Revalidated(checks[k]) \in Row
    BY <2>1, RevalidatedType
  <2>3. LiveOf(checks[k]) \in SUBSET Snapshot
    BY LiveType DEF LiveOf
  <2> QED
    BY <2>1, <2>2, <2>3, RowTypes
<1>7. ASSUME NEW k \in Keys, Get(k)
      PROVE  TypeOK'
  BY <1>6, <1>7 DEF Get, ReplaceBindings
<1>8. ASSUME NEW k \in Keys, Release(k)
      PROVE  TypeOK'
  BY <1>6, <1>8 DEF Release, ReplaceBindings
<1>9. ASSUME NEW k \in Keys, Reject(k)
      PROVE  TypeOK'
  BY <1>6, <1>9 DEF Reject, ReplaceBindings
<1>10. CASE UNCHANGED vars
  BY <1>10 DEF vars
<1> QED
  BY <1>1, <1>2, <1>3, <1>4, <1>5, <1>7, <1>8, <1>9, <1>10
  DEF Next, RegistryStep, CheckStep

LEMMA TypeInit == Init => TypeOK
<1>1. Blank \in Forms
  BY NormAssumption
<1>2. Binding({}) \in Bindings
  BY BindingType
<1>3. NoRow \in Row
  BY <1>1, <1>2 DEF NoRow, Row
<1> QED
  BY <1>1, <1>3 DEF Init, TypeOK, RegistryTypeOK, Unregistered, Party

(* The columns are typed from the empty database on. *)
THEOREM TypeCorrect == Spec => []TypeOK
<1>1. TypeOK /\ [Next]_vars => TypeOK'
  BY TypeStep
<1> QED
  BY <1>1, TypeInit, PTL DEF Spec

-----------------------------------------------------------------------------
(* The inductive invariant.  That a standing release covers only approved  *)
(* profiles needs all of it: a resubmission compares bindings (columns     *)
(* that must agree with the snapshots), and equal bindings mean equal      *)
(* snapshots only while both sets are current, which active revocation     *)
(* ensures only as long as the links mirror the snapshots.                 *)
IInv == /\ TypeOK
        /\ RowIntegrity
        /\ BindingsMirrorMatched
        /\ ReleasedRowsAreCurrent
        /\ ReleaseCoversOnlyApproved

(* The part of it that speaks of one key. *)
KeySafe(k) ==
  /\ RowConsistent(checks[k])
  /\ bindings[k] = checks[k].matched
  /\ checks[k].status = "released" =>
       /\ \A m \in checks[k].matched : IsCurrent(m)
       /\ checks[k].matched = approved[k]

LEMMA IInvByKey == IInv <=> TypeOK /\ \A k \in Keys : KeySafe(k)
BY DEF IInv, RowIntegrity, BindingsMirrorMatched, ReleasedRowsAreCurrent,
       ReleaseCoversOnlyApproved, KeySafe

(* There is one current snapshot of a party, so sets of current snapshots  *)
(* with the same combined fingerprint are equal (core.go, Binding).        *)
LEMMA EqualBindingsEqualSnapshots ==
  ASSUME NEW A \in SUBSET Snapshot, NEW B \in SUBSET Snapshot,
         A # {}, B # {}, Binding(A) = Binding(B),
         \A s \in A \cup B : IsCurrent(s)
  PROVE  A = B
<1>1. CombinedFingerprint(A) = CombinedFingerprint(B)
  BY DEF Binding
<1>2. \A s \in A, t \in B : s.party = t.party => s = t
  BY DEF IsCurrent, Snapshot
<1>3. ASSUME NEW s \in A
      PROVE  \E t \in B : s.party = t.party
  <2>1. <<s.party, s.fp>> \in CombinedFingerprint(B)
    BY <1>1 DEF CombinedFingerprint
  <2> QED
    BY <2>1 DEF CombinedFingerprint
<1>4. ASSUME NEW t \in B
      PROVE  \E s \in A : s.party = t.party
  <2>1. <<t.party, t.fp>> \in CombinedFingerprint(A)
    BY <1>1 DEF CombinedFingerprint
  <2> QED
    BY <2>1 DEF CombinedFingerprint
<1> QED
  BY <1>2, <1>3, <1>4

(* Reading a row back leaves it as it is, or leaves it consistent, holding *)
(* the live hits and not released.                                         *)
LEMMA RevalidatedCases ==
  ASSUME NEW row \in Row, RowConsistent(row)
  PROVE  \/ ~Moves(row) /\ Revalidated(row) = row
         \/ /\ Moves(row)
            /\ Revalidated(row).matched = LiveOf(row)
            /\ Revalidated(row).status \in
                 {"pending_review", "invalidated", "no_conflict"}
            /\ RowConsistent(Revalidated(row))
<1>1. CASE ~Moves(row)
  BY <1>1 DEF Revalidated
<1>2. CASE Moves(row)
  <2> DEFINE next == NextStatusOf(row)
  <2>1. next \in {"pending_review", "invalidated", "no_conflict"}
    BY <1>2, NextStatusCases DEF Moves, NextStatusOf
  <2>2. Revalidated(row) = RevalidatedRow(row, LiveOf(row), next)
    BY <1>2 DEF Revalidated
  <2>3. /\ Revalidated(row).matched = LiveOf(row)
        /\ Revalidated(row).status = next
        /\ Revalidated(row).basis = FALSE
        /\ next # "invalidated" => ~Revalidated(row).reviewer
        /\ Revalidated(row).reason <=> next = "invalidated"
    <3> HIDE DEF next
    <3> QED
      BY <2>2 DEF RevalidatedRow, Row
  <2> QED
    BY <1>2, <2>1, <2>3 DEF RowConsistent
<1> QED
  BY <1>1, <1>2

(* Every handler keeps the invariant. *)
LEMMA InvariantStep ==
  ASSUME IInv, [Next]_vars
  PROVE  IInv'
<1>1. TypeOK /\ TypeOK'
  BY TypeStep DEF IInv
<1>2. \A k \in Keys : KeySafe(k)
  BY IInvByKey
<1>3. SUFFICES ASSUME NEW k \in Keys
               PROVE  KeySafe(k)'
  <2>1. (IInv <=> TypeOK /\ \A x \in Keys : KeySafe(x))'
    BY DEF IInv, RowIntegrity, BindingsMirrorMatched, ReleasedRowsAreCurrent,
           ReleaseCoversOnlyApproved, KeySafe
  <2> QED
    BY <1>1, <2>1
<1>4. /\ checks \in [Keys -> Row]
      /\ bindings \in [Keys -> SUBSET Snapshot]
      /\ approved \in [Keys -> SUBSET Snapshot]
      /\ parties \in [Parties -> Party]
      /\ checks[k] \in Row
      /\ RowConsistent(checks[k])
      /\ KeySafe(k)
  BY <1>1, <1>2 DEF TypeOK, RegistryTypeOK, KeySafe
(* A step that leaves the row, its links and its approval alone disturbs   *)
(* the key only through the parties the row is bound to.                   *)
<1>5. ASSUME UNCHANGED <<checks[k], bindings[k], approved[k]>>,
             checks[k].status = "released" =>
               \A m \in checks[k].matched : IsCurrent(m) => IsCurrent(m)'
      PROVE  KeySafe(k)'
  BY <1>4, <1>5 DEF KeySafe
<1>6. ASSUME UNCHANGED parties, NEW m, IsCurrent(m)
      PROVE  IsCurrent(m)'
  BY <1>6 DEF IsCurrent, Registered
<1>7. ASSUME NEW c \in Cases, CreateCase(c)
      PROVE  KeySafe(k)'
  BY <1>5, <1>6, <1>7 DEF CreateCase
<1>8. ASSUME NEW c \in Cases, NEW s \in CaseStatuses, ChangeCaseStatus(c, s)
      PROVE  KeySafe(k)'
  BY <1>5, <1>6, <1>8 DEF ChangeCaseStatus, SetCaseStatus
<1>9. ASSUME NEW p \in Parties, NEW c \in Cases, NEW s \in Sides,
             NEW n \in NameInputs, NEW i \in IdInputs, AddParty(p, c, s, n, i)
      PROVE  KeySafe(k)'
  <2>1. ASSUME NEW m, IsCurrent(m), m.party \in Parties
        PROVE  IsCurrent(m)'
    BY <1>4, <1>9, <2>1 DEF AddParty, InsertParty, IsCurrent, Registered
  <2>2. \A m \in checks[k].matched : m.party \in Parties
    BY <1>4 DEF Row, Snapshot
  <2> QED
    BY <1>5, <1>9, <2>1, <2>2 DEF AddParty, InsertParty
<1>10. ASSUME NEW p \in Parties, NEW n \in NameInputs, NEW i \in IdInputs,
              UpdateParty(p, n, i)
       PROVE  KeySafe(k)'
  <2>1. ASSUME NEW m, IsCurrent(m), m.party \in Parties, m.party # p
        PROVE  IsCurrent(m)'
    BY <1>4, <1>10, <2>1 DEF UpdateParty, IsCurrent, Registered
  <2>2. \A m \in checks[k].matched : m.party \in Parties
    BY <1>4 DEF Row, Snapshot
  <2>3. UNCHANGED <<bindings[k], approved[k]>>
    BY <1>10 DEF UpdateParty
  <2>4. CASE checks[k].status = "released" /\ \E b \in bindings[k] : b.party = p
    <3>1. checks'[k] = [checks[k] EXCEPT !.status = "invalidated",
                                         !.reason = TRUE]
      BY <1>10, <2>4 DEF UpdateParty, Revoked
    <3>2. /\ checks'[k].status = "invalidated"
          /\ checks'[k].reason = TRUE
          /\ checks'[k].matched = checks[k].matched
      BY <1>4, <3>1 DEF Row
    <3> QED
      BY <1>4, <2>3, <3>2 DEF KeySafe, RowConsistent
  <2>5. CASE ~(checks[k].status = "released" /\ \E b \in bindings[k] : b.party = p)
    <3>1. checks'[k] = checks[k]
      BY <1>10, <2>5 DEF UpdateParty, Revoked
    <3>2. checks[k].status = "released" =>
            \A m \in checks[k].matched : m.party # p
      BY <1>4, <2>5 DEF KeySafe
    <3> QED
      BY <1>5, <2>1, <2>2, <2>3, <3>1, <3>2
  <2> QED
    BY <2>4, <2>5
<1>11. ASSUME NEW l \in Keys, NEW n \in NameInputs, NEW i \in IdInputs,
              Submit(l, n, i)
       PROVE  KeySafe(k)'
  <2> DEFINE name == Normalize(n)
             id   == Normalize(i)
             hits == Live(name, id)
             row  == checks[k]
  <2>1. CASE l # k
    BY <1>4, <1>5, <1>6, <1>11, <2>1 DEF Submit, ReplaceBindings
  <2>2. CASE l = k
    <3>1. /\ name \in Forms /\ id \in Forms
          /\ hits \in SUBSET Snapshot
          /\ \A m \in hits : IsCurrent(m)
      BY <1>1, InputForms, LiveIsCurrent DEF TypeOK
    <3>2. /\ UNCHANGED <<parties, approved>>
          /\ bindings'[k] = hits
          /\ checks'[k] = IF row.status = "absent" THEN FreshRow(name, id, hits)
                          ELSE ResubmittedRow(row, name, id, hits)
      BY <1>4, <1>11, <2>2 DEF Submit, ReplaceBindings
    <3>3. \A m \in hits : IsCurrent(m)'
      BY <1>6, <3>1, <3>2
    <3>4. CASE row.status = "absent"
      <4>1. /\ checks'[k].status \in {"pending_review", "no_conflict"}
            /\ checks'[k].matched = hits
            /\ ~checks'[k].basis /\ ~checks'[k].reviewer /\ ~checks'[k].reason
        <5> HIDE DEF name, id, hits, row
        <5> QED
          BY <3>2, <3>4 DEF FreshRow, NoRow
      <4> QED
        BY <3>2, <4>1 DEF KeySafe, RowConsistent
    <3>5. CASE row.status # "absent"
      <4> DEFINE new == ResubmittedRow(row, name, id, hits)
      <4>1. /\ checks'[k] = new
            /\ new.matched = hits
            /\ new.bound = Binding(hits)
        BY <3>2, <3>5 DEF ResubmittedRow
      <4>2. /\ row \in Row /\ RowConsistent(row)
        BY <1>4
      <4>3. RowConsistent(new)
        <5>1. new.status = "released" => row.status = "released" /\ hits # {}
          BY <4>2 DEF ResubmittedRow, CollapseStatus
        <5>2. new.status = "rejected" => row.status = "rejected"
          BY <4>2 DEF ResubmittedRow, CollapseStatus
        <5>3. new.status \in {"released", "rejected", "pending_review",
                              "no_conflict"}
          BY <4>2 DEF ResubmittedRow, CollapseStatus
        <5>4. /\ new.basis <=> /\ new.status \notin {"pending_review", "no_conflict"}
                              /\ row.basis
              /\ new.reviewer <=> /\ new.status \notin {"pending_review", "no_conflict"}
                                 /\ row.reviewer
              /\ new.reason <=> /\ new.status \notin {"pending_review", "no_conflict"}
                               /\ row.reason
          <6> HIDE DEF name, id, hits, row
          <6> QED
            BY DEF ResubmittedRow
        <5> HIDE DEF name, id, hits, row, new
        <5> QED
          BY <4>1, <4>2, <5>1, <5>2, <5>3, <5>4 DEF RowConsistent
      <4>4. ASSUME new.status = "released"
            PROVE  new.matched = approved[k]
        <5>1. /\ row.status = "released"
              /\ hits # {}
              /\ row.bound = Binding(hits)
          BY <4>2, <4>4 DEF ResubmittedRow, CollapseStatus, BindingUnchanged
        <5>2. /\ row.matched \in SUBSET Snapshot
              /\ row.matched # {}
              /\ row.bound = Binding(row.matched)
              /\ row.matched = approved[k]
              /\ \A m \in row.matched : IsCurrent(m)
          BY <1>4, <5>1 DEF KeySafe, RowConsistent, Row
        <5>3. row.matched = hits
          <6> HIDE DEF name, id, hits, row, new
          <6>1. Binding(row.matched) = Binding(hits)
            BY <5>1, <5>2
          <6>2. \A s \in row.matched \cup hits : IsCurrent(s)
            BY <3>1, <5>2
          <6>3. hits \in SUBSET Snapshot
            BY <3>1
          <6> QED
            BY <5>1, <5>2, <6>1, <6>2, <6>3, EqualBindingsEqualSnapshots
        <5> QED
          BY <4>1, <5>2, <5>3
      <4> HIDE DEF name, id, hits, row, new
      <4> QED
        BY <3>2, <3>3, <4>1, <4>3, <4>4 DEF KeySafe
    <3> QED
      BY <3>4, <3>5
  <2> QED
    BY <2>1, <2>2
(* What a read of the row writes, alone or before a decision. *)
<1>12. ASSUME UNCHANGED <<parties, approved[k]>>,
              checks'[k] = Revalidated(checks[k]),
              bindings'[k] = IF Moves(checks[k]) THEN LiveOf(checks[k])
                             ELSE bindings[k]
       PROVE  KeySafe(k)'
  <2>1. CASE ~Moves(checks[k])
    <3>1. UNCHANGED <<checks[k], bindings[k], approved[k]>>
      BY <1>12, <2>1 DEF Revalidated
    <3> QED
      BY <1>5, <1>6, <1>12, <3>1
  <2>2. CASE Moves(checks[k])
    BY <1>4, <1>12, <2>2, RevalidatedCases DEF KeySafe
  <2> QED
    BY <2>1, <2>2
<1>13. ASSUME NEW l \in Keys, Get(l)
       PROVE  KeySafe(k)'
  <2>1. CASE l # k
    BY <1>4, <1>5, <1>6, <1>13, <2>1 DEF Get, ReplaceBindings
  <2>2. CASE l = k
    BY <1>4, <1>12, <1>13, <2>2 DEF Get, ReplaceBindings
  <2> QED
    BY <2>1, <2>2
<1>14. ASSUME NEW l \in Keys, Release(l)
       PROVE  KeySafe(k)'
  <2> DEFINE row  == Revalidated(checks[k])
             live == LiveOf(checks[k])
             done == CanDecide(row.status) /\ live # {}
  <2>1. CASE l # k
    BY <1>4, <1>5, <1>6, <1>14, <2>1 DEF Release, ReplaceBindings
  <2>2. CASE l = k /\ done
    <3>1. /\ UNCHANGED parties
          /\ checks'[k] = ReleasedRow(row, live)
          /\ bindings'[k] = live
          /\ approved'[k] = live
      BY <1>4, <1>14, <2>2 DEF Release, ReplaceBindings
    <3>2. row \in Row
      BY <1>1, <1>4, RevalidatedType
    <3>3. \A m \in live : IsCurrent(m)'
      BY <1>1, <1>6, <3>1, LiveIsCurrent DEF LiveOf, TypeOK
    <3>4. /\ checks'[k].status = "released"
          /\ checks'[k].matched = live
          /\ checks'[k].bound = Binding(live)
          /\ checks'[k].basis /\ checks'[k].reviewer /\ ~checks'[k].reason
      <4> HIDE DEF row, live
      <4> QED
        BY <3>1, <3>2 DEF ReleasedRow, Row
    <3> HIDE DEF row, live
    <3> QED
      BY <2>2, <3>1, <3>3, <3>4 DEF KeySafe, RowConsistent
  <2>3. CASE l = k /\ ~done
    BY <1>4, <1>12, <1>14, <2>3 DEF Release, ReplaceBindings
  <2> QED
    BY <2>1, <2>2, <2>3
<1>15. ASSUME NEW l \in Keys, Reject(l)
       PROVE  KeySafe(k)'
  <2> DEFINE row == Revalidated(checks[k])
  <2>1. CASE l # k
    BY <1>4, <1>5, <1>6, <1>15, <2>1 DEF Reject, ReplaceBindings
  <2>2. CASE l = k /\ CanDecide(row.status)
    <3>1. /\ checks'[k] = RejectedRow(row)
          /\ bindings'[k] = IF Moves(checks[k]) THEN LiveOf(checks[k])
                            ELSE bindings[k]
      BY <1>4, <1>15, <2>2 DEF Reject, ReplaceBindings
    <3>2. row \in Row
      BY <1>1, <1>4, RevalidatedType
    <3>3. /\ checks'[k].status = "rejected"
          /\ checks'[k].matched = row.matched
          /\ checks'[k].basis /\ checks'[k].reviewer /\ ~checks'[k].reason
      <4> HIDE DEF row
      <4> QED
        BY <3>1, <3>2 DEF RejectedRow, Row
    <3>4. bindings'[k] = row.matched
      BY <1>4, <3>1, RevalidatedCases DEF KeySafe
    <3> QED
      BY <3>3, <3>4 DEF KeySafe, RowConsistent
  <2>3. CASE l = k /\ ~CanDecide(row.status)
    BY <1>4, <1>12, <1>15, <2>3 DEF Reject, ReplaceBindings
  <2> QED
    BY <2>1, <2>2, <2>3
<1>16. CASE UNCHANGED vars
  BY <1>5, <1>6, <1>16 DEF vars
<1> QED
  BY <1>7, <1>8, <1>9, <1>10, <1>11, <1>13, <1>14, <1>15, <1>16
  DEF Next, RegistryStep, CheckStep

LEMMA InvariantInit == Init => IInv
<1>1. Init => \A k \in Keys : KeySafe(k)
  BY DEF Init, KeySafe, RowConsistent, NoRow
<1> QED
  BY <1>1, TypeInit, IInvByKey

(* The invariant holds in every reachable state. *)
THEOREM Invariant == Spec => []IInv
<1>1. IInv /\ [Next]_vars => IInv'
  BY InvariantStep
<1> QED
  BY <1>1, InvariantInit, PTL DEF Spec

(* Columns and status of a conclusion always agree. *)
THEOREM RowsStayConsistent == Spec => []RowIntegrity
<1>1. IInv => RowIntegrity
  BY DEF IInv
<1> QED
  BY <1>1, Invariant, PTL

(* The links revocation goes by are the snapshots of the conclusions. *)
THEOREM LinksMirrorSnapshots == Spec => []BindingsMirrorMatched
<1>1. IInv => BindingsMirrorMatched
  BY DEF IInv
<1> QED
  BY <1>1, Invariant, PTL

(* Active revocation misses no release: a conclusion that stands released  *)
(* is bound to present versions and identities only.                       *)
THEOREM RevocationIsComplete == Spec => []ReleasedRowsAreCurrent
<1>1. IInv => ReleasedRowsAreCurrent
  BY DEF IInv
<1> QED
  BY <1>1, Invariant, PTL

(* What a released conclusion covers is what an administrator approved. *)
THEOREM ReleasesAreApproved == Spec => []ReleaseCoversOnlyApproved
<1>1. IInv => ReleaseCoversOnlyApproved
  BY DEF IInv
<1> QED
  BY <1>1, Invariant, PTL

(* A row one may proceed with has hits of the snapshots it keeps, only.    *)
LEMMA InvariantJustifies == IInv => ProceedJustified
<1>1. ASSUME IInv, NEW k \in Keys,
             CanProceed(checks[k], LiveOf(checks[k]), CurrentOf(checks[k]))
      PROVE  LiveOf(checks[k]) \subseteq approved[k]
  <2> DEFINE row  == checks[k]
             live == LiveOf(row)
  <2>1. CASE live = {}
    BY <2>1
  <2>2. CASE live # {}
    <3>1. row.status = "released" /\ ~HasNewHit(row, live) /\ row.matched # {}
      BY <1>1, <2>2 DEF CanProceed
    <3>2. /\ TypeOK
          /\ row.matched \in SUBSET Snapshot
          /\ row.matched = approved[k]
          /\ \A m \in row.matched : IsCurrent(m)
      BY <1>1, <3>1 DEF IInv, TypeOK, Row, ReleasedRowsAreCurrent,
                        ReleaseCoversOnlyApproved
    <3>3. \A l \in live : l \in Snapshot /\ IsCurrent(l)
      BY <3>2, LiveIsCurrent DEF LiveOf, TypeOK
    <3>4. \A l \in live : \E m \in row.matched : l.party = m.party
      BY <3>1 DEF HasNewHit
    <3>5. \A l \in live, m \in row.matched : l.party = m.party => l = m
      BY <3>2, <3>3 DEF IsCurrent, Snapshot
    <3> QED
      BY <3>2, <3>4, <3>5
  <2> QED
    BY <2>1, <2>2
<1> QED
  BY <1>1 DEF ProceedJustified

(* "Can proceed" is told only when every live hit was approved as it is.   *)
THEOREM ProceedingIsJustified == Spec => []ProceedJustified
BY InvariantJustifies, Invariant, PTL

(* No handler takes a conclusion out of "rejected". *)
THEOREM RejectionIsFinal == Spec => RejectedIsFinal
<1>1. ASSUME TypeOK, [Next]_vars, NEW k \in Keys, checks[k].status = "rejected"
      PROVE  checks'[k].status = "rejected"
  <2>1. checks \in [Keys -> Row] /\ checks[k] \in Row
    BY <1>1 DEF TypeOK, RegistryTypeOK
  <2>2. Revalidated(checks[k]) = checks[k]
    BY <1>1, NextStatusCases DEF Revalidated, Moves, NextStatusOf
  <2>3. CASE RegistryStep
    BY <1>1, <2>1, <2>3
    DEF RegistryStep, CreateCase, ChangeCaseStatus, AddParty, UpdateParty, Revoked
  <2>4. ASSUME NEW l \in Keys, NEW n \in NameInputs, NEW i \in IdInputs,
               Submit(l, n, i)
        PROVE  checks'[k].status = "rejected"
    BY <1>1, <2>1, <2>4 DEF Submit, ResubmittedRow, CollapseStatus
  <2>5. ASSUME NEW l \in Keys, Get(l) \/ Release(l) \/ Reject(l)
        PROVE  checks'[k].status = "rejected"
    BY <1>1, <2>1, <2>2, <2>5 DEF Get, Release, Reject, CanDecide
  <2>6. CASE UNCHANGED vars
    BY <1>1, <2>6 DEF vars
  <2> QED
    BY <1>1, <2>3, <2>4, <2>5, <2>6 DEF Next, CheckStep
<1>2. TypeOK /\ [Next]_vars =>
        [\A k \in Keys :
           checks[k].status = "rejected" => checks'[k].status = "rejected"]_vars
  BY <1>1
<1> QED
  BY <1>2, TypeCorrect, PTL DEF Spec, RejectedIsFinal

-----------------------------------------------------------------------------
(***************************************************************************)
(* The conflict service, one request at a time, implements the promise of  *)
(* module Clearance: initial states map to initial states and every step   *)
(* of a state that satisfies the invariant maps to a step or a stutter.    *)
(***************************************************************************)
profileBar   == [p \in Parties |-> ProfileOf(p)]
clearanceBar == [k \in Keys |-> ClearanceOf(checks[k])]
deniedBar    == {k \in Keys : checks[k].status = "rejected"}

(* A profile on record is one of the profiles of the promise. *)
LEMMA ProfileChanges ==
  ASSUME NEW p \in Parties,
         parties \in [Parties -> Party], parties' \in [Parties -> Party],
         \A q \in Parties \ {p} : parties'[q] = parties[q],
         parties'[p].version \in 1..MaxVersion,
         parties'[p].version # parties[p].version
  PROVE  \E new \in [version : 1..MaxVersion, fp : Forms \X Forms]
                      \ {profileBar[p]} :
           profileBar' = [profileBar EXCEPT ![p] = new]
<1> DEFINE new == [version |-> parties'[p].version,
                   fp |-> <<parties'[p].name, parties'[p].id>>]
<1>1. parties[p] \in Party /\ parties'[p] \in Party /\ MaxVersion \in Nat
  BY InputAssumption
<1>2. new \in [version : 1..MaxVersion, fp : Forms \X Forms]
  BY <1>1 DEF Party
<1>3. parties'[p].version > 0
  BY <1>1
<1>4. ProfileOf(p)' = new
  BY <1>3 DEF ProfileOf, Registered, Fingerprint
<1>5. profileBar[p].version = parties[p].version
  <2>1. parties[p].version \in Nat
    BY <1>1 DEF Party
  <2> QED
    BY <2>1 DEF profileBar, ProfileOf, Registered, NoProfile
<1>6. new # profileBar[p]
  BY <1>5
<1>7. \A q \in Parties \ {p} : ProfileOf(q)' = ProfileOf(q)
  BY DEF ProfileOf, Registered, Fingerprint, NoProfile
<1>8. profileBar' = [profileBar EXCEPT ![p] = new]
  <2> HIDE DEF new
  <2> QED
    BY <1>4, <1>7 DEF profileBar
<1> QED
  BY <1>2, <1>6, <1>8

(* A conclusion's clearance depends on its status and snapshots alone. *)
LEMMA ClearanceCovers ==
  ASSUME NEW k \in Keys, NEW p \in Parties
  PROVE  (\E c \in clearanceBar[k] : c.opponent = p) <=>
           /\ checks[k].status = "released"
           /\ \E m \in checks[k].matched : m.party = p
<1>1. clearanceBar[k] = ClearanceOf(checks[k])
  BY DEF clearanceBar
<1>2. CASE checks[k].status # "released"
  BY <1>1, <1>2 DEF ClearanceOf
<1>3. CASE checks[k].status = "released"
  <2>1. clearanceBar[k] =
          {[opponent |-> m.party,
            profile |-> [version |-> m.version, fp |-> m.fp]] :
             m \in checks[k].matched}
    BY <1>1, <1>3 DEF ClearanceOf
  <2>2. ASSUME NEW c \in clearanceBar[k], c.opponent = p
        PROVE  \E m \in checks[k].matched : m.party = p
    BY <2>1, <2>2
  <2>3. ASSUME NEW m \in checks[k].matched, m.party = p
        PROVE  \E c \in clearanceBar[k] : c.opponent = p
    <3>1. [opponent |-> m.party,
           profile |-> [version |-> m.version, fp |-> m.fp]]
             \in clearanceBar[k]
      BY <2>1
    <3> QED
      BY <2>3, <3>1
  <2> QED
    BY <1>3, <2>2, <2>3
<1> QED
  BY <1>2, <1>3

-----------------------------------------------------------------------------
(* A change of one party's record that takes the release from every        *)
(* conclusion bound to the party, and leaves the others, is a step Profile.*)
LEMMA ProfileStep ==
  ASSUME NEW p \in Parties,
         parties \in [Parties -> Party], parties' \in [Parties -> Party],
         \A q \in Parties \ {p} : parties'[q] = parties[q],
         parties'[p].version \in 1..MaxVersion,
         parties'[p].version # parties[p].version,
         \A k \in Keys :
           /\ checks'[k].status = "rejected" <=> checks[k].status = "rejected"
           /\ IF /\ checks[k].status = "released"
                 /\ \E m \in checks[k].matched : m.party = p
              THEN checks'[k].status # "released"
              ELSE ClearanceOf(checks'[k]) = ClearanceOf(checks[k])
  PROVE  Promise!Profile(p)
<1>1. \E new \in [version : 1..MaxVersion, fp : Forms \X Forms]
                   \ {profileBar[p]} :
         profileBar' = [profileBar EXCEPT ![p] = new]
  BY ProfileChanges
<1>2. clearanceBar' = [k \in Keys |->
                         IF \E c \in clearanceBar[k] : c.opponent = p
                         THEN {} ELSE clearanceBar[k]]
  <2>1. ASSUME NEW k \in Keys
        PROVE  ClearanceOf(checks'[k]) =
                 IF \E c \in clearanceBar[k] : c.opponent = p
                 THEN {} ELSE ClearanceOf(checks[k])
    <3>1. CASE \E c \in clearanceBar[k] : c.opponent = p
      BY <3>1, ClearanceCovers DEF ClearanceOf
    <3>2. CASE ~\E c \in clearanceBar[k] : c.opponent = p
      BY <3>2, ClearanceCovers
    <3> QED
      BY <3>1, <3>2
  <2> QED
    BY <2>1 DEF clearanceBar
<1>3. deniedBar' = deniedBar
  BY DEF deniedBar
<1> QED
  BY <1>1, <1>2, <1>3
  DEF Promise!Profile, Promise!Covers, profileBar, clearanceBar, deniedBar

(* A step that only writes the row of one key, the conclusion not being    *)
(* released after it unless its clearance is the same.                     *)
LEMMA RowStep ==
  ASSUME UNCHANGED parties, NEW k \in Keys,
         \A l \in Keys \ {k} : checks'[l] = checks[l],
         checks[k].status = "rejected" => checks'[k].status = "rejected",
         \/ ClearanceOf(checks'[k]) = {}
         \/ /\ ClearanceOf(checks'[k]) = ClearanceOf(checks[k])
            /\ checks'[k].status # "rejected"
  PROVE  \/ Promise!Deny(k)
         \/ Promise!Withdraw(k)
         \/ UNCHANGED Promise!vars
<1>1. profileBar' = profileBar
  BY DEF profileBar, ProfileOf, Registered
<1>2. clearanceBar' = [clearanceBar EXCEPT ![k] = ClearanceOf(checks'[k])]
  BY DEF clearanceBar
<1>3. clearanceBar[k] = ClearanceOf(checks[k])
  BY DEF clearanceBar
<1>4. CASE checks'[k].status = "rejected"
  <2>1. deniedBar' = deniedBar \cup {k}
    BY <1>4 DEF deniedBar
  <2> QED
    BY <1>1, <1>2, <1>4, <2>1
    DEF Promise!Deny, profileBar, clearanceBar, deniedBar, ClearanceOf
<1>5. CASE checks'[k].status # "rejected"
  <2>1. deniedBar' = deniedBar
    BY <1>5 DEF deniedBar
  <2>2. CASE ClearanceOf(checks'[k]) = ClearanceOf(checks[k])
    <3>1. clearanceBar' = clearanceBar
      BY <1>2, <1>3, <2>2 DEF clearanceBar
    <3> QED
      BY <1>1, <2>1, <3>1 DEF Promise!vars, profileBar, clearanceBar, deniedBar
  <2>3. CASE /\ ClearanceOf(checks'[k]) = {}
             /\ ClearanceOf(checks[k]) # {}
    BY <1>1, <1>2, <1>3, <2>1, <2>3
    DEF Promise!Withdraw, profileBar, clearanceBar, deniedBar
  <2> QED
    BY <2>2, <2>3
<1> QED
  BY <1>4, <1>5

(* A release anchored to a nonempty set of current snapshots is Clear. *)
LEMMA ClearStep ==
  ASSUME TypeOK, UNCHANGED parties, NEW k \in Keys,
         NEW live \in SUBSET Snapshot, live # {},
         \A m \in live : IsCurrent(m),
         \A l \in Keys \ {k} : checks'[l] = checks[l],
         checks[k].status # "rejected",
         checks'[k].status = "released",
         checks'[k].matched = live
  PROVE  Promise!Clear(k)
<1> DEFINE os == {m.party : m \in live}
<1>1. profileBar' = profileBar /\ deniedBar' = deniedBar
  BY DEF profileBar, ProfileOf, Registered, deniedBar
<1>2. ASSUME NEW m \in live
      PROVE  /\ m.party \in Parties
             /\ profileBar[m.party] = [version |-> m.version, fp |-> m.fp]
             /\ m.version \in Nat \ {0}
  BY <1>2 DEF Snapshot, IsCurrent, profileBar, ProfileOf
<1>3. ASSUME NEW m \in live
      PROVE  profileBar[m.party] # NoProfile
  <2>1. m.version # 0 /\ profileBar[m.party] = [version |-> m.version, fp |-> m.fp]
    BY <1>2
  <2>2. profileBar[m.party].version = m.version
    BY <2>1
  <2>3. NoProfile.version = 0
    BY DEF NoProfile
  <2> QED
    BY <2>1, <2>2, <2>3
<1>4. os \in (SUBSET {o \in Parties : profileBar[o] # NoProfile}) \ {{}}
  <2>1. ASSUME NEW o \in os
        PROVE  o \in Parties /\ profileBar[o] # NoProfile
    <3>1. PICK m \in live : o = m.party
      BY <2>1
    <3> QED
      BY <1>2, <1>3, <3>1
  <2>2. os # {}
    OBVIOUS
  <2> HIDE DEF os
  <2>3. os \subseteq {o \in Parties : profileBar[o] # NoProfile}
    BY <2>1
  <2> QED
    BY <2>2, <2>3
<1>5. ClearanceOf(checks'[k]) = {[opponent |-> o, profile |-> profileBar[o]] : o \in os}
  <2> DEFINE Given(m) == [opponent |-> m.party,
                          profile |-> [version |-> m.version, fp |-> m.fp]]
             Held(o)  == [opponent |-> o, profile |-> profileBar[o]]
  <2>1. ClearanceOf(checks'[k]) = {Given(m) : m \in live}
    BY DEF ClearanceOf
  <2>2. \A m \in live : Given(m) = Held(m.party)
    BY <1>2
  <2> HIDE DEF Given, Held
  <2>3. {Given(m) : m \in live} = {Held(o) : o \in os}
    BY <2>2
  <2> QED
    BY <2>1, <2>3 DEF Held
<1>6. clearanceBar' = [clearanceBar EXCEPT ![k] =
                         {[opponent |-> o, profile |-> profileBar[o]] : o \in os}]
  BY <1>5 DEF clearanceBar
<1>7. k \notin deniedBar
  BY DEF deniedBar
<1> HIDE DEF os
<1> QED
  BY <1>1, <1>4, <1>6, <1>7
  DEF Promise!Clear, profileBar, clearanceBar, deniedBar

(* Every handler is a step of the promise. *)
LEMMA PromiseStep ==
  ASSUME IInv, [Next]_vars
  PROVE  [Promise!Next]_(Promise!vars)
<1>1. /\ TypeOK /\ TypeOK' /\ IInv'
      /\ checks \in [Keys -> Row] /\ checks' \in [Keys -> Row]
      /\ parties \in [Parties -> Party] /\ parties' \in [Parties -> Party]
      /\ \A k \in Keys : KeySafe(k) /\ RowConsistent(checks[k])
  BY InvariantStep, IInvByKey DEF IInv, TypeOK, RegistryTypeOK, RowIntegrity
<1>2. ASSUME UNCHANGED <<parties, checks>>
      PROVE  UNCHANGED Promise!vars
  BY <1>2 DEF Promise!vars, ProfileOf, Registered, ClearanceOf
<1>3. ASSUME NEW p \in Parties, NEW c \in Cases, NEW s \in Sides,
             NEW n \in NameInputs, NEW i \in IdInputs, AddParty(p, c, s, n, i)
      PROVE  Promise!Profile(p)
  <2>1. /\ \A q \in Parties \ {p} : parties'[q] = parties[q]
        /\ parties'[p].version = 1
        /\ ~Registered(p)
        /\ checks' = checks
    BY <1>1, <1>3 DEF AddParty, InsertParty
  <2>2. parties[p].version \in Nat
    BY <1>1 DEF Party
  <2>3. /\ parties'[p].version \in 1..MaxVersion
        /\ parties'[p].version # parties[p].version
    BY <2>1, <2>2, InputAssumption DEF Registered
  <2>4. \A k \in Keys : checks[k].status = "released" =>
          \A m \in checks[k].matched : m.party # p
    BY <1>1, <2>1 DEF KeySafe, IsCurrent
  <2> QED
    BY <1>1, <2>1, <2>3, <2>4, ProfileStep
<1>4. ASSUME NEW p \in Parties, NEW n \in NameInputs, NEW i \in IdInputs,
             UpdateParty(p, n, i)
      PROVE  Promise!Profile(p)
  <2>1. /\ \A q \in Parties \ {p} : parties'[q] = parties[q]
        /\ checks' = Revoked(p)
    BY <1>1, <1>4 DEF UpdateParty
  <2>2. parties[p].version \in Nat
    BY <1>1 DEF Party
  <2>3. /\ parties[p].version > 0 /\ parties[p].version < MaxVersion
        /\ parties'[p].version = parties[p].version + 1
    BY <1>1, <1>4 DEF UpdateParty, WithIdentity, Registered, Party
  <2>4. /\ parties'[p].version \in 1..MaxVersion
        /\ parties'[p].version # parties[p].version
    BY <2>2, <2>3, InputAssumption
  <2>5. ASSUME NEW k \in Keys
        PROVE  /\ checks'[k].status = "rejected" <=> checks[k].status = "rejected"
               /\ IF /\ checks[k].status = "released"
                     /\ \E m \in checks[k].matched : m.party = p
                  THEN checks'[k].status # "released"
                  ELSE ClearanceOf(checks'[k]) = ClearanceOf(checks[k])
    <3>1. bindings[k] = checks[k].matched
      BY <1>1 DEF KeySafe
    <3>2. CASE checks[k].status = "released" /\ \E m \in checks[k].matched : m.party = p
      <4>1. checks'[k] = [checks[k] EXCEPT !.status = "invalidated", !.reason = TRUE]
        BY <2>1, <3>1, <3>2 DEF Revoked
      <4>2. checks'[k].status = "invalidated"
        BY <1>1, <4>1 DEF Row
      <4> QED
        BY <3>2, <4>2
    <3>3. CASE ~(checks[k].status = "released" /\ \E m \in checks[k].matched : m.party = p)
      <4>1. checks'[k] = checks[k]
        BY <2>1, <3>1, <3>3 DEF Revoked
      <4> QED
        BY <3>3, <4>1
    <3> QED
      BY <3>2, <3>3
  <2> QED
    BY <1>1, <2>1, <2>4, <2>5, ProfileStep
(* What reading a row does to its clearance. *)
<1>5. ASSUME NEW k \in Keys
      PROVE  /\ Revalidated(checks[k]).status = "rejected" =>
                  checks[k].status = "rejected"
             /\ checks[k].status = "rejected" =>
                  Revalidated(checks[k]) = checks[k]
             /\ \/ Revalidated(checks[k]) = checks[k]
                \/ ClearanceOf(Revalidated(checks[k])) = {}
  <2>1. checks[k] \in Row /\ RowConsistent(checks[k])
    BY <1>1
  <2>2. checks[k].status = "rejected" => ~Moves(checks[k])
    BY NextStatusCases DEF Moves, NextStatusOf
  <2> QED
    BY <2>1, <2>2, RevalidatedCases DEF ClearanceOf
<1>6. ASSUME NEW k \in Keys, UNCHANGED parties,
             checks' = [checks EXCEPT ![k] = Revalidated(checks[k])]
      PROVE  Promise!Deny(k) \/ Promise!Withdraw(k) \/ UNCHANGED Promise!vars
  <2>1. /\ checks'[k] = Revalidated(checks[k])
        /\ \A l \in Keys \ {k} : checks'[l] = checks[l]
    BY <1>1, <1>6
  <2>2. CASE Revalidated(checks[k]) = checks[k]
    <3>1. checks' = checks
      BY <1>1, <1>6, <2>2
    <3> QED
      BY <1>2, <1>6, <3>1
  <2>3. CASE ClearanceOf(Revalidated(checks[k])) = {}
    BY <1>5, <1>6, <2>1, <2>3, RowStep
  <2> QED
    BY <1>5, <2>2, <2>3
<1>7. ASSUME NEW k \in Keys, NEW n \in NameInputs, NEW i \in IdInputs,
             Submit(k, n, i)
      PROVE  Promise!Deny(k) \/ Promise!Withdraw(k) \/ UNCHANGED Promise!vars
  <2>1. /\ UNCHANGED <<parties, approved>>
        /\ \A l \in Keys \ {k} : checks'[l] = checks[l]
    BY <1>1, <1>7 DEF Submit
  <2>2. /\ checks[k].status = "rejected" => checks'[k].status = "rejected"
        /\ checks'[k].status = "released" => checks[k].status = "released"
    BY <1>1, <1>7
    DEF Submit, FreshRow, NoRow, ResubmittedRow, CollapseStatus
  <2>3. KeySafe(k) /\ KeySafe(k)'
    BY <1>1, IInvByKey DEF IInv, RowIntegrity, BindingsMirrorMatched,
       ReleasedRowsAreCurrent, ReleaseCoversOnlyApproved, KeySafe
  <2>4. CASE checks'[k].status = "released"
    <3>1. checks'[k].matched = checks[k].matched
      BY <2>1, <2>2, <2>3, <2>4 DEF KeySafe
    <3>2. ClearanceOf(checks'[k]) = ClearanceOf(checks[k])
      BY <2>2, <2>4, <3>1 DEF ClearanceOf
    <3> QED
      BY <2>1, <2>2, <2>4, <3>2, RowStep
  <2>5. CASE checks'[k].status # "released"
    <3>1. ClearanceOf(checks'[k]) = {}
      BY <2>5 DEF ClearanceOf
    <3> QED
      BY <2>1, <2>2, <3>1, RowStep
  <2> QED
    BY <2>4, <2>5
<1>8. ASSUME NEW k \in Keys, Release(k)
      PROVE  \/ Promise!Clear(k)
             \/ Promise!Deny(k) \/ Promise!Withdraw(k) \/ UNCHANGED Promise!vars
  <2> DEFINE row  == Revalidated(checks[k])
             live == LiveOf(checks[k])
  <2>1. CASE CanDecide(row.status) /\ live # {}
    <3>1. /\ UNCHANGED parties
          /\ checks'[k] = ReleasedRow(row, live)
          /\ \A l \in Keys \ {k} : checks'[l] = checks[l]
      BY <1>1, <1>8, <2>1 DEF Release
    <3>2. row \in Row
      BY <1>1, RevalidatedType
    <3>3. checks'[k].status = "released" /\ checks'[k].matched = live
      <4> HIDE DEF row, live
      <4> QED
        BY <3>1, <3>2 DEF ReleasedRow, Row
    <3>4. live \in SUBSET Snapshot /\ \A m \in live : IsCurrent(m)
      BY <1>1, LiveIsCurrent DEF LiveOf, TypeOK
    <3>5. checks[k].status # "rejected"
      BY <1>5, <2>1 DEF CanDecide
    <3> HIDE DEF row, live
    <3> QED
      BY <1>1, <2>1, <3>1, <3>3, <3>4, <3>5, ClearStep
  <2>2. CASE ~(CanDecide(row.status) /\ live # {})
    BY <1>6, <1>8, <2>2 DEF Release
  <2> QED
    BY <2>1, <2>2
<1>9. ASSUME NEW k \in Keys, Reject(k)
      PROVE  Promise!Deny(k) \/ Promise!Withdraw(k) \/ UNCHANGED Promise!vars
  <2> DEFINE row == Revalidated(checks[k])
  <2>1. CASE CanDecide(row.status)
    <3>1. /\ UNCHANGED parties
          /\ checks'[k] = RejectedRow(row)
          /\ \A l \in Keys \ {k} : checks'[l] = checks[l]
      BY <1>1, <1>9, <2>1 DEF Reject
    <3>2. row \in Row
      BY <1>1, RevalidatedType
    <3>3. checks'[k].status = "rejected"
      <4> HIDE DEF row
      <4> QED
        BY <3>1, <3>2 DEF RejectedRow, Row
    <3>4. ClearanceOf(checks'[k]) = {}
      BY <3>3 DEF ClearanceOf
    <3> QED
      BY <3>1, <3>3, <3>4, RowStep
  <2>2. CASE ~CanDecide(row.status)
    BY <1>6, <1>9, <2>2 DEF Reject
  <2> QED
    BY <2>1, <2>2
<1>10. CASE RegistryStep
  <2>1. ASSUME NEW c \in Cases,
               \/ CreateCase(c)
               \/ \E s \in CaseStatuses : ChangeCaseStatus(c, s)
        PROVE  UNCHANGED <<parties, checks>>
    BY <2>1 DEF CreateCase, ChangeCaseStatus, SetCaseStatus
  <2> QED
    BY <1>2, <1>3, <1>4, <1>10, <2>1 DEF RegistryStep, Promise!Next
<1>11. CASE CheckStep
  <2>1. ASSUME NEW k \in Keys, Get(k)
        PROVE  Promise!Deny(k) \/ Promise!Withdraw(k) \/ UNCHANGED Promise!vars
    BY <1>6, <2>1 DEF Get
  <2> QED
    BY <1>7, <1>8, <1>9, <1>11, <2>1 DEF CheckStep, Promise!Next
<1>12. CASE UNCHANGED vars
  BY <1>2, <1>12 DEF vars
<1> QED
  BY <1>10, <1>11, <1>12 DEF Next

LEMMA PromiseInit == Init => Promise!Init
BY DEF Init, Unregistered, Promise!Init, ProfileOf, Registered, ClearanceOf, NoRow

(* The conflict service implements the promise of module Clearance. *)
THEOREM ServiceKeepsThePromise == Spec => KeepsThePromise
<1>1. IInv /\ [Next]_vars => [Promise!Next]_(Promise!vars)
  BY PromiseStep
<1> QED
  BY <1>1, PromiseInit, Invariant, PTL DEF Spec, KeepsThePromise, Promise!Spec
=============================================================================
