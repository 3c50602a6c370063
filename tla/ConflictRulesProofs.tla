------------------------- MODULE ConflictRulesProofs ------------------------
(***************************************************************************)
(* Lemmas about the rules of the conflict check, for the proofs of both    *)
(* models of its handlers: what the rows the handlers save and the live    *)
(* hits look like.                                                         *)
(***************************************************************************)
EXTENDS CaseParties, WellFoundedInduction, TLAPS

(* A nonempty set of versions has a least one, so the version a binding    *)
(* keeps (core.go, Binding) is one of the versions bound.                  *)
LEMMA LeastVersionType ==
  ASSUME NEW snaps \in SUBSET Snapshot, snaps # {}
  PROVE  LeastVersion(snaps) \in Nat
<1> DEFINE V == {s.version : s \in snaps}
           Less == OpToRel(<, Nat)
<1>1. V \subseteq Nat /\ V # {}
  BY DEF Snapshot
<1>2. IsWellFoundedOn(Less, Nat)
  BY NatLessThanWellFounded
<1>3. \A x, y \in Nat : x < y => <<x, y>> \in Less
  BY DEF OpToRel
<1>4. PICK v \in V : \A w \in V : v <= w
  <2> HIDE DEF V, Less
  <2>1. PICK v \in V : \A w \in V : ~(<<w, v>> \in Less)
    BY <1>1, <1>2, WFMin
  <2>2. \A w \in V : ~(w < v)
    BY <1>1, <1>3, <2>1
  <2>3. \A w \in V : v <= w
    BY <1>1, <2>2
  <2> QED
    BY <2>3
<1>5. LeastVersion(snaps) \in V
  <2>1. \A s \in snaps : v <= s.version
    BY <1>4
  <2> QED
    BY <2>1 DEF LeastVersion
<1> QED
  BY <1>1, <1>5

(* A binding has the type of its columns. *)
LEMMA BindingType ==
  ASSUME NEW snaps \in SUBSET Snapshot
  PROVE  Binding(snaps) \in Bindings
<1>1. CombinedFingerprint(snaps) \in SUBSET (Parties \X (Forms \X Forms))
  BY DEF CombinedFingerprint, Snapshot
<1>2. CASE snaps = {}
  BY <1>2 DEF Binding, Bindings
<1>3. CASE snaps # {}
  BY <1>1, <1>3, LeastVersionType DEF Binding, Bindings
<1> QED
  BY <1>2, <1>3

-----------------------------------------------------------------------------
(* A live hit is a snapshot of a registered party as the party is now      *)
(* (conflict_service.go, enrich: candidates, Match, ToSnapshot).           *)
LEMMA LiveIsCurrent ==
  ASSUME RegistryTypeOK, NEW name, NEW id, NEW s \in Live(name, id)
  PROVE  /\ s \in Snapshot
         /\ IsCurrent(s)
<1>1. PICK c \in FindOpposingCandidates(name, id) : s = ToSnapshot(c)
  BY DEF Live, Snapshots, Match
<1>2. PICK p \in Parties : c = Candidate(p) /\ Registered(p)
  BY DEF FindOpposingCandidates
<1>3. s = [party |-> p, version |-> parties[p].version,
           fp |-> <<parties[p].name, parties[p].id>>]
  BY <1>1, <1>2 DEF ToSnapshot, Candidate, Fingerprint
<1>4. parties[p] \in Party
  BY DEF RegistryTypeOK
<1> QED
  BY <1>2, <1>3, <1>4 DEF Snapshot, Party, IsCurrent, Registered, Fingerprint

LEMMA LiveType ==
  ASSUME RegistryTypeOK, NEW name, NEW id
  PROVE  Live(name, id) \in SUBSET Snapshot
BY LiveIsCurrent

(* The rows the handlers save have the type of a row. *)
LEMMA RowTypes ==
  ASSUME NEW row \in Row, NEW name \in Forms, NEW id \in Forms,
         NEW hits \in SUBSET Snapshot, NEW status \in Statuses
  PROVE  /\ FreshRow(name, id, hits) \in Row
         /\ ResubmittedRow(row, name, id, hits) \in Row
         /\ RevalidatedRow(row, hits, status) \in Row
         /\ ReleasedRow(row, hits) \in Row
         /\ RejectedRow(row) \in Row
<1>1. Binding(hits) \in Bindings
  BY BindingType
<1>2. FreshRow(name, id, hits) \in Row
  BY <1>1 DEF FreshRow, NoRow, Row, Statuses
<1>3. ResubmittedRow(row, name, id, hits) \in Row
  BY <1>1 DEF ResubmittedRow, CollapseStatus, Row, Statuses
<1>4. RevalidatedRow(row, hits, status) \in Row
  BY <1>1 DEF RevalidatedRow, Row
<1>5. ReleasedRow(row, hits) \in Row
  BY <1>1 DEF ReleasedRow, Row, Statuses
<1>6. RejectedRow(row) \in Row
  BY DEF RejectedRow, Row, Statuses
<1> QED
  BY <1>2, <1>3, <1>4, <1>5, <1>6

(* A row that moves on being read moves to one of these statuses. *)
LEMMA NextStatusCases ==
  ASSUME NEW row, NEW live, NEW current
  PROVE  \/ NextStatus(row, live, current) = row.status
         \/ /\ row.status = "released"
            /\ NextStatus(row, live, current) \in
                 {"pending_review", "invalidated", "no_conflict"}
         \/ /\ row.status = "no_conflict"
            /\ NextStatus(row, live, current) = "pending_review"
BY DEF NextStatus

-----------------------------------------------------------------------------
(* The rows the handlers save are consistent if the row they had was.      *)
LEMMA RowsConsistent ==
  ASSUME NEW row \in Row, RowConsistent(row), NEW name \in Forms,
         NEW id \in Forms, NEW hits \in SUBSET Snapshot
  PROVE  /\ RowConsistent(FreshRow(name, id, hits))
         /\ RowConsistent(ResubmittedRow(row, name, id, hits))
         /\ \A status \in {"pending_review", "invalidated", "no_conflict"} :
              RowConsistent(RevalidatedRow(row, hits, status))
         /\ hits # {} => RowConsistent(ReleasedRow(row, hits))
         /\ RowConsistent(RejectedRow(row))
<1>1. RowConsistent(FreshRow(name, id, hits))
  BY DEF FreshRow, NoRow, RowConsistent
<1>2. RowConsistent(ResubmittedRow(row, name, id, hits))
  BY DEF ResubmittedRow, CollapseStatus, BindingUnchanged, RowConsistent, Row
<1>3. ASSUME NEW status \in {"pending_review", "invalidated", "no_conflict"}
      PROVE  RowConsistent(RevalidatedRow(row, hits, status))
  BY DEF RevalidatedRow, RowConsistent, Row
<1>4. hits # {} => RowConsistent(ReleasedRow(row, hits))
  BY DEF ReleasedRow, RowConsistent, Row
<1>5. RowConsistent(RejectedRow(row))
  BY DEF RejectedRow, RowConsistent, Row
<1> QED BY <1>1, <1>2, <1>3, <1>4, <1>5

(* A resubmission that leaves a row released has hit the parties it was    *)
(* released for, each with the identity it had (core.go, Binding and       *)
(* CollapseStatus).                                                        *)
LEMMA ReleasedAgain ==
  ASSUME NEW row \in Row, RowConsistent(row), NEW name, NEW id,
         NEW hits \in SUBSET Snapshot, NEW h \in hits,
         ResubmittedRow(row, name, id, hits).status = "released"
  PROVE  /\ row.status = "released"
         /\ \E m \in row.matched : m.party = h.party /\ m.fp = h.fp
<1>1. row.status = "released" /\ row.bound = Binding(hits)
  BY DEF ResubmittedRow, CollapseStatus, BindingUnchanged
<1>2. row.matched # {} /\ row.bound = Binding(row.matched)
  BY <1>1 DEF RowConsistent
<1>3. CombinedFingerprint(row.matched) = CombinedFingerprint(hits)
  BY <1>1, <1>2 DEF Binding
<1>4. <<h.party, h.fp>> \in CombinedFingerprint(row.matched)
  BY <1>3 DEF CombinedFingerprint
<1> QED BY <1>1, <1>4 DEF CombinedFingerprint
=============================================================================
