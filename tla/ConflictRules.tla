---------------------------- MODULE ConflictRules ---------------------------
(***************************************************************************)
(* What the conflict service computes from a conclusion and the registry   *)
(* it has read, before it writes anything: the pure parts of               *)
(* src/backend/internal/service/conflict_service.go, shared by the         *)
(* request-at-a-time model and the interleaved one.                        *)
(*                                                                         *)
(* A conclusion (a row of conflict_checks) keeps the normalised opponent,  *)
(* the snapshots it matched, the binding made of them, and of the review   *)
(* only what properties tell apart: whether a basis, a reviewer and a      *)
(* reason of invalidation are on record.  hit_count is the size of         *)
(* matched, identity_key a function of the opponent.                       *)
(***************************************************************************)
EXTENDS ConflictCore

CONSTANT Parties      \* the ids of registered opponents and own parties

(* A snapshot inside a conclusion, and a row of conflict_check_parties,    *)
(* which keeps the same three columns for the same conclusion.             *)
Snapshot == [party : Parties, version : Nat \ {0}, fp : Forms \X Forms]

Bindings == [version : Nat, fp : SUBSET (Parties \X (Forms \X Forms))]

Row == [status   : Statuses \cup {"absent"},
        name     : Forms,
        id       : Forms,
        matched  : SUBSET Snapshot,
        bound    : Bindings,
        basis    : BOOLEAN,
        reviewer : BOOLEAN,
        reason   : BOOLEAN]

(* The placeholder for a case key that has no row yet. *)
NoRow == [status |-> "absent", name |-> Blank, id |-> Blank,
          matched |-> {}, bound |-> Binding({}),
          basis |-> FALSE, reviewer |-> FALSE, reason |-> FALSE]

(* First submission of a case key: what upsert inserts. *)
FreshRow(name, id, hits) ==
  [NoRow EXCEPT
     !.status  = IF hits # {} THEN "pending_review" ELSE "no_conflict",
     !.name    = name,
     !.id      = id,
     !.matched = hits,
     !.bound   = Binding(hits)]

(* A later submission: the content is overwritten, the status collapsed,   *)
(* and a conclusion sent back to review loses the traces of the last one.  *)
ResubmittedRow(row, name, id, hits) ==
  LET status == CollapseStatus(row.status, hits # {},
                               BindingUnchanged(row.bound, hits))
      kept   == status \notin {"pending_review", "no_conflict"}
  IN [status |-> status, name |-> name, id |-> id,
      matched |-> hits, bound |-> Binding(hits),
      basis    |-> kept /\ row.basis,
      reviewer |-> kept /\ row.reviewer,
      reason   |-> kept /\ row.reason]

(***************************************************************************)
(* enrich: what a reader is told.  live is the set of snapshots of the     *)
(* current hits, current the set of candidates read for the parties the    *)
(* conclusion is bound to (their cases open or not).                       *)
(***************************************************************************)
(* Wrong on purpose: it counts the hits. *)
HasNewHitByCount(row, live) ==
  /\ row.matched # {}
  /\ Cardinality(live) > Cardinality(row.matched)

(* Some hit is of a party the conclusion was not bound to. *)
HasNewHit(row, live) ==
  /\ row.matched # {}
  /\ \E l \in live : \A m \in row.matched : l.party # m.party

(* Wrong on purpose: it skips the open cases instead of the settled ones. *)
ProfileChangedIfSettled(row, current) ==
  \E m \in row.matched, c \in current :
     c.party = m.party /\ SnapshotStale(m, c) /\ ~IsOpenCase(c.case)

(* With live hits left: some bound party, its case open, has changed. *)
ProfileChanged(row, current) ==
  \E m \in row.matched, c \in current :
     c.party = m.party /\ SnapshotStale(m, c) /\ IsOpenCase(c.case)

(* With none left: some bound party is gone, or in a case still open. *)
ChangedWhileOpen(row, current) ==
  \E m \in row.matched : \A c \in current :
     c.party = m.party => IsOpenCase(c.case)

StaleReason(row, live, current) ==
  IF row.matched = {} THEN "fresh"
  ELSE IF live # {}
       THEN IF ProfileChanged(row, current) THEN "profile_changed" ELSE "fresh"
       ELSE IF ChangedWhileOpen(row, current) THEN "profile_changed"
            ELSE "cleared"

(* Wrong on purpose: the hits are not looked at once there was no conflict. *)
CanProceedByStatus(row, live, current) ==
  \/ /\ row.status = "released"
     /\ row.matched # {}
     /\ StaleReason(row, live, current) = "fresh"
     /\ ~HasNewHit(row, live)
  \/ row.status = "no_conflict"

(* "Can proceed": under a release nothing has changed under, or without    *)
(* any hit.                                                                *)
CanProceed(row, live, current) ==
  \/ /\ row.status = "released"
     /\ row.matched # {}
     /\ StaleReason(row, live, current) = "fresh"
     /\ ~HasNewHit(row, live)
  \/ row.status = "no_conflict" /\ live = {}

(* revalidate: the status a conclusion moves to when it is read back. *)
NextStatus(row, live, current) ==
  LET stale == StaleReason(row, live, current)
  IN CASE row.status = "released" /\ HasNewHit(row, live) -> "pending_review"
       [] /\ row.status = "released"
          /\ ~HasNewHit(row, live)
          /\ stale = "profile_changed" -> "invalidated"
       [] /\ row.status = "released"
          /\ ~HasNewHit(row, live)
          /\ stale = "cleared" -> "no_conflict"
       [] row.status = "no_conflict" /\ live # {} -> "pending_review"
       [] OTHER -> row.status

(* Wrong on purpose: the traces of the last review stay. *)
RevalidatedKeepingReview(row, live, status) ==
  [row EXCEPT
     !.status  = status,
     !.matched = live,
     !.reason  = status = "invalidated"]

(* The row revalidate saves.  The binding keeps the value of the last      *)
(* submission or release; an invalidated row keeps its reviewer.           *)
RevalidatedRow(row, live, status) ==
  [row EXCEPT
     !.status   = status,
     !.matched  = live,
     !.basis    = FALSE,
     !.reviewer = status = "invalidated" /\ row.reviewer,
     !.reason   = status = "invalidated"]

(* The row an administrator's release saves: anchored to the live hits. *)
ReleasedRow(row, live) ==
  [row EXCEPT
     !.status   = "released",
     !.matched  = live,
     !.bound    = Binding(live),
     !.basis    = TRUE,
     !.reviewer = TRUE,
     !.reason   = FALSE]

RejectedRow(row) ==
  [row EXCEPT
     !.status   = "rejected",
     !.basis    = TRUE,
     !.reviewer = TRUE,
     !.reason   = FALSE]

(* The columns of a conclusion agree with its status: a decision has its   *)
(* basis and reviewer, a release is anchored to a nonempty set of hits     *)
(* whose binding it carries, a row back in review has no trace of an       *)
(* earlier one, and the reason is there exactly when it was revoked.       *)
RowConsistent(row) ==
  /\ row.status \in {"released", "rejected"} => row.basis /\ row.reviewer
  /\ row.status = "released" => /\ row.matched # {}
                               /\ row.bound = Binding(row.matched)
  /\ row.status \in {"pending_review", "no_conflict"} =>
       ~row.basis /\ ~row.reviewer
  /\ row.reason <=> row.status = "invalidated"
=============================================================================
