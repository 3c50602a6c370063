---------------------------- MODULE ConflictCore ----------------------------
(***************************************************************************)
(* The pure matching core of the conflict-of-interest check                *)
(* (src/backend/internal/conflict/core.go).                                *)
(*                                                                         *)
(* Names and ID numbers are values; Norm maps every spelling a user can    *)
(* type to its normal form, and Blank is the normal form of an empty       *)
(* string.  A fingerprint is the pair of normal forms the code hashes, and *)
(* a combined fingerprint is the set of pairs it sorts, joins and hashes:  *)
(* SHA-256 is taken as injective.                                          *)
(***************************************************************************)
EXTENDS Integers, FiniteSets

CONSTANTS Spellings,  \* the strings a request can carry as a name or an ID
          Forms,      \* the normal forms
          Blank,      \* the normal form of the empty string
          Norm        \* Normalize: blanks removed, letters in upper case

ASSUME NormAssumption ==
  /\ Norm \in [Spellings -> Forms]
  /\ Blank \in Forms

(* Spellings are compared by their normal forms only. *)
Normalize(s) == Norm[s]

Fingerprint(name, id) == <<name, id>>

Statuses == {"no_conflict", "pending_review", "released", "rejected",
             "invalidated"}

(* Only "closed" and "archived" cases are settled. *)
IsOpenCase(status) == status \notin {"closed", "archived"}

(* By ID number when one is given, by name otherwise. *)
IdentityKey(name, id) == IF id # Blank THEN <<"id", id>> ELSE <<"name", name>>

(***************************************************************************)
(* A candidate is a registered party joined with the status of its case:   *)
(*   [party, side, case, name, id, version], case being a case status.     *)
(***************************************************************************)
Opposing(c) == c.side = "opposing" /\ IsOpenCase(c.case)

IdHit(id, c)     == id # Blank /\ c.id # Blank /\ c.id = id
NameHit(name, c) == name # Blank /\ c.name = name

(* Hits by ID number, when there are any, hide the hits by name. *)
Match(name, id, candidates) ==
  LET idHits   == {c \in candidates : Opposing(c) /\ IdHit(id, c)}
      nameHits == {c \in candidates : /\ Opposing(c)
                                      /\ ~IdHit(id, c)
                                      /\ NameHit(name, c)}
  IN IF idHits # {} THEN idHits ELSE nameHits

(* What a conclusion keeps of a hit: who, at which version, being whom. *)
ToSnapshot(c) ==
  [party |-> c.party, version |-> c.version,
   fp |-> Fingerprint(c.name, c.id)]

Snapshots(hits) == {ToSnapshot(c) : c \in hits}

(* The snapshot no longer describes candidate c (its party as it is now). *)
SnapshotStale(snap, c) ==
  \/ snap.version # c.version
  \/ snap.fp # Fingerprint(c.name, c.id)
  \/ ~IsOpenCase(c.case)

(* Smallest version of the set and the combined fingerprint. *)
LeastVersion(snaps) ==
  CHOOSE v \in {s.version : s \in snaps} : \A s \in snaps : v <= s.version

CombinedFingerprint(snaps) == {<<s.party, s.fp>> : s \in snaps}

Binding(snaps) ==
  IF snaps = {} THEN [version |-> 0, fp |-> {}]
  ELSE [version |-> LeastVersion(snaps), fp |-> CombinedFingerprint(snaps)]

BindingUnchanged(bound, snaps) == bound = Binding(snaps)

(* Wrong on purpose: a release survives any resubmission that still hits. *)
CollapseIgnoringBinding(current, hit, bindingOK) ==
  CASE current = "rejected" -> "rejected"
    [] current = "released" /\ hit -> "released"
    [] OTHER -> IF hit THEN "pending_review" ELSE "no_conflict"

(* Wrong on purpose: the case of a rejected conclusion is missing. *)
CollapseReopening(current, hit, bindingOK) ==
  CASE current = "released" /\ hit /\ bindingOK -> "released"
    [] OTHER -> IF hit THEN "pending_review" ELSE "no_conflict"

(* Where a resubmission of the same new case moves its conclusion. *)
CollapseStatus(current, hit, bindingOK) ==
  CASE current = "rejected" -> "rejected"
    [] current = "released" /\ hit /\ bindingOK -> "released"
    [] OTHER -> IF hit THEN "pending_review" ELSE "no_conflict"

(* Wrong on purpose: an administrator may decide again after a rejection. *)
CanDecideAgain(status) == status \in {"pending_review", "rejected"}

(* Only a pending conclusion may be decided by an administrator. *)
CanDecide(status) == status = "pending_review"
=============================================================================
