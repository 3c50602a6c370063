--------------------------- MODULE ConflictService --------------------------
(***************************************************************************)
(* Conflict-of-interest checks, one request at a time: every handler runs  *)
(* to its end before the next one starts.  State is the database (cases,   *)
(* case_parties, conflict_checks, conflict_check_parties); an action is a  *)
(* whole handler of conflict_service.go, case_party_service.go or, for     *)
(* the status of cases, case_service.go, with every write it makes.        *)
(* ConflictConcurrent has the same handlers statement by statement.        *)
(***************************************************************************)
EXTENDS CaseParties

CONSTANTS Keys,          \* case keys of new matters
          NameInputs,    \* spellings requests carry as names
          IdInputs,      \* spellings requests carry as ID numbers
          MaxVersion     \* bound: identity changes per party, plus one

ASSUME InputAssumption ==
  /\ NameInputs \subseteq Spellings
  /\ IdInputs \subseteq Spellings
  /\ MaxVersion \in Nat \ {0}

VARIABLES checks,      \* Keys -> row of conflict_checks
          bindings,    \* Keys -> rows of conflict_check_parties
          approved     \* history: what the last release of a key approved

vars == <<caseStatus, parties, checks, bindings, approved>>

-----------------------------------------------------------------------------
Init ==
  /\ caseStatus = [c \in Cases |-> "absent"]
  /\ parties = [p \in Parties |-> Unregistered]
  /\ checks = [k \in Keys |-> NoRow]
  /\ bindings = [k \in Keys |-> {}]
  /\ approved = [k \in Keys |-> {}]

CreateCase(c) ==
  /\ caseStatus[c] = "absent"
  /\ caseStatus' = [caseStatus EXCEPT ![c] = "filed"]
  /\ UNCHANGED <<parties, checks, bindings, approved>>

ChangeCaseStatus(c, status) ==
  /\ SetCaseStatus(c, status)
  /\ UNCHANGED <<checks, bindings, approved>>

AddParty(p, c, side, name, id) ==
  /\ InsertParty(p, c, side, Normalize(name), Normalize(id))
  /\ UNCHANGED <<checks, bindings, approved>>

(* Wrong on purpose: a status the table does not know. *)
RevokedMisspelt(p) ==
  [k \in Keys |->
     IF /\ checks[k].status = "released"
        /\ \E b \in bindings[k] : b.party = p
     THEN [checks[k] EXCEPT !.status = "invalid", !.reason = TRUE]
     ELSE checks[k]]

(* Wrong on purpose: only the conclusions bound to nobody else. *)
RevokedIfAlone(p) ==
  [k \in Keys |->
     IF /\ checks[k].status = "released"
        /\ {b.party : b \in bindings[k]} = {p}
     THEN [checks[k] EXCEPT !.status = "invalidated", !.reason = TRUE]
     ELSE checks[k]]

(* The released conclusions bound to party p, revoked. *)
Revoked(p) ==
  [k \in Keys |->
     IF /\ checks[k].status = "released"
        /\ \E b \in bindings[k] : b.party = p
     THEN [checks[k] EXCEPT !.status = "invalidated", !.reason = TRUE]
     ELSE checks[k]]

(* An identity change: new version and revocations in one transaction.     *)
(* An update that keeps the identity changes nothing that is modelled.     *)
UpdateParty(p, name, id) ==
  LET old == parties[p]
      new == WithIdentity(old, Normalize(name), Normalize(id))
  IN /\ Registered(p)
     /\ old.version < MaxVersion
     /\ new # old
     /\ ~IdentityTaken(p, new.case, new.side, new.name, new.id)
     /\ parties' = [parties EXCEPT ![p] =
                      [new EXCEPT !.version = old.version + 1]]
     /\ checks' = Revoked(p)
     /\ UNCHANGED <<caseStatus, bindings, approved>>

(* Wrong on purpose: nothing to insert, nothing done. *)
ReplaceBindingsIfAny(k, snaps) ==
  IF snaps = {} THEN bindings ELSE [bindings EXCEPT ![k] = snaps]

(* The links of a conclusion are deleted and written anew. *)
ReplaceBindings(k, snaps) == [bindings EXCEPT ![k] = snaps]

-----------------------------------------------------------------------------
Submit(k, nameInput, idInput) ==
  LET name == Normalize(nameInput)
      id   == Normalize(idInput)
      hits == Live(name, id)
  IN /\ name # Blank
     /\ checks' = [checks EXCEPT ![k] =
          IF @.status = "absent" THEN FreshRow(name, id, hits)
          ELSE ResubmittedRow(@, name, id, hits)]
     /\ bindings' = ReplaceBindings(k, hits)
     /\ UNCHANGED <<caseStatus, parties, approved>>

(* Reading a conclusion back moves it where the registry says. *)
NextStatusOf(row) == NextStatus(row, LiveOf(row), CurrentOf(row))

Moves(row) == NextStatusOf(row) # row.status

Revalidated(row) ==
  IF Moves(row) THEN RevalidatedRow(row, LiveOf(row), NextStatusOf(row))
  ELSE row

(* Get and ReadConclusion, by whatever key the row is found. *)
Get(k) ==
  /\ checks[k].status # "absent"
  /\ Moves(checks[k])
  /\ checks' = [checks EXCEPT ![k] = Revalidated(@)]
  /\ bindings' = ReplaceBindings(k, LiveOf(checks[k]))
  /\ UNCHANGED <<caseStatus, parties, approved>>

(* decide revalidates first: what it decides on is the row as read back,   *)
(* and that write stays when the decision itself is refused.               *)
Release(k) ==
  LET row  == Revalidated(checks[k])
      live == LiveOf(checks[k])
      done == CanDecide(row.status) /\ live # {}
  IN /\ checks[k].status # "absent"
     /\ checks' = [checks EXCEPT ![k] =
                     IF done THEN ReleasedRow(row, live) ELSE row]
     /\ bindings' = IF done \/ Moves(checks[k])
                   THEN ReplaceBindings(k, live) ELSE bindings
     /\ approved' = [approved EXCEPT ![k] = IF done THEN live ELSE @]
     /\ UNCHANGED <<caseStatus, parties>>

Reject(k) ==
  LET row == Revalidated(checks[k])
  IN /\ checks[k].status # "absent"
     /\ checks' = [checks EXCEPT ![k] =
                     IF CanDecide(row.status) THEN RejectedRow(row) ELSE row]
     /\ bindings' = IF Moves(checks[k])
                   THEN ReplaceBindings(k, LiveOf(checks[k])) ELSE bindings
     /\ UNCHANGED <<caseStatus, parties, approved>>

RegistryStep ==
  \/ \E c \in Cases : CreateCase(c)
  \/ \E c \in Cases, s \in CaseStatuses : ChangeCaseStatus(c, s)
  \/ \E p \in Parties, c \in Cases, s \in Sides, n \in NameInputs,
        i \in IdInputs : AddParty(p, c, s, n, i)
  \/ \E p \in Parties, n \in NameInputs, i \in IdInputs : UpdateParty(p, n, i)

CheckStep ==
  \/ \E k \in Keys, n \in NameInputs, i \in IdInputs : Submit(k, n, i)
  \/ \E k \in Keys : Get(k)
  \/ \E k \in Keys : Release(k)
  \/ \E k \in Keys : Reject(k)

Next == RegistryStep \/ CheckStep

Spec == Init /\ [][Next]_vars

-----------------------------------------------------------------------------
(***************************************************************************)
(* Properties.                                                             *)
(***************************************************************************)

(* Every column holds a value of its type; a snapshot is never of a party  *)
(* that was not registered (model/conflict_check.go, model/case_party.go). *)
TypeOK ==
  /\ RegistryTypeOK
  /\ checks \in [Keys -> Row]
  /\ bindings \in [Keys -> SUBSET Snapshot]
  /\ approved \in [Keys -> SUBSET Snapshot]

(* Every conclusion agrees with itself after any sequence of handlers      *)
(* (conflict_service.go, upsert, decide and revalidate together).          *)
RowIntegrity == \A k \in Keys : RowConsistent(checks[k])

(* The relation a revocation goes through, conflict_check_parties, holds   *)
(* exactly the snapshots of the conclusion: ReplaceBindings is never       *)
(* forgotten on a path that changes the snapshots.                         *)
BindingsMirrorMatched == \A k \in Keys : bindings[k] = checks[k].matched

(* Active revocation misses nothing: while a conclusion stands released,   *)
(* every party it is bound to is at the version and identity it was bound  *)
(* at, however the registry has changed since (case_party_service.go,      *)
(* Update, with InvalidateReleasedByPartyIDs).                             *)
ReleasedRowsAreCurrent ==
  \A k \in Keys : checks[k].status = "released" =>
    \A m \in checks[k].matched : IsCurrent(m)

(* No resubmission and no read-back slips other profiles under a release:  *)
(* what a released conclusion covers is what an administrator approved     *)
(* when it was last released (upsert keeps "released" only for the same    *)
(* binding).                                                               *)
ReleaseCoversOnlyApproved ==
  \A k \in Keys :
    checks[k].status = "released" => checks[k].matched = approved[k]

(* "Can proceed" is never told wrongly, not even by the list, which does   *)
(* not revalidate: either no opponent of an open case is hit now, or every *)
(* hit is a profile, at its present version, that was approved.            *)
ProceedJustified ==
  \A k \in Keys :
    /\ checks[k].status # "absent"
    /\ CanProceed(checks[k], LiveOf(checks[k]), CurrentOf(checks[k]))
    => LiveOf(checks[k]) \subseteq approved[k]

(* A rejected conclusion stays rejected, whatever is submitted, read or    *)
(* decided later (core.go, CollapseStatus: rejection is final).            *)
RejectedIsFinal ==
  [][\A k \in Keys :
       checks[k].status = "rejected" => checks'[k].status = "rejected"]_vars

(***************************************************************************)
(* Implementation of the promise stated in module Clearance: an opponent's *)
(* profile is its version and identity, a matter is cleared for what a     *)
(* released conclusion matched, and denied when it is rejected.            *)
(***************************************************************************)
NoProfile == [version |-> 0, fp |-> Fingerprint(Blank, Blank)]

ProfileOf(p) ==
  IF Registered(p)
  THEN [version |-> parties[p].version,
        fp |-> Fingerprint(parties[p].name, parties[p].id)]
  ELSE NoProfile

ClearanceOf(row) ==
  IF row.status # "released" THEN {}
  ELSE {[opponent |-> m.party,
         profile |-> [version |-> m.version, fp |-> m.fp]] : m \in row.matched}

Promise == INSTANCE Clearance WITH
  Matters   <- Keys,
  Opponents <- Parties,
  Profiles  <- [version : 1..MaxVersion, fp : Forms \X Forms],
  profile   <- [p \in Parties |-> ProfileOf(p)],
  clearance <- [k \in Keys |-> ClearanceOf(checks[k])],
  denied    <- {k \in Keys : checks[k].status = "rejected"}

(* Every step of the service is a step of that promise or changes none of  *)
(* it: a clearance is given by a release only, for profiles of the moment, *)
(* and falls in the very step that changes one of them.                    *)
KeepsThePromise == Promise!Spec
=============================================================================
