----------------------------- MODULE CaseParties ----------------------------
(***************************************************************************)
(* The registry the conflict check reads: the firm's cases and the parties *)
(* registered on them (tables cases and case_parties), with the queries of *)
(* case_party_repository.go and the writes that are one statement.         *)
(***************************************************************************)
EXTENDS ConflictRules

CONSTANTS Cases,         \* the firm's cases
          NoCase,        \* the case of a party not registered yet
          CaseStatuses,  \* the case statuses in use
          Sides          \* sides parties are registered on

ASSUME RegistryAssumption ==
  /\ NoCase \notin Cases
  /\ "filed" \in CaseStatuses
  /\ CaseStatuses \subseteq
       {"filed", "investigating", "hearing", "closed", "archived"}
  /\ Sides \subseteq {"our", "opposing"}

VARIABLES caseStatus,  \* Cases -> status, "absent" before creation
          parties      \* Parties -> record, version 0 before registration

Party == [case : Cases \cup {NoCase}, side : {"our", "opposing"},
          name : Forms, id : Forms, version : Nat]

Unregistered == [case |-> NoCase, side |-> "our", name |-> Blank,
                 id |-> Blank, version |-> 0]

Registered(p) == parties[p].version > 0

RegistryTypeOK ==
  /\ caseStatus \in [Cases -> CaseStatuses \cup {"absent"}]
  /\ parties \in [Parties -> Party]

-----------------------------------------------------------------------------
(* A party joined with the status of its case. *)
Candidate(p) ==
  [party |-> p, side |-> parties[p].side,
   case |-> caseStatus[parties[p].case],
   name |-> parties[p].name, id |-> parties[p].id,
   version |-> parties[p].version]

(* Opponents of open cases with this ID number or this name. *)
FindOpposingCandidates(name, id) ==
  {Candidate(p) : p \in {q \in Parties :
     /\ Registered(q)
     /\ parties[q].side = "opposing"
     /\ IsOpenCase(caseStatus[parties[q].case])
     /\ \/ id # Blank /\ parties[q].id = id
        \/ parties[q].name = name}}

FindCandidatesByPartyIDs(ps) ==
  {Candidate(p) : p \in {q \in ps : Registered(q)}}

Live(name, id) ==
  Snapshots(Match(name, id, FindOpposingCandidates(name, id)))

LiveOf(row) == Live(row.name, row.id)

CurrentOf(row) == FindCandidatesByPartyIDs({m.party : m \in row.matched})

(* The snapshot tells the version and identity its party has now. *)
IsCurrent(snap) ==
  /\ Registered(snap.party)
  /\ snap.version = parties[snap.party].version
  /\ snap.fp = Fingerprint(parties[snap.party].name, parties[snap.party].id)

(* The unique index over case, side, normalised name and ID: another party *)
(* than p already has this identity.                                       *)
IdentityTaken(p, c, side, name, id) ==
  \E q \in Parties \ {p} : /\ Registered(q)
                           /\ parties[q].case = c
                           /\ parties[q].side = side
                           /\ parties[q].name = name
                           /\ parties[q].id = id

-----------------------------------------------------------------------------
(* An administrator may move a case to any status. *)
SetCaseStatus(c, status) ==
  /\ caseStatus[c] # "absent"
  /\ caseStatus' = [caseStatus EXCEPT ![c] = status]
  /\ UNCHANGED parties

InsertParty(p, c, side, name, id) ==
  /\ ~Registered(p)
  /\ name # Blank
  /\ caseStatus[c] # "absent"
  /\ ~IdentityTaken(p, c, side, name, id)
  /\ parties' = [parties EXCEPT ![p] =
       [case |-> c, side |-> side, name |-> name, id |-> id, version |-> 1]]
  /\ UNCHANGED caseStatus

(* A blank name or ID number in an update keeps the registered one. *)
Kept(new, old) == IF new = Blank THEN old ELSE new

(* The party record p with a new identity, as Update fills it in. *)
WithIdentity(party, name, id) ==
  [party EXCEPT !.name = Kept(name, party.name), !.id = Kept(id, party.id)]
=============================================================================
