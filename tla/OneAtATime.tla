------------------------------ MODULE OneAtATime ----------------------------
(***************************************************************************)
(* The handlers of ConflictConcurrent when no two requests overlap: then   *)
(* what they do statement by statement is what ConflictService says of     *)
(* whole handlers.  Statements may still fail and the process may stop,    *)
(* anywhere but between the Save of a conclusion and the end of the        *)
(* ReplaceBindings that follows it.                                        *)
(***************************************************************************)
EXTENDS ConflictConcurrent

VARIABLES approved,  \* history: what the last release of a key approved
          settled    \* history: the tables when last nothing was in flight

aloneVars == <<vars, approved, settled>>

Tables == [caseStatus |-> caseStatus, parties |-> parties, checks |-> checks,
           bindings |-> bindings, approved |-> approved]

Quiet == \A r \in Slots : ~InFlight(r)

(* The links of the conclusion that a request has saved are written. *)
Linked(r) == req[r].pc \notin {"unbind", "bind"}

(* Whether the next statement of slot r saves a release. *)
SavesRelease(r) ==
  req[r].pc = "save" /\ req[r].stage = "decide" /\ req[r].kind = "release"

AloneInit ==
  /\ Init
  /\ approved = [k \in Keys |-> {}]
  /\ settled = Tables

HandlerStep(r) ==
  /\ Step(r)
  /\ approved' = IF SavesRelease(r)
                 THEN [approved EXCEPT ![req[r].on] = req[r].row.matched]
                 ELSE approved

OtherStep ==
  /\ \/ \E r \in Slots : Quiet /\ ClientStep(r)
     \/ Quiet /\ RegistryStep
     \/ \E r \in Slots : Linked(r) /\ StatementFails(r)
     \/ (\A r \in Slots : Linked(r)) /\ Restart
  /\ UNCHANGED approved

AloneNext ==
  /\ (\E r \in Slots : HandlerStep(r)) \/ OtherStep
  /\ settled' = IF Quiet' THEN Tables' ELSE settled

AloneSpec == AloneInit /\ [][AloneNext]_aloneVars

-----------------------------------------------------------------------------
Serial == INSTANCE ConflictService WITH
  caseStatus <- settled.caseStatus, parties <- settled.parties,
  checks <- settled.checks, bindings <- settled.bindings,
  approved <- settled.approved,
  NameInputs <- Spellings, IdInputs <- Spellings

(* What a request leaves behind, wherever it ends, is what one handler of  *)
(* ConflictService does to what it found, or nothing (conflict_service.go  *)
(* and case_party_service.go, their handlers from the first statement to   *)
(* the last).                                                              *)
RequestsAreHandlers == [][Serial!Next]_(Serial!vars)

(* An answer that says "can proceed" shows only opponents, at their        *)
(* present versions, that the last release of the matter approved: what    *)
(* ConflictConcurrent can promise of any version holds of the present one  *)
(* when nothing overlaps (conflict_service.go, enrich).                    *)
AnswersAreJustified ==
  [][\A r \in Slots : req'[r].proceed /\ ~req[r].proceed
        => req'[r].live \subseteq approved'[req[r].on]]_aloneVars
=============================================================================
