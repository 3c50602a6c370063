-------------------------------- MODULE Office ------------------------------
(***************************************************************************)
(* The components around cases and conclusions: bills, accounts,           *)
(* documents, paged lists, the rate limiter and the browser's page.  They  *)
(* share no state, so what each can do in the program is what it can do    *)
(* alone: a behaviour follows one of them, its part, and the others stay   *)
(* where they began.  The instance of Billing is this module's own state;  *)
(* the others' have their variables here.                                  *)
(***************************************************************************)
EXTENDS Billing

CONSTANTS
  Typed, Trim, Passwords, Short, Profiles, Lifetime, MaxTime, MaxActs,
                                            \* of Accounts
  Files, Allowed, Instants, Docs, CaseIds, OpenedCases,
                                            \* of Documents
  MaxRows, Sizes,                           \* of Paging
  Ips, PerMin, Minute,                      \* of RateLimiter
  Pages, Filters, MaxAsked, MaxKey          \* of ConflictPage

VARIABLES users, tokens, audit, now, accReq, acts, accepted,
          disk, drawnAt, answers, docs, meant, deleted, docReq,
          last, shown, reader,
          buckets, recent, spent, refused,
          caseKey, result, page, statusFilter, list, review, net, asked,
          expected, overtaken,
          part      \* the component a behaviour follows

Acc == INSTANCE Accounts WITH Nobody <- Nothing, req <- accReq

Doc == INSTANCE Documents WITH
  Acceptable <- Allowed, drawn <- drawnAt, req <- docReq

Lists == INSTANCE Paging

Rate == INSTANCE RateLimiter

Page == INSTANCE ConflictPage

ASSUME OfficeAssumption ==
  /\ Acc!AccountsAssumption
  /\ Doc!DocumentsAssumption
  /\ Lists!PagingAssumption
  /\ Rate!RateAssumption
  /\ Page!PageAssumption

Parts == {"bills", "accounts", "documents", "lists", "rate", "page"}

accVars == <<users, tokens, audit, now, accReq, acts, accepted>>

docVars == <<disk, drawnAt, answers, docs, meant, deleted, docReq>>

listVars == <<last, shown, reader>>

rateVars == <<buckets, recent, spent, refused>>

pageVars == <<caseKey, result, page, statusFilter, list, review,
              net, asked, expected, overtaken>>

OfficeVars ==
  <<vars, accVars, docVars, listVars, rateVars, pageVars, part>>

OfficeInit ==
  /\ part \in Parts
  /\ Init /\ Acc!Init /\ Doc!Init /\ Lists!Init /\ Rate!Init /\ Page!Init

BillStep ==
  /\ part = "bills" /\ Next
  /\ UNCHANGED <<accVars, docVars, listVars, rateVars, pageVars, part>>

AccountStep ==
  /\ part = "accounts" /\ Acc!Next
  /\ UNCHANGED <<vars, docVars, listVars, rateVars, pageVars, part>>

DocumentStep ==
  /\ part = "documents" /\ Doc!Next
  /\ UNCHANGED <<vars, accVars, listVars, rateVars, pageVars, part>>

ListStep ==
  /\ part = "lists" /\ Lists!Next
  /\ UNCHANGED <<vars, accVars, docVars, rateVars, pageVars, part>>

RateStep ==
  /\ part = "rate" /\ Rate!Next
  /\ UNCHANGED <<vars, accVars, docVars, listVars, pageVars, part>>

PageStep ==
  /\ part = "page" /\ Page!Next
  /\ UNCHANGED <<vars, accVars, docVars, listVars, rateVars, part>>

OfficeNext ==
  BillStep \/ AccountStep \/ DocumentStep \/ ListStep \/ RateStep \/ PageStep

OfficeSpec == OfficeInit /\ [][OfficeNext]_OfficeVars

-----------------------------------------------------------------------------
(* The types of all parts, each as stated in its module.                   *)
OfficeTypeOK ==
  /\ part = "bills" => TypeOK
  /\ part = "accounts" => Acc!TypeOK
  /\ part = "documents" => Doc!TypeOK
  /\ part = "lists" => Lists!TypeOK
  /\ part = "rate" => Rate!TypeOK
  /\ part = "page" => Page!TypeOK

(* A registration that succeeded is the only one of its name and stands    *)
(* (user_service.go, Register and UpdateProfile).                          *)
RegistrationStands ==
  part = "accounts" => Acc!RegistrationStands

(* A token carries the role of its account (jwt.go, auth.go, rbac.go).     *)
TokensCarryTheRole ==
  part = "accounts" => Acc!TokensCarryTheRole

(* An audit row stands for one act and names whose it was (audit_log.go).  *)
AuditTellsWhatHappened ==
  part = "accounts" => Acc!AuditTellsWhatHappened

(* Behind a document's address is the whole file that was uploaded for it  *)
(* (file_upload.go, document_service.go).                                  *)
DocumentsHaveTheirFiles ==
  part = "documents" => Doc!DocumentsHaveTheirFiles

(* Reading on until a page is not full misses no row that was there all    *)
(* the time (the List methods of the repositories).                        *)
NothingMissed ==
  part = "lists" => Lists!NothingMissed

(* A page that the total promises has a row on it (the List methods).      *)
PromisedPagesHaveRows == Lists!PromisedPagesHaveRows

(* No minute lets more than the rate through (rate_limiter.go, Limit).     *)
NoMoreThanPerMin ==
  part = "rate" => Rate!NoMoreThanPerMin

(* A refusal means the rate was spent since the last quiet minute          *)
(* (rate_limiter.go, Limit).                                               *)
RefusedOnceSpent ==
  part = "rate" => Rate!RefusedOnceSpent

(* The conclusion on display is in the end the one last asked for, one     *)
(* pending then, or one an error left there (ConflictChecks.tsx, onSubmit, *)
(* onLookup, startAnotherCase and onConfirmReview).                        *)
DisplayIsExpected ==
  part = "page" => Page!DisplayIsExpected

(* While answers come in order the queue ends up showing what it is turned *)
(* to, or an error (ConflictChecks.tsx, onSubmit, fetchList, the effect).  *)
QueueFollowsInOrder ==
  part = "page" => Page!QueueFollowsInOrder
=============================================================================
