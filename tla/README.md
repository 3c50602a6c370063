# A verification development of LexCase

LexCase is the case management of a law firm: a Go service (Gin handlers,
services, GORM repositories, PostgreSQL) and a React client. Its own core logic
is the check for conflicts of interest: before the firm accepts a new matter,
the opponent is searched among the opponents registered on open cases; a hit
must be reviewed by an administrator, and a release holds only as long as the
profiles it was given for stay as they were. That check is modelled in two
grains, one request at a time and statement by statement. Around it are models,
statement by statement, of cases and clients, bills, accounts and the audit log,
documents, paged lists, the rate limiter, the start of the server on databases
of any age, and the browser's page of conflict checks.

Paths below are relative to `src/backend/internal/` unless they start with `src/`.

## Inventory

| Component | Code | State | Operations |
|---|---|---|---|
| Conflict core | `conflict/core.go` | none | Normalize, Fingerprint, Match, SnapshotStale, Binding, CollapseStatus, CanDecide |
| Conflict service | `service/conflict_service.go`, `handler/conflict_handler.go` | none of its own | Submit, Get, ReadConclusion, List, Release, Reject |
| Conflict repository | `repository/conflict_check_repository.go`, `model/conflict_check.go` | tables `conflict_checks`, `conflict_check_parties` | Create, Find..., Save, ReplaceBindings, InvalidateReleasedByPartyIDs |
| Case parties | `service/case_party_service.go`, `repository/case_party_repository.go` | table `case_parties` | Add, Update, candidates by identity or by id |
| Cases | `service/case_service.go`, `repository/case_repository.go` | table `cases` | Create, Update, ChangeStatus, Assign |
| Clients | `service/client_service.go`, `repository/client_repository.go` | table `clients` | Create, Update, Delete |
| Billing | `service/billing_service.go`, `repository/billing_repository.go` | table `billings` | Create, MarkPaid, MarkInvoiced, Void, Summary |
| Documents and uploads | `service/document_service.go`, `util/file_upload.go`, `src/frontend/src/pages/Documents.tsx` | table `documents`, the files | Upload, Create, Delete |
| Users and authentication | `service/user_service.go`, `middleware/auth.go`, `rbac.go`, `util/jwt.go` | table `users`, tokens | Register, Login, UpdateProfile, List, the checks of token and role |
| Audit log | `middleware/audit_log.go` | table `audit_logs` | a row after each writing request |
| Rate limiter | `middleware/rate_limiter.go` | one token bucket per address, a mutex | Limit |
| Paged lists | `dto/dto_common.go`, the List methods of the repositories | none | COUNT, then SELECT of a page |
| Startup | `src/backend/cmd/server/main.go`, `migration/migrate.go`, `service/seed.go`, `src/docker-compose.yml` | the schema, first rows, sequences | migrate under an advisory lock, seed, serve, exit, be restarted |
| Conflict page | `src/frontend/src/pages/ConflictChecks.tsx`, `api/conflict.ts` | the form, the conclusion shown, the queue, the row under review | submit, look up, review, refresh, turn the queue |
| Session of the client | `src/frontend/src/stores/authStore.ts`, `utils/request.ts`, `router/guards.tsx` | token and user | log in, out, out on a 401 |
| Other pages and stores; configuration, errors, formatting | `src/frontend/src/pages/`, `stores/`; `config/`, `util/`, `handler/response.go` | what they show; none | forms and tables; conversions |

How they interact. Handlers run in a goroutine each and share nothing in memory
except the rate limiter's buckets: everything meets in the database. The
conflict service reads `case_parties` joined with `cases`, so registering a
party, changing one and moving a case to another status all change what a
conclusion means, without the conflict service being called. There are two ways
back: Update of a party revokes the releases linked to it in its own
transaction (active), and every read-back of a conclusion compares it with the
registry and moves it (passive, `revalidate`). Cases look clients and users up,
bills and documents look cases up, and nothing keeps what was looked up from
going; the audit middleware wraps all writing handlers; the page talks to the
handlers over requests that are answered in any order.

What is hard. No row is locked between a read and the write computed from it.
`Save` writes every column of the row as it was read, and inserts the row if it
is gone. Only Submit's `upsert`, the identity branch of a party's Update, the
migration and the seed use a transaction; read-backs, decisions, marks of bills
and changes of cases use separate statements. Two reads of one answer (`enrich`,
Summary, every paged list) may see different tables. Submit answers a lost race
on the unique case key by trying again. What makes each component correct is
listed as `hazards` in `PROJECT.json`, each at its line, with the properties
that would notice.

## Modules

| Module | What it is |
|---|---|
| `ConflictCore` | `conflict/core.go`, function by function |
| `ConflictRules` | what the service computes before it writes: the row of a first or repeated submission, staleness, "can proceed", the row a read-back or decision saves |
| `CaseParties` | the registry: statuses of cases, parties, the candidate queries, the one-statement writes |
| `ConflictService` | every handler of the check as one action, and the safety properties |
| `Clearance` | the abstract promise: a clearance falls in the very step that changes a profile it covers, a denial is final |
| `ConflictConcurrent` | the same handlers statement by statement, several requests in flight, failing statements, restarts |
| `OneAtATime` | `ConflictConcurrent` while no two requests overlap, and `ConflictService` as what its requests do |
| `CaseLifecycle` | cases and clients, statement by statement |
| `Billing`, `BillPromise` | bills statement by statement and Summary's three queries; the abstract ledger they implement |
| `Startup` | instances that migrate and seed one database, fail, stop and are restarted |
| `Accounts` | registration, login, tokens, profiles, the role check, and the audit row behind each write |
| `Documents` | uploads on the disk, documents that refer to them, the dialog that registers them |
| `Paging` | COUNT and SELECT of one page after another while rows come and go |
| `RateLimiter` | `Limit`, one step under its mutex, in units of a part of a minute |
| `ConflictPage` | one page of conflict checks and the requests it has under way |
| `Office` | the components around the check together: `Billing`, `Accounts`, `Documents`, `Paging`, `RateLimiter`, `ConflictPage`, for any values of their constants |
| `MCConflictService`, `MCConflictConcurrent`, `MCOneAtATime`, `MCCaseLifecycle`, `MCStartup`, `MCOffice` | the values of small instances |
| `ConflictRulesProofs` | lemmas about the rules, for both models of the handlers |
| `ConflictServiceProofs`, `ConflictConcurrentProofs`, `CaseLifecycleProofs`, `StartupProofs` | the proofs about a component each |
| `OneAtATimeProofs` | that the statements make up the handlers, and what answers and links inherit from that |
| `OfficeServerProofs` | the inductive invariants of `Accounts`, `Documents`, `RateLimiter` |
| `OfficeProofs` | those of `Billing`, `Paging` and `ConflictPage`, and what follows of `Office` |

### Correspondence

State. `caseStatus` is `cases.status`; `parties` is `case_parties` with the
normalised name and ID, side, case and version (version 0: not registered yet);
`checks` is `conflict_checks` by case key (status "absent": no row); `bindings`
is `conflict_check_parties`. A snapshot is the triple of party, version and
fingerprint that both tables keep. Of the review columns only presence is kept:
`basis`, `reviewer`, `reason`. `approved` and `approvals` are history, read by
properties only.

Data. `Norm` is an arbitrary map from spellings to normal forms. SHA-256 is
taken as injective: a fingerprint is the pair it hashes, a combined fingerprint
the set of pairs of party and fingerprint it sorts and joins. (The separator of
the hashed text, `|`, may in principle occur in a name; that is abstracted.)
`our_parties`, titles, check numbers and submitters are carried along by the
code without being read and are left out; that two check numbers may be equal
is kept (`CheckNoClash`).

Actions of `ConflictService` are whole handlers: `Submit` (with the upsert
transaction), `Get` (also ReadConclusion, which finds the row by other columns
and continues the same way), `Release` and `Reject` (with the read-back that
precedes a decision and stays when the decision is refused), `AddParty`,
`UpdateParty` (with the version and the revocations), `CreateCase`,
`ChangeCaseStatus`. An administrator may move a case to any status, so the
flow check of `service/case_service.go` is not a guard (it is one in `CaseLifecycle`). List writes nothing and
computes `CanProceed` from the stored row without a read-back: `ProceedJustified`
is about that answer, and `ConflictConcurrent` has it as a request of its own.

Steps of `ConflictConcurrent` are single statements, with the local code up to
the next one. `req[r]` is the goroutine's local state: its next statement `pc`,
the row, the live hits, the party record it read. Writes of Submit's
transaction are one step at the commit; its reads are two, as READ COMMITTED
lets each see what is committed by then. SaveRow, DeleteBindings and
InsertBindings are the three statements of a read-back or decision. A unique
violation in Submit (`case_key`, the check number, or a link another handler is
just inserting) rolls back and retries; in a read-back it is an error.
`StatementFails` may end any request at any statement, `Restart` all of them:
committed statements stay. PostgreSQL's row locks make a conflicting UPDATE
wait for a commit and then overwrite, which is the order of the two steps here;
a deadlock it detects between two transactions is a failing statement. One
simplification: the transaction of an identity change is a single step, so the
conclusions it revokes are those at its commit; a release committed between its
revocation statement and its commit is missed by the code, and here the same
end is reached by a release whose reads precede the step and whose Save follows.

`OneAtATime` takes these steps as they are. A request, a registry write and a
status change begin only when nothing is in flight; statements fail and the
process stops anywhere except between the Save of a conclusion and the end of
the ReplaceBindings after it (`Linked`), where the code leaves half a handler
behind (`links_lost`). `settled` is history, the tables when last nothing was
in flight: `ConflictService` is instantiated on it, so that its steps are what
requests make of the tables.

`CaseLifecycle`. `cases` and `clients` are the tables, texts left out. `req[r]`
carries the row a handler has read: ChangeStatus tests `canFlow` on that row and
Save writes all of it, close date too. `stages` and `byAdmin` are history.
Deleting a client is one DELETE; Save of a client whose row is gone inserts it.

`Billing`. A sum is the set of bills it adds up, as amounts never change (which
`BillPromise` states). The marks are `find` and `save`; Summary is `receivable`,
`received`, `pending`. `quiet` is history: no bill written since the first query.

`Startup`. The schema is what the migration asks about: the table, `case_key`
and its nullability, its unique index, what makes `identity_key` and `check_no`
unique, the rows. A migration works on a copy that its commit installs; the
advisory lock lets one at a time in. The seed's inserts wait for another
transaction that has inserted the same username, as PostgreSQL has them wait,
and fail when it commits. Sequences are not given back. `Init` has every
database the repository knows: none, one of before `case_key` with any rows its
own constraints admit, one of `src/database/init.sql` or an earlier start.

`Accounts`. A name is a value with its trimmed form, a hash its password, a
token its signed claims. `acts` and `accepted` are history. The handler's end
(`CarriedOut`) and the audit row are two steps, and the second may fail.

`Documents`. The disk maps a nanosecond to a file and whether it is whole:
creating and copying are two steps. `Paging`. A row is its place in the order;
filters are the rows that pass, so a change of a row may make it enter or leave.
`RateLimiter`. `age` is the time since `lastFill` and stops at a minute, when the
bucket is full anyway. `recent`, the requests of the last minute one by one, and `spent` are history. `ConflictPage`. A
handler goes on after its await with the page and filter of the render that set
it off, the effect with those of the last render; `net` holds what is under way,
numbered in the order sent. The form's key is what the page draws or the user
types; the look-up's fields are not kept, as nothing but the next look-up reads
them. `expected` and `overtaken` are history.

## What is checked

Every run is exhaustive for its bounds.

| Run | Instance | Shows |
|---|---|---|
| `service` | 2 cases, 2 opponents, 1 matter, two names, with or without an ID, versions to 3 | the conflict properties below, a request at a time |
| `promise` | 1 case, 2 parties on either side, 2 matters, versions to 2 | `KeepsThePromise`: `ConflictService` implements `Clearance` |
| `concurrent` | 2 requests in flight, 1 matter, 1 opponent, versions to 2, all kinds of request, failures, restarts | what survives interleaving |
| `liveness` | 2 requests in flight (submit, get, release), 1 opponent that may be registered meanwhile, 1 case closed and reopened, no updates | every request ends; answers resting on two reads of a moving registry |
| `one_at_a_time` | 1 request in flight, 2 matters, 2 opponents hit by one ID, 1 case, versions to 2, failures, restarts | the statements make up the handlers |
| `case_lifecycle` | 2 requests in flight, 1 case, 1 client, administrators and others, 2 close dates, failures, restarts | what stale saves leave of a case |
| `startup` | 2 instances, databases of every age with up to 2 rows, 1 stop or failure at any statement | safety of the start, and that everyone comes to serve |
| `office` | the six components of `Office`, one at a time | what holds of bills, accounts, documents, lists, the limiter and the page |
| `rejected_reopened`, `version_rolled_back`, `revocation_missed`, `links_lost` | as `concurrent` | what the code says of itself and interleaving breaks (below) |

One request at a time (`ConflictService`): `RowIntegrity` (status, review traces
and binding of a row agree), `BindingsMirrorMatched` (links are the snapshots),
`ReleasedRowsAreCurrent` (revocation misses nothing), `ReleaseCoversOnlyApproved`
(no sequence of resubmissions and read-backs slips another profile under a
release), `ProceedJustified` (nobody is wrongly told to proceed),
`RejectedIsFinal`, and `KeepsThePromise`.

Interleaved (`ConflictConcurrent`): `RowIntegrity` still holds, as every Save of
a conclusion writes all of its columns and a revocation, which writes only status
and reason, finds none but released rows and keeps what those have in common with
revoked ones. `ProceedAnswersWereApproved`: an answer
"can proceed" that shows opponents is given only if each of them still in an
open case has, at that moment, an identity an administrator released the matter
for. That is weaker than what holds serially - the version shown may be another
one, since a race can roll a version back between the two reads - and it is
what the second read of `enrich` buys when a revocation has been lost.
`SubmissionsConverge`: a submission reports a missing conclusion only after a
clash of check numbers. `RequestsEnd`: retries end.

Both grains (`OneAtATime`): `RequestsAreHandlers` - what a request leaves behind,
wherever a failure ends it, is what one action of `ConflictService` does, or
nothing; `AnswersAreJustified` - then the version shown is the approved one, which
interleaving takes away; `LinksMatchSnapshots`, which `links_lost` refutes of
requests cut off between their writes.

Cases (`CaseLifecycle`): a stale save may throw a case back to any status it has
had, and still `ClosedIsDated` (a closed case has a close date: the only way
into `closed` dates the row it saves, and dates are never cleared) and
`NoStageSkipped` (without an administrator a case is never in a stage before it
has been in all earlier ones).

Start (`Startup`): `ServesOnSoundSchema`, `RecordsKept` (a conclusion keeps its
number, its opponent and, once it has one, its case key through any number of
starts), `SeededOnceOrNotAtAll` (racing seeds leave one whole seed), and
`EveryoneServes`: every instance comes to serve, as a start that lost a race or
was cut off succeeds when it is repeated.

Bills (`Billing`): `KeepsThePromise` - terms stay, nothing becomes pending again,
only what was paid at some time is invoiced; `CountedOnce` - since Summary asks
for pending last, no bill is both received and pending; `QuietSummaryAddsUp`.
Accounts: `RegistrationStands` (the unique index decides a race, and no late
whole-row save takes password or role back), `TokensCarryTheRole`,
`AuditTellsWhatHappened`. Documents: `DocumentsHaveTheirFiles`. Lists:
`NothingMissed` (who reads on until a page is not full has seen every row that
stayed all the time, as insertions only push rows back), `PromisedPagesHaveRows`.
Limiter: `NoMoreThanPerMin` in any minute, wherever it begins, and
`RefusedOnceSpent`: refusals only follow a spent rate. Page: `DisplayIsExpected`
- once the handlers are done, the conclusion on display is the one last asked for,
one still pending when it was asked, or one a reported error left there, whatever is
typed, cancelled or opened before the answers come; `QueueFollowsInOrder` - while no
answer overtakes another and the queue is not turned under a handler that is to
reload it, it ends up showing what it is turned to, also after a submission on a
later page, where handler and effect ask for different pages. What the two leave
open, several keys in `expected` and `overtaken`, is what goes wrong in the code
(below).

### Findings

* `rejected_reopened`: `conflict/core.go:157` calls a rejection final. `upsert`
  saves the row it read earlier, so a submission that overlaps the rejection
  puts the conclusion back to review.
* `version_rolled_back`: `model/case_party.go:23` has the version advance with
  every change of identity. A contact-only update saves the whole party as read
  and restores the old name and version over a concurrent rename.
* `revocation_missed`: `service/case_party_service.go:58` revokes the releases
  bound to a party in the transaction that changes it. It goes by the links,
  and a release is committed before its links are.
* `links_lost`: `repository/conflict_check_repository.go:110` wants
  ReplaceBindings called in a transaction; `revalidate` and `decide` do not.

### Disagreements without a run of their own

Each of these is stated in its module, under what the code or its documentation
says of itself. Added to a run of the component's own `Spec` it is refuted in
seconds; the words it comes from are quoted by line.

* `PaidFromPending` (`Billing`): `service/billing_service.go:54` has a bill paid
  from pending. Two marks overlap: the stale save at line 65 writes "paid" over
  a bill voided, or invoiced, since it was read.
* `FlowIsStepwise` (`CaseLifecycle`): `service/case_service.go:139` gives the flow a
  case takes, one stage forward or back. A stale save (line 100, and those of
  Update and Assign) takes it back by several.
* `DeletedClientStaysDeleted` (`CaseLifecycle`): `service/client_service.go:62`
  deletes. An Update that has read the client saves it at
  `repository/client_repository.go:61`, and Save inserts what it does not find.
* `IdentityNotUnique` (`Startup`): `migration/migrate.go:147` wants unique indexes
  on `identity_key` gone. Line 176 compares the second slot of `indkey`, whose
  slots begin at 0: a bare unique index of one column is never found.
* `SeedRefersToItsRows` (`Startup`): `service/seed.go:49` registers the parties of
  the seed's open cases. Line 51 writes their numbers down, and a sequence does
  not give back what a rolled-back seed has drawn.
* `WithinRateIsServed` (`RateLimiter`): `middleware/rate_limiter.go:18` calls it a
  token bucket. Line 50 refills whole minutes since the last request, refused
  ones included: a client who asks once in less than a minute is never
  refilled and in the end refused, however low its rate.
* `WritesAreAudited` (`Accounts`): `src/README.md:186` has writes recorded on their
  own. `middleware/audit_log.go:43` inserts after the answer, outside the
  handler's transaction: a failing INSERT is logged and a stop forgets it.
* `PagesAreBounded` (`Paging`): `dto/dto_common.go:6` bounds a page at 200 rows. The
  handlers drop the error of binding (`handler/case_handler.go:33`).
* `CompleteFormsAreUnderstood` (`Documents`): `src/README.md:184` has documents
  uploaded case by case. The dialog (`src/frontend/src/pages/Documents.tsx:69`)
  sends the case id as text, and `dto/dto_document.go:5` wants a number.
* `DeletedFilesAreGone` (`Documents`): the same line has documents deleted.
  `service/document_service.go:53` deletes the row and leaves the file.
* `AnswersAreOfTheForm` (`ConflictPage`): the page starts another matter with an
  empty result, each independent of the last (`ConflictChecks.tsx:110`). An answer
  still under way (line 101) puts the conclusion of the old one back.
* `QueueShowsItsSelection` (`ConflictPage`): `src/README.md:171` has the list
  filtered by status. Of two list answers the later to arrive stays
  (`ConflictChecks.tsx:72`), whatever the queue is turned to.

### Bounds

Conflict modules. `MaxVersion` is the only cap on a counter; the version is
compared for equality and minimum only, so a second and third value give every
outcome. Two opponents are enough for a set of hits to grow, shrink and exchange
a member; two cases for the same identity to be registered twice (the unique
index is by case). One matter suffices where a property is of one row, as rows
meet only in revocation, which `promise` runs with two. Two requests in flight
give every pairwise race; `Restart` and `StatementFails` add those with an
abandoned third. `concurrent` keeps one opponent, as its interleavings are those
of the statements; `liveness` moves the registry instead and leaves updates to
`concurrent`. A second opponent, so that a hit can be new, is in `service`,
`promise` and `one_at_a_time`; that it may come between two statements of a
request is in the proofs, which have any number of both. `one_at_a_time` has one
slot, as slots are interchangeable when one at most is in use.

`case_lifecycle`. The properties are of one case, and cases meet only in their
client; `MaxTime` caps close dates, and a second date shows whether one is
renewed. `startup`. `MaxStops` caps stops and failures together; one stop,
followed by the container's restart, next to a second instance gives every pair
of an interrupted and a whole start; two rows can share or differ in identity
and check number. Symmetry would be unsound with `EveryoneServes` and is not used.

`office`. The six components share no state, so a state of the program is a
tuple of theirs and every behaviour of one is possible whatever the others do:
a behaviour here follows one component (`part`) and each property names the part
it is of. Bills: two, so that one may be marked while another is counted;
`MaxMonth` = 2, a month that is asked about and one that is not. Accounts: one
name typed two ways, `Lifetime` = `MaxTime` = 1 so that a token is seen valid and
expired, `MaxActs` = 3 writes and logins. Documents: two instants, hence two
uploads, two rows, three files of which one is refused. Lists: `MaxRows` = 3 and
`Sizes` 0, 1 and 2, the first replaced by the default. Limiter: three requests in
a minute of three units, two addresses; histories count to one over the rate.
Page: `MaxAsked` = 3 requests before all are answered, which is a submission and
the two reloads that follow it, any number after; `MaxKey` = 2 matters, two pages,
two filters.

Symmetry is used in safety runs only, over sets of model values no definition
tells apart.

### Fairness and deadlock

`FairSpec` of `ConflictConcurrent` has weak fairness of each slot's next
statement: Go schedules every goroutine and the database answers each statement
(or it fails, which also ends the request). `FairSpec` of `Startup` has strong
fairness of each instance's steps: a process runs, PostgreSQL queues waiters on
a lock, so a request for it is granted in its turn although others hold it in
between, and `src/docker-compose.yml:28` has an exited container started again.
No fairness is assumed of clients, failures, stops or restarts of a server that
runs. `EveryoneServes` assumes in its statement that check numbers are not
duplicated in a table that does not forbid it: then the migration refuses, as
`migration/migrate.go` means it to, and only an operator can help.

Deadlock is checked in every run but `startup`, where all instances serving is
the end; elsewhere clients can always send another request.

## What is proved

For every value of the constants, from the named assumptions on them, which the
runs evaluate (`NormAssumption`, `RegistryAssumption`, `InputAssumption`,
`ConcurrentAssumption`, `LifecycleAssumption`, `BillingAssumption`,
`StartupAssumption`, `OfficeAssumption`). The last is the conjunction of the
parts' own: of the limiter only that the rate is an integer and a minute has a
unit, of the lists that sizes are integers, of accounts that there is a profile
to send.

* `ConflictServiceProofs`: `TypeOK` and the inductive invariant `IInv`, the
  conjunction of `TypeOK`, `RowIntegrity`, `BindingsMirrorMatched`,
  `ReleasedRowsAreCurrent` and `ReleaseCoversOnlyApproved`. None of the last four is
  inductive by itself: that a release still covers what was approved after a
  resubmission rests on the comparison of bindings, equal bindings mean equal
  snapshots only if both sets are current (the aggregate version is a minimum),
  the old set is current only if revocation missed nothing, and revocation goes
  by the links. `ProceedJustified` follows from `IInv`; `RejectedIsFinal` is an
  action property.
  `Spec => KeepsThePromise`: registry steps map to Profile or a stutter, Submit and
  Get to Withdraw or a stutter, Release to Clear, Withdraw or a stutter, Reject to
  Deny, Withdraw or a stutter.
* `ConflictConcurrentProofs`, for any number of requests in flight: `TypeOK`,
  `RowIntegrity`, `SubmissionsConverge` and `ProceedAnswersWereApproved`. `IInv` adds
  what holds of each conclusion (`KeyOK`) and of each request by the statement it
  has come to (`PlaceOK`, `DataOK`, `RetryOK`): a handler saves only rows made by the
  operators of `ConflictRules` from a row it read, so stale rows overwrite newer
  ones but never mix with them; a released row, in the table or in a handler's
  hands, names only identities some release approved; and since nothing stored,
  registered or approved is ever taken back (`NothingTakenBack`), what a handler
  found still holds when it goes on.
* `OneAtATimeProofs`, for any number of slots: the three properties of
  `OneAtATime`. `AloneInv` says, at each statement, what the request has read is
  still there and that the tables are those it found, but for the row, the links
  and the approval of its key, which are what its writes so far make of them:
  nothing, the read-back, the read-back and the decision. Where a request can
  end, that is a whole action of `ConflictService` (`AloneStep`); the read-back
  that stays when a decision is refused is one too. So everything proved of
  `ConflictService` holds of the tables between requests (`AlwaysProved`):
  hence `AnswersAreRight` and `LinksFollowSnapshots`, and every request is a step
  of `Clearance` or none (`StatementsKeepThePromise`). `AloneInv` was checked on
  the states of `one_at_a_time` before it was proved.
* `CaseLifecycleProofs`: `TypeOK`, `ClosedIsDated`, `NoStageSkipped`. The row a request
  carries is one the table could have held: it is dated if closed, and every
  stage before its status has been reached, which histories never lose.
* `StartupProofs`, for any number of instances, rows and stops: `TypeOK`,
  `ServesOnSoundSchema`, `RecordsKept`, `SeededOnceOrNotAtAll`. The lock makes the
  schema a migration works on the committed one and what it has done to it; each
  statement establishes its part and keeps the earlier ones'; the seed has one
  holder at a time, the transaction whose `admin` row the others wait for.
* `OfficeServerProofs`, for any number of requests in flight. Accounts
  (`AccountsInv`): a request about an account carries the password and role the
  account has, for only a first registration writes them, and a name once taken
  stays taken; an act that waits for its audit row waits in one request, and has
  no row yet. Documents (`DocumentsInv`): only the upload that drew a name writes
  to it, no name is drawn twice, and once a name has been answered its file is
  whole and nobody writes to it; what a handler is about to register was
  answered. Limiter (`LimiterInv`): what is left in a bucket and what was let
  through since a minute's pause make the whole rate, as only such a pause fills
  the bucket and then fills all of it; and what was let through within the last
  minute was let through since the last pause, for no request of the last minute
  is younger than `lastFill`. So no minute, wherever it begins, has more.
* `OfficeProofs`. Bills (`IInv`): a mark to be saved carries the terms of its bill,
  and an invoice only a bill read as paid; what Summary has counted as received
  has been marked, and no save unmarks it. Hence `TypeOK`, `CountedOnce`,
  `QuietSummaryAddsUp` and `Spec => KeepsThePromise`. Lists (`ReadingInv`): the place of a row is the number of rows
  before it. Places are all different and none is left out, so a page has as many
  rows as fit, and a row behind it means that it is full; what comes into the
  list only moves rows to later places. Hence each row of the start has been
  seen or is on a page to come, and as many rows as were counted are there when
  the page is selected. Page (`PageInv`): whatever a pending answer may put on
  display is expected; while nothing overtakes, those who are to reload the queue
  see it as it is turned, and so does the last request under way or else the
  answer shown, requests being numbered as they are sent. A behaviour of `Office` is, of
  each part, a behaviour of its own or a stutter (`AccountsInTheOffice` and its
  like), so each part's invariant holds in the office, and with it `OfficeTypeOK`,
  `RegistrationStands`, `TokensCarryTheRole`, `AuditTellsWhatHappened`,
  `DocumentsHaveTheirFiles`, `NothingMissed`, `NoMoreThanPerMin`, `RefusedOnceSpent`,
  `DisplayIsExpected`, `QueueFollowsInOrder` and the action property
  `PromisedPagesHaveRows`.

Every safety and action property a passing run checks is the conclusion of a
theorem. Only model-checked: liveness (`RequestsEnd`, `EveryoneServes`), which is
beyond the prover, and the disagreements, which are refuted and not proved.

## Not modelled, and what is left

* The session of the client, but for requests that fail: no text of the program
  says when a session ends, so there is nothing to hold the late 401 of an
  earlier session against; it is listed as a hazard.
* Other pages and stores: forms and tables over the same request layer, their
  tables filled the way the queue of `ConflictPage` is.
* Errors, formatting, configuration, DTOs: conversions and wiring without state.
* Of the documents' server: addresses that no upload was answered with, which
  it registers as well (`dto/dto_document.go:8`); the client modelled is the dialog.
* Of a start: what the library makes of unique constraints of other names than
  the models' (`migration/migrate.go:56`).
* Within modelled components: texts, amounts as numbers, the uniqueness of a
  clock's nanosecond, SQLite (tests only), memory held by buckets.

Next would be `Binding` and `Match` against reference definitions over bounded
inputs; `CaseLifecycle` composed with `ConflictConcurrent`, where only the status
of a case matters and may become any other already.
