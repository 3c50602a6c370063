------------------------------- MODULE Startup ------------------------------
(***************************************************************************)
(* Instances of the server starting on one database: the migration, the    *)
(* seed, and the container that is restarted when its process exits.       *)
(*                                                                         *)
(* The migration is one transaction under an advisory lock that the end of *)
(* the transaction releases: its statements work on a copy of the schema   *)
(* that the commit installs.  The seed is a transaction too, under no      *)
(* lock; what a sequence has given out is not given back by a rollback.    *)
(*                                                                         *)
(* Of the schema only conflict_checks matters: its other tables are        *)
(* created if they are missing and nothing depends on them.  The plain     *)
(* index on identity_key only serves speed and is left out.                *)
(***************************************************************************)
EXTENDS Naturals, FiniteSets

CONSTANTS Instances,  \* processes started on the database
          RowIds,     \* rows conflict_checks may hold
          MaxStops    \* bound: failures and stops of processes

ASSUME StartupAssumption == MaxStops \in Nat

VARIABLES schema,   \* conflict_checks as committed
          users,    \* users as committed: Usernames -> id, 0 for none
          cases,    \* ids of the cases the seed has committed
          parties,  \* case ids the seeded parties are registered under
          userSeq,  \* the sequence of users.id
          caseSeq,  \* the sequence of cases.id
          proc,     \* Instances -> the process: its pc and open transaction
          stops     \* history: failures and stops so far

vars == <<schema, users, cases, parties, userSeq, caseSeq, proc, stops>>

-----------------------------------------------------------------------------
(***************************************************************************)
(* table      the table exists                                             *)
(* column     case_key: "missing", "nullable" or "not_null"                *)
(* caseKey    the unique index on case_key exists                          *)
(* identity   what makes identity_key unique: a constraint, a bare index   *)
(* checkNo    the same for check_no                                        *)
(* records    the rows: identity, check number and case key, "" for NULL   *)
(***************************************************************************)
UniqueKinds == {"constraint", "index"}

Record == [identity : {"x", "y"}, checkNo : 1..2,
           key : {"", "own"} \X {0} \cup {"x", "y"} \X RowIds]

Schema ==
  [table : BOOLEAN, column : {"missing", "nullable", "not_null"},
   caseKey : BOOLEAN, identity : SUBSET UniqueKinds,
   checkNo : SUBSET UniqueKinds,
   records : UNION {[S -> Record] : S \in SUBSET RowIds}]

NoKey == <<"", 0>>

NoRecords == [k \in {} |-> 0]

Fresh == [table |-> FALSE, column |-> "missing", caseKey |-> FALSE,
          identity |-> {}, checkNo |-> {}, records |-> NoRecords]

Distinct(records, field) ==
  \A j, k \in DOMAIN records : records[j][field] = records[k][field] => j = k

(* A database of before case_key: its rows obey the uniqueness it has. *)
Legacy ==
  {s \in Schema :
     /\ s.table /\ s.column = "missing" /\ ~s.caseKey
     /\ \A k \in DOMAIN s.records : s.records[k].key = NoKey
     /\ s.identity # {} => Distinct(s.records, "identity")
     /\ s.checkNo # {} => Distinct(s.records, "checkNo")}

(* A database that database/init.sql or an earlier start has set up. *)
Current ==
  {s \in Schema :
     /\ s.table /\ s.column = "not_null" /\ s.caseKey
     /\ s.identity = {} /\ s.checkNo = {"constraint"}
     /\ \A k \in DOMAIN s.records : s.records[k].key = <<"own", 0>>
     /\ Distinct(s.records, "key")
     /\ Distinct(s.records, "checkNo")}

Usernames == {"admin", "lawyer", "assistant"}

NoUsers == [u \in Usernames |-> 0]

(***************************************************************************)
(* pc: lock, backfill, migrate, not_null, drop, check_no (the migration),  *)
(* count, the usernames, case1, case2, parties (the seed: what is to be    *)
(* inserted next), waiting (on another transaction's username), serving,   *)
(* exited.                                                                 *)
(***************************************************************************)
Begun ==
  [pc |-> "lock", schema |-> Fresh, users |-> NoUsers, cases |-> {}]

Exited == [Begun EXCEPT !.pc = "exited"]

Migrating == {"backfill", "migrate", "not_null", "drop", "check_no"}

Seeding == Usernames \cup {"waiting", "case1", "case2", "parties"}

Goto(i, next) == proc' = [proc EXCEPT ![i] = next]

Init ==
  /\ schema \in {Fresh} \cup Legacy \cup Current
  /\ users \in {NoUsers, [u \in Usernames |-> IF u = "admin" THEN 1
                                 ELSE IF u = "lawyer" THEN 2 ELSE 3]}
  /\ cases = {}
  /\ parties = {}
  /\ userSeq = Cardinality({u \in Usernames : users[u] # 0})
  /\ caseSeq = 0
  /\ proc = [i \in Instances |-> Begun]
  /\ stops = 0

-----------------------------------------------------------------------------
(* The migration. *)

(* pg_advisory_xact_lock: granted while no other transaction holds it. *)
AcquireLock(i) ==
  /\ proc[i].pc = "lock"
  /\ \A j \in Instances : proc[j].pc \notin Migrating
  /\ Goto(i, [proc[i] EXCEPT !.pc = "backfill", !.schema = schema])
  /\ UNCHANGED <<schema, users, cases, parties, userSeq, caseSeq, stops>>

(* A statement of the migration takes the transaction's schema to after;   *)
(* when ok does not hold, the statement fails and the process exits.       *)
Migrates(i, from, to, ok, after) ==
  /\ proc[i].pc = from
  /\ Goto(i, IF ok THEN [proc[i] EXCEPT !.pc = to, !.schema = after]
             ELSE Exited)
  /\ UNCHANGED <<schema, users, cases, parties, userSeq, caseSeq, stops>>

(* Wrong on purpose: rows of one identity get one key. *)
BackfilledByIdentity(s) ==
  IF ~s.table \/ s.column # "missing" THEN s
  ELSE [s EXCEPT !.column = "nullable",
                 !.records = [k \in DOMAIN s.records |->
                   [s.records[k] EXCEPT
                      !.key = <<s.records[k].identity,
                                CHOOSE j \in RowIds : TRUE>>]]]

(* Wrong on purpose: the keys are filled in again at every start. *)
BackfilledAlways(s) ==
  IF ~s.table THEN s
  ELSE [s EXCEPT !.column = "nullable",
                 !.records = [k \in DOMAIN s.records |->
                   [s.records[k] EXCEPT !.key = <<s.records[k].identity, k>>]]]

(* Only a table that lacks the column gets it, and its rows a key each.    *)
Backfilled(s) ==
  IF ~s.table \/ s.column # "missing" THEN s
  ELSE [s EXCEPT !.column = "nullable",
                 !.records = [k \in DOMAIN s.records |->
                   [s.records[k] EXCEPT !.key = <<s.records[k].identity, k>>]]]

BackfillCaseKey(i) ==
  Migrates(i, "backfill", "migrate", TRUE, Backfilled(proc[i].schema))

(* AutoMigrate creates the table of the models, or the unique index on     *)
(* case_key that a table lacks, which duplicates make fail.  Indexes and   *)
(* constraints of other names, and what the library makes of them, are     *)
(* left out.                                                               *)
AutoMigrate(i) ==
  LET s == proc[i].schema
  IN Migrates(i, "migrate", "not_null",
       ~s.table \/ s.caseKey \/ Distinct(s.records, "key"),
       [s EXCEPT !.table = TRUE, !.caseKey = TRUE,
                 !.column = IF s.table THEN @ ELSE "not_null"])

(* Wrong on purpose: another word for the column's state. *)
SetNotNullMisspelt(i) ==
  LET s == proc[i].schema
  IN Migrates(i, "not_null", "drop",
       \A k \in DOMAIN s.records : s.records[k].key # NoKey,
       [s EXCEPT !.column = "not null"])

SetNotNull(i) ==
  LET s == proc[i].schema
  IN Migrates(i, "not_null", "drop",
       \A k \in DOMAIN s.records : s.records[k].key # NoKey,
       [s EXCEPT !.column = "not_null"])

(* The columns of an index on one column: its slots count from 0. *)
indkey == [slot \in {0} |-> "identity_key"]

(* The bare unique indexes the catalogue query finds by the column in      *)
(* slot 1, and the constraints the query before it finds.  The rows of the *)
(* second replace those of the first, unless there are none.               *)
BareIndexes(s) == {u \in s.identity \cap {"index"} : 1 \in DOMAIN indkey}

Found(s) ==
  IF BareIndexes(s) # {} THEN BareIndexes(s) ELSE s.identity \cap {"constraint"}

DropUniqueOnIdentity(i) ==
  LET s == proc[i].schema
  IN Migrates(i, "drop", "check_no", TRUE,
              [s EXCEPT !.identity = @ \ Found(s)])

(* Wrong on purpose: a bare index does not count, and the constraint is    *)
(* added next to it; with neither, the check is left for another time.     *)
WithUniqueIfIndexed(s) ==
  IF s.checkNo = {"index"} THEN [s EXCEPT !.checkNo = UniqueKinds] ELSE s

(* Any kind of uniqueness will do; only where there is none is the         *)
(* constraint added.                                                       *)
WithUnique(s) ==
  IF s.checkNo # {} THEN s ELSE [s EXCEPT !.checkNo = {"constraint"}]

(* The last statement, and the commit.  Duplicates are not touched: the    *)
(* process exits.                                                          *)
EnsureCheckNoUnique(i) ==
  LET s == proc[i].schema
  IN /\ proc[i].pc = "check_no"
     /\ IF s.checkNo # {} \/ Distinct(s.records, "checkNo")
        THEN /\ schema' = WithUnique(s)
             /\ Goto(i, [Begun EXCEPT !.pc = "count"])
        ELSE /\ UNCHANGED schema
             /\ Goto(i, Exited)
     /\ UNCHANGED <<users, cases, parties, userSeq, caseSeq, stops>>

-----------------------------------------------------------------------------
(* The seed. *)

SeedCount(i) ==
  /\ proc[i].pc = "count"
  /\ Goto(i, [proc[i] EXCEPT !.pc = IF users = NoUsers THEN "admin"
                                    ELSE "serving"])
  /\ UNCHANGED <<schema, users, cases, parties, userSeq, caseSeq, stops>>

NextInsert == [admin |-> "lawyer", lawyer |-> "assistant",
               assistant |-> "case1", case1 |-> "case2", case2 |-> "parties"]

(* Another transaction has inserted this username and not ended. *)
Blocked(i, u) ==
  \E j \in Instances \ {i} : proc[j].pc # "waiting" /\ proc[j].users[u] # 0

(* INSERT of a user: the id is drawn first; a username already committed   *)
(* fails, one in another open transaction is waited for.                   *)
SeedUser(i) ==
  LET u == proc[i].pc
  IN /\ u \in Usernames
     /\ userSeq' = userSeq + 1
     /\ Goto(i, IF users[u] # 0 THEN Exited
                ELSE [proc[i] EXCEPT !.users[u] = userSeq + 1,
                        !.pc = IF Blocked(i, u) THEN "waiting"
                               ELSE NextInsert[u]])
     /\ UNCHANGED <<schema, users, cases, parties, caseSeq, stops>>

(* Only the first username can make an instance wait. *)
SeedWaited(i) ==
  /\ proc[i].pc = "waiting"
  /\ ~Blocked(i, "admin")
  /\ Goto(i, IF users["admin"] # 0 THEN Exited
             ELSE [proc[i] EXCEPT !.pc = "lawyer"])
  /\ UNCHANGED <<schema, users, cases, parties, userSeq, caseSeq, stops>>

(* Wrong on purpose: each case is committed by itself. *)
SeedCaseAlone(i) ==
  LET p == proc[i]
  IN /\ p.pc \in {"case1", "case2"}
     /\ caseSeq' = caseSeq + 1
     /\ cases' = cases \cup {caseSeq + 1}
     /\ Goto(i, [p EXCEPT !.cases = @ \cup {caseSeq + 1},
                          !.pc = NextInsert[p.pc]])
     /\ UNCHANGED <<schema, users, parties, userSeq, stops>>

SeedCase(i) ==
  LET p == proc[i]
  IN /\ p.pc \in {"case1", "case2"}
     /\ caseSeq' = caseSeq + 1
     /\ Goto(i, [p EXCEPT !.cases = @ \cup {caseSeq + 1},
                          !.pc = NextInsert[p.pc]])
     /\ UNCHANGED <<schema, users, cases, parties, userSeq, stops>>

(* The lead lawyer of both cases, and the cases of the parties, as the     *)
(* seed writes them down.                                                  *)
LeadLawyerID == 2

PartyCaseIDs == {1, 2}

SeedPartiesAndCommit(i) ==
  /\ proc[i].pc = "parties"
  /\ users' = proc[i].users
  /\ cases' = cases \cup proc[i].cases
  /\ parties' = PartyCaseIDs
  /\ Goto(i, [Begun EXCEPT !.pc = "serving"])
  /\ UNCHANGED <<schema, userSeq, caseSeq, stops>>

-----------------------------------------------------------------------------
(* A statement fails or the process is stopped: what its transaction did   *)
(* is rolled back and its lock released; sequences stay where they are.    *)
Stop(i) ==
  /\ proc[i].pc # "exited"
  /\ stops < MaxStops
  /\ stops' = stops + 1
  /\ Goto(i, Exited)
  /\ UNCHANGED <<schema, users, cases, parties, userSeq, caseSeq>>

(* restart: unless-stopped *)
RestartContainer(i) ==
  /\ proc[i].pc = "exited"
  /\ Goto(i, Begun)
  /\ UNCHANGED <<schema, users, cases, parties, userSeq, caseSeq, stops>>

Step(i) ==
  \/ AcquireLock(i)
  \/ BackfillCaseKey(i)
  \/ AutoMigrate(i)
  \/ SetNotNull(i)
  \/ DropUniqueOnIdentity(i)
  \/ EnsureCheckNoUnique(i)
  \/ SeedCount(i)
  \/ SeedUser(i)
  \/ SeedWaited(i)
  \/ SeedCase(i)
  \/ SeedPartiesAndCommit(i)
  \/ RestartContainer(i)

(* All instances serving is where starting up ends. *)
Next == \E i \in Instances : Step(i) \/ Stop(i)

Spec == Init /\ [][Next]_vars

(* A process runs, a waiting lock request is granted in its turn, and the  *)
(* container's restart policy starts a process that has exited again.      *)
FairSpec == Spec /\ \A i \in Instances : SF_vars(Step(i))

-----------------------------------------------------------------------------
(* The schema, as committed and as open transactions see it, and what the  *)
(* processes are doing have their types (migrate.go, seed.go, main.go).    *)
TypeOK ==
  /\ schema \in Schema
  /\ users \in [Usernames -> Nat]
  /\ cases \subseteq Nat /\ parties \subseteq Nat
  /\ userSeq \in Nat /\ caseSeq \in Nat
  /\ proc \in [Instances ->
       [pc : {"lock", "count", "serving", "exited"} \cup Migrating \cup Seeding,
        schema : Schema, users : [Usernames -> Nat], cases : SUBSET Nat]]
  /\ stops \in 0..MaxStops

(* An instance only serves on a database where one conclusion per matter   *)
(* and one per check number is enforced, whatever database it was given    *)
(* and wherever earlier starts were interrupted (migration/migrate.go).    *)
ServesOnSoundSchema ==
  (\E i \in Instances : proc[i].pc = "serving") =>
    /\ schema.table
    /\ schema.column = "not_null"
    /\ schema.caseKey /\ Distinct(schema.records, "key")
    /\ schema.checkNo # {} /\ Distinct(schema.records, "checkNo")
    /\ "constraint" \notin schema.identity

(* A conclusion keeps its number and its opponent, and once it has a case  *)
(* key keeps that one, however often the migration runs (migrate.go: the   *)
(* backfill is for tables that lack the column).                           *)
RecordsKept ==
  [][\A k \in DOMAIN schema.records :
       /\ k \in DOMAIN schema'.records
       /\ schema'.records[k].identity = schema.records[k].identity
       /\ schema'.records[k].checkNo = schema.records[k].checkNo
       /\ schema.records[k].key # NoKey =>
            schema'.records[k].key = schema.records[k].key]_vars

(* The seed's rows are there together or not at all, from one run of it,   *)
(* though instances race and stop in the middle (seed.go: a transaction,   *)
(* and the unique username).                                               *)
SeededOnceOrNotAtAll ==
  \/ cases = {} /\ parties = {}
  \/ /\ \A u \in Usernames : users[u] # 0
     /\ Cardinality(cases) = 2 /\ parties # {}

(* Unless check numbers are duplicated, which it is not for the program to *)
(* repair, every instance comes to serve: a start that loses a race or is  *)
(* interrupted succeeds when it is repeated (main.go, docker-compose.yml). *)
EveryoneServes ==
  [](schema.checkNo # {} \/ Distinct(schema.records, "checkNo")) =>
    \A i \in Instances : []<>(proc[i].pc = "serving")

-----------------------------------------------------------------------------
(***************************************************************************)
(* What the code says of itself and does not do.                           *)
(***************************************************************************)

(* No unique constraint and no unique index is left on identity_key        *)
(* (migrate.go, the comment of dropUniqueOnColumnPostgres).                *)
IdentityNotUnique ==
  (\E i \in Instances : proc[i].pc = "serving") => schema.identity = {}

(* The parties of the seed are registered under its open cases, and its    *)
(* cases are led by its lawyer (seed.go, the comment of the parties).      *)
SeedRefersToItsRows ==
  parties # {} => parties = cases /\ users["lawyer"] = LeadLawyerID
=============================================================================
