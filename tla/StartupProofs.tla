---------------------------- MODULE StartupProofs ---------------------------
(***************************************************************************)
(* What starting up leaves true of the database, for any number of         *)
(* instances, rows and stops.                                              *)
(*                                                                         *)
(* The argument: the advisory lock lets one instance migrate at a time, so *)
(* the schema it works on is the committed one and what it has done to it; *)
(* each statement establishes its part and keeps those of the statements   *)
(* before it, and keeps all of them when an earlier start has established  *)
(* them; an instance past the migration has committed them.                *)
(***************************************************************************)
EXTENDS Startup, FiniteSetTheorems, TLAPS

(* Every row has a case key of its own. *)
Keyed(s) ==
  /\ \A k \in DOMAIN s.records : s.records[k].key # NoKey
  /\ Distinct(s.records, "key")

(* What holds of the schema at any statement. *)
Valid(s) ==
  /\ s \in Schema
  /\ ~s.table => s.column = "missing" /\ DOMAIN s.records = {}
  /\ s.column = "missing" => \A k \in DOMAIN s.records : s.records[k].key = NoKey
  /\ s.column # "missing" => Keyed(s)
  /\ s.checkNo # {} => Distinct(s.records, "checkNo")

(* What the migration has established before the statement pc. *)
Reached(pc, s) ==
  /\ pc # "backfill" => s.column # "missing" \/ ~s.table
  /\ pc \in {"not_null", "drop", "check_no"} => s.table /\ s.caseKey
  /\ pc \in {"drop", "check_no"} => s.column = "not_null"
  /\ pc = "check_no" => "constraint" \notin s.identity

(* What it has established at its end. *)
Sound(s) ==
  /\ s.table /\ s.column = "not_null" /\ s.caseKey
  /\ s.checkNo # {}
  /\ "constraint" \notin s.identity

(* The rows of s are in t, with what they had. *)
KeptRows(s, t) ==
  \A k \in DOMAIN s.records :
    /\ k \in DOMAIN t.records
    /\ t.records[k].identity = s.records[k].identity
    /\ t.records[k].checkNo = s.records[k].checkNo
    /\ s.records[k].key # NoKey => t.records[k].key = s.records[k].key

ProcessOK(p) ==
  /\ p.pc \in Migrating => /\ Valid(p.schema) /\ Reached(p.pc, p.schema)
                           /\ Sound(schema) => Sound(p.schema)
                           /\ KeptRows(schema, p.schema)
  /\ p.pc \in {"count", "serving"} \cup Seeding => Sound(schema)

IInv ==
  /\ TypeOK
  /\ Valid(schema)
  /\ \A i \in Instances : ProcessOK(proc[i])
  /\ \A i, j \in Instances :
       proc[i].pc \in Migrating /\ proc[j].pc \in Migrating => i = j

-----------------------------------------------------------------------------
LEMMA SchemaFields ==
  ASSUME NEW s \in Schema
  PROVE  /\ s.table \in BOOLEAN /\ s.caseKey \in BOOLEAN
         /\ s.column \in {"missing", "nullable", "not_null"}
         /\ s.identity \in SUBSET UniqueKinds /\ s.checkNo \in SUBSET UniqueKinds
         /\ \E S \in SUBSET RowIds : s.records \in [S -> Record]
BY DEF Schema

(* The statements of the migration, one after the other. *)
LEMMA BackfilledOK ==
  ASSUME NEW s, Valid(s), Reached("backfill", s)
  PROVE  /\ Valid(Backfilled(s)) /\ Reached("migrate", Backfilled(s))
         /\ Sound(s) => Sound(Backfilled(s))
         /\ KeptRows(s, Backfilled(s))
<1>1. CASE ~s.table \/ s.column # "missing"
  BY <1>1 DEF Backfilled, Reached, KeptRows
<1>2. CASE s.table /\ s.column = "missing"
  <2> DEFINE t == Backfilled(s)
             filled == [k \in DOMAIN s.records |->
                   [s.records[k] EXCEPT !.key = <<s.records[k].identity, k>>]]
  <2>1. PICK S \in SUBSET RowIds : s.records \in [S -> Record]
    BY SchemaFields DEF Valid
  <2>2. ASSUME NEW row \in Record, NEW k \in RowIds
        PROVE  LET new == [row EXCEPT !.key = <<row.identity, k>>]
               IN  /\ new \in Record /\ new.identity = row.identity
                   /\ new.checkNo = row.checkNo /\ new.key = <<row.identity, k>>
                   /\ row.identity # ""
    BY DEF Record
  <2>3. /\ filled \in [S -> Record]
        /\ \A k \in S : /\ filled[k].identity = s.records[k].identity
                        /\ filled[k].checkNo = s.records[k].checkNo
                        /\ filled[k].key = <<s.records[k].identity, k>>
                        /\ s.records[k].identity # ""
    <3>1. \A k \in S : s.records[k] \in Record /\ k \in RowIds
      BY <2>1
    <3> QED BY <2>1, <2>2, <3>1
  <2> HIDE DEF filled
  <2>4. /\ t \in Schema /\ t.column = "nullable" /\ t.records = filled
        /\ t.table /\ t.checkNo = s.checkNo
    <3>1. t = [s EXCEPT !.column = "nullable", !.records = filled]
      BY <1>2 DEF Backfilled, filled
    <3>2. filled \in UNION {[X -> Record] : X \in SUBSET RowIds}
      BY <2>1, <2>3
    <3> QED BY <1>2, <3>1, <3>2 DEF Valid, Schema
  <2>5. Keyed(t)
    <3>1. DOMAIN t.records = S
      BY <2>3, <2>4
    <3>2. \A a, b, c, d : <<a, b>> = <<c, d>> => a = c /\ b = d
      OBVIOUS
    <3>3. ASSUME NEW k \in S PROVE t.records[k].key # NoKey
      <4>1. t.records[k].key = <<s.records[k].identity, k>> /\ s.records[k].identity # ""
        BY <2>3, <2>4
      <4>2. ASSUME t.records[k].key = NoKey PROVE FALSE
        <5>1. <<s.records[k].identity, k>> = <<"", 0>>
          BY <4>1, <4>2 DEF NoKey
        <5> QED BY <3>2, <4>1, <5>1
      <4> QED BY <4>2
    <3>4. ASSUME NEW j \in S, NEW k \in S, t.records[j].key = t.records[k].key
          PROVE  j = k
      <4>1. <<s.records[j].identity, j>> = <<s.records[k].identity, k>>
        BY <2>3, <2>4, <3>4
      <4> QED BY <3>2, <4>1
    <3> QED BY <3>1, <3>3, <3>4 DEF Keyed, Distinct
  <2>6. s.checkNo # {} => Distinct(t.records, "checkNo")
    BY <2>1, <2>3, <2>4 DEF Valid, Distinct
  <2>7. KeptRows(s, t)
    BY <1>2, <2>1, <2>3, <2>4 DEF KeptRows, Valid
  <2> QED BY <1>2, <2>4, <2>5, <2>6, <2>7 DEF Valid, Reached, Sound
<1> QED BY <1>1, <1>2

LEMMA AutoMigratedOK ==
  ASSUME NEW s, Valid(s), Reached("migrate", s),
         ~s.table \/ s.caseKey \/ Distinct(s.records, "key"),
         NEW t, t = [s EXCEPT !.table = TRUE, !.caseKey = TRUE,
                              !.column = IF s.table THEN @ ELSE "not_null"]
  PROVE  /\ Valid(t) /\ Reached("not_null", t)
         /\ Sound(s) => Sound(t)
         /\ KeptRows(s, t)
<1>1. /\ t \in Schema /\ t.table = TRUE /\ t.caseKey = TRUE
      /\ t.records = s.records /\ t.identity = s.identity
      /\ t.checkNo = s.checkNo
      /\ t.column = IF s.table THEN s.column ELSE "not_null"
  BY DEF Valid, Schema
<1>2. Keyed(s) \/ DOMAIN s.records = {}
  BY DEF Valid, Reached
<1>3. t.column # "missing" /\ Keyed(t)
  BY <1>1, <1>2 DEF Reached, Keyed, Distinct
<1> QED BY <1>1, <1>3 DEF Valid, Reached, Sound, KeptRows, Distinct

LEMMA SetNotNullOK ==
  ASSUME NEW s, Valid(s), Reached("not_null", s),
         NEW t, t = [s EXCEPT !.column = "not_null"]
  PROVE  /\ Valid(t) /\ Reached("drop", t)
         /\ Sound(s) => Sound(t)
         /\ KeptRows(s, t)
<1>1. /\ t \in Schema /\ t.table = s.table /\ t.caseKey = s.caseKey
      /\ t.records = s.records /\ t.identity = s.identity
      /\ t.checkNo = s.checkNo /\ t.column = "not_null"
  BY DEF Valid, Schema
<1>2. Keyed(t) /\ s.table /\ s.caseKey
  BY <1>1 DEF Valid, Reached, Keyed
<1> QED BY <1>1, <1>2 DEF Valid, Reached, Sound, KeptRows

(* No bare index is found, so a constraint is. *)
LEMMA ConstraintFound == \A s : Found(s) = s.identity \cap {"constraint"}
<1>1. 1 \notin DOMAIN indkey
  BY DEF indkey
<1> QED BY <1>1 DEF Found, BareIndexes

LEMMA DropOK ==
  ASSUME NEW s, Valid(s), Reached("drop", s),
         NEW t, t = [s EXCEPT !.identity = @ \ Found(s)]
  PROVE  /\ Valid(t) /\ Reached("check_no", t)
         /\ Sound(s) => Sound(t)
         /\ KeptRows(s, t)
<1>1. /\ t \in Schema /\ t.table = s.table /\ t.caseKey = s.caseKey
      /\ t.records = s.records /\ t.column = s.column
      /\ t.checkNo = s.checkNo /\ t.identity = s.identity \ {"constraint"}
  <2>1. s.identity \ Found(s) = s.identity \ {"constraint"}
    BY ConstraintFound
  <2>2. s.identity \ {"constraint"} \in SUBSET UniqueKinds
    BY SchemaFields DEF Valid
  <2>3. t = [s EXCEPT !.identity = s.identity \ {"constraint"}]
    BY <2>1
  <2> QED BY <2>2, <2>3 DEF Valid, Schema
<1>2. s.column = "not_null" /\ s.table /\ s.caseKey
  BY DEF Reached
<1>3. Keyed(t)
  BY <1>1, <1>2 DEF Valid, Keyed
<1> QED BY <1>1, <1>2, <1>3 DEF Valid, Reached, Sound, KeptRows

LEMMA CommitOK ==
  ASSUME NEW s, Valid(s), Reached("check_no", s),
         s.checkNo # {} \/ Distinct(s.records, "checkNo")
  PROVE  /\ Valid(WithUnique(s)) /\ Sound(WithUnique(s))
         /\ KeptRows(s, WithUnique(s))
<1> DEFINE t == WithUnique(s)
<1>1. /\ t \in Schema /\ t.table = s.table /\ t.caseKey = s.caseKey
      /\ t.records = s.records /\ t.column = s.column /\ t.identity = s.identity
      /\ t.checkNo # {}
  BY DEF WithUnique, Valid, Schema, UniqueKinds
<1>2. /\ s.column = "not_null" /\ s.table /\ s.caseKey
      /\ "constraint" \notin s.identity
  BY DEF Reached
<1>3. Keyed(t) /\ Distinct(t.records, "checkNo")
  BY <1>1, <1>2 DEF Valid, Keyed
<1> QED BY <1>1, <1>2, <1>3 DEF Valid, Sound, KeptRows

LEMMA KeptTransitive ==
  ASSUME NEW s, NEW t, NEW u, KeptRows(s, t), KeptRows(t, u)
  PROVE  KeptRows(s, u)
BY DEF KeptRows

-----------------------------------------------------------------------------
Process ==
  [pc : {"lock", "count", "serving", "exited"} \cup Migrating \cup Seeding,
   schema : Schema, users : [Usernames -> Nat], cases : SUBSET Nat]

LEMMA FreshOK == Fresh \in Schema /\ Valid(Fresh)
<1>1. NoRecords \in [{} -> Record] /\ {} \in SUBSET RowIds
  BY DEF NoRecords
<1>2. NoRecords \in UNION {[X -> Record] : X \in SUBSET RowIds}
  BY <1>1
<1>3. Fresh \in Schema
  BY <1>2 DEF Fresh, Schema
<1>4. DOMAIN Fresh.records = {} /\ Fresh.checkNo = {} /\ Fresh.column = "missing"
  BY <1>1 DEF Fresh
<1> QED BY <1>3, <1>4 DEF Valid

LEMMA BegunOK ==
  /\ Begun \in Process /\ Begun.pc = "lock"
  /\ Exited \in Process /\ Exited.pc = "exited"
<1>1. Begun \in Process /\ Begun.pc = "lock"
  BY FreshOK DEF Begun, Process, NoUsers
<1> QED BY <1>1 DEF Exited, Process

(* A step of one process that commits no schema. *)
LEMMA ProcessKeeps ==
  ASSUME IInv, NEW i \in Instances, NEW next \in Process, ProcessOK(next),
         next.pc \in Migrating => \/ proc[i].pc \in Migrating
                                 \/ \A j \in Instances : proc[j].pc \notin Migrating,
         Goto(i, next), UNCHANGED schema,
         users' \in [Usernames -> Nat], cases' \subseteq Nat, parties' \subseteq Nat,
         userSeq' \in Nat, caseSeq' \in Nat, stops' \in 0..MaxStops
  PROVE  IInv'
<1>1. proc' = [proc EXCEPT ![i] = next] /\ proc \in [Instances -> Process]
  BY DEF Goto, IInv, TypeOK, Process
<1>2. TypeOK'
  BY <1>1 DEF TypeOK, IInv, Process
<1>3. \A j \in Instances : proc'[j] = IF j = i THEN next ELSE proc[j]
  BY <1>1
<1>4. Valid(schema)' /\ (Sound(schema)' <=> Sound(schema))
  BY DEF IInv, Valid, Sound, Keyed
<1>5. ASSUME NEW j \in Instances PROVE ProcessOK(proc[j])'
  <2>1. proc'[j] = next \/ proc'[j] = proc[j]
    BY <1>3
  <2> QED BY <1>4, <2>1 DEF IInv, ProcessOK, KeptRows, Valid, Keyed, Sound, Reached
<1>6. \A j, k \in Instances :
        proc'[j].pc \in Migrating /\ proc'[k].pc \in Migrating => j = k
  BY <1>3 DEF IInv
<1> QED BY <1>2, <1>4, <1>5, <1>6 DEF IInv

-----------------------------------------------------------------------------
LEMMA PcFacts ==
  /\ Migrating = {"backfill", "migrate", "not_null", "drop", "check_no"}
  /\ Seeding = {"admin", "lawyer", "assistant", "waiting", "case1", "case2",
                "parties"}
BY DEF Migrating, Seeding, Usernames

LEMMA InitHolds == Init => IInv
<1> SUFFICES ASSUME Init PROVE IInv
  OBVIOUS
<1>1. Valid(schema)
  <2>1. CASE schema = Fresh
    BY <2>1, FreshOK
  <2>2. CASE schema \in Legacy
    BY <2>2 DEF Legacy, Valid
  <2>3. CASE schema \in Current
    <3>1. \A k \in DOMAIN schema.records : schema.records[k].key # NoKey
      <4>1. <<"own", 0>> # NoKey
        <5>1. <<"own", 0>>[1] # NoKey[1]
          BY DEF NoKey
        <5> QED BY <5>1
      <4> QED BY <2>3, <4>1 DEF Current
    <3> QED BY <2>3, <3>1 DEF Current, Valid, Keyed
  <2> QED BY <2>1, <2>2, <2>3 DEF Init
<1>2. userSeq \in Nat
  <2> DEFINE S == {u \in Usernames : users[u] # 0}
  <2>1. IsFiniteSet(Usernames)
    <3>1. Usernames = (({} \cup {"admin"}) \cup {"lawyer"}) \cup {"assistant"}
      BY DEF Usernames
    <3> QED BY <3>1, FS_EmptySet, FS_AddElement
  <2>2. IsFiniteSet(S) /\ Cardinality(S) \in Nat
    BY <2>1, FS_Subset, FS_CardinalityType
  <2> QED BY <2>2 DEF Init
<1>3. users \in [Usernames -> Nat]
  BY DEF Init, NoUsers, Usernames
<1>4. TypeOK
  BY <1>1, <1>2, <1>3, BegunOK, StartupAssumption
  DEF Init, TypeOK, Valid, Process
<1>5. ASSUME NEW i \in Instances PROVE proc[i].pc = "lock"
  BY BegunOK DEF Init
<1> QED BY <1>1, <1>4, <1>5, PcFacts DEF IInv, ProcessOK

(* A process that goes away or starts again. *)
LEMMA OutsideKeeps ==
  ASSUME IInv, NEW i \in Instances, NEW next \in {Begun, Exited}, Goto(i, next),
         UNCHANGED <<schema, users, cases, parties, userSeq, caseSeq>>,
         stops' \in 0..MaxStops
  PROVE  IInv'
<1>1. next \in Process /\ next.pc \in {"lock", "exited"}
  BY BegunOK
<1>2. ProcessOK(next) /\ next.pc \notin Migrating
  BY <1>1, PcFacts DEF ProcessOK
<1> QED BY <1>1, <1>2, ProcessKeeps DEF IInv, TypeOK

LEMMA AcquireLockKeeps ==
  ASSUME IInv, NEW i \in Instances, AcquireLock(i)
  PROVE  IInv'
<1> DEFINE next == [proc[i] EXCEPT !.pc = "backfill", !.schema = schema]
<1>1. /\ next \in Process /\ next.pc = "backfill" /\ next.schema = schema
  BY PcFacts DEF IInv, TypeOK, Process
<1> HIDE DEF next
<1>2. ProcessOK(next)
  BY <1>1, PcFacts DEF IInv, ProcessOK, Reached, KeptRows
<1> QED BY <1>1, <1>2, ProcessKeeps DEF IInv, TypeOK, AcquireLock, next

LEMMA MigratesKeeps ==
  ASSUME IInv, NEW i \in Instances, NEW from \in Migrating, NEW to \in Migrating,
         NEW ok \in BOOLEAN, NEW after, Migrates(i, from, to, ok, after),
         ok => /\ Valid(after) /\ Reached(to, after)
               /\ Sound(proc[i].schema) => Sound(after)
               /\ KeptRows(proc[i].schema, after)
  PROVE  IInv'
<1> DEFINE p    == proc[i]
           next == [p EXCEPT !.pc = to, !.schema = after]
<1>1. /\ p \in Process /\ p.pc \in Migrating /\ ProcessOK(p)
  BY DEF IInv, TypeOK, Process, Migrates
<1>2. CASE ~ok
  BY <1>2, OutsideKeeps DEF Migrates, IInv, TypeOK
<1>3. CASE ok
  <2>1. /\ next \in Process /\ next.pc = to /\ next.schema = after
    BY <1>1, <1>3, PcFacts DEF Process, Valid
  <2> HIDE DEF next
  <2>2. KeptRows(schema, after)
    BY <1>1, <1>3, KeptTransitive DEF ProcessOK
  <2>3. ProcessOK(next)
    BY <1>1, <1>3, <2>1, <2>2, PcFacts DEF ProcessOK
  <2>4. Goto(i, next) /\ UNCHANGED <<schema, users, cases, parties, userSeq,
                                     caseSeq, stops>>
    BY <1>3 DEF Migrates, next
  <2> QED BY <1>1, <2>1, <2>3, <2>4, ProcessKeeps DEF IInv, TypeOK
<1> QED BY <1>2, <1>3

LEMMA MigrationKeeps ==
  ASSUME IInv, NEW i \in Instances,
         \/ BackfillCaseKey(i) \/ AutoMigrate(i) \/ SetNotNull(i)
         \/ DropUniqueOnIdentity(i)
  PROVE  IInv'
<1> DEFINE p == proc[i]
           s == p.schema
<1>1. p.pc \in Migrating => Valid(s) /\ Reached(p.pc, s)
  BY DEF IInv, ProcessOK
<1>2. CASE BackfillCaseKey(i)
  <2>1. p.pc = "backfill"
    BY <1>2 DEF BackfillCaseKey, Migrates
  <2>2. /\ Valid(Backfilled(s)) /\ Reached("migrate", Backfilled(s))
        /\ Sound(s) => Sound(Backfilled(s))
        /\ KeptRows(s, Backfilled(s))
    BY <1>1, <2>1, PcFacts, BackfilledOK
  <2> QED BY <1>2, <2>2, PcFacts, MigratesKeeps DEF BackfillCaseKey
<1>3. CASE AutoMigrate(i)
  <2> DEFINE ok == ~s.table \/ s.caseKey \/ Distinct(s.records, "key")
             t  == [s EXCEPT !.table = TRUE, !.caseKey = TRUE,
                             !.column = IF s.table THEN @ ELSE "not_null"]
  <2>1. p.pc = "migrate" /\ Migrates(i, "migrate", "not_null", ok, t)
    BY <1>3 DEF AutoMigrate, Migrates
  <2>2. Valid(s) /\ Reached("migrate", s)
    BY <1>1, <2>1, PcFacts
  <2>3. ok \in BOOLEAN
    BY <2>2, SchemaFields DEF Valid, Distinct
  <2>4. ok => /\ Valid(t) /\ Reached("not_null", t)
              /\ Sound(s) => Sound(t)
              /\ KeptRows(s, t)
    BY <2>2, AutoMigratedOK
  <2> HIDE DEF ok, t
  <2> QED BY <2>1, <2>3, <2>4, PcFacts, MigratesKeeps
<1>4. CASE SetNotNull(i)
  <2> DEFINE ok == \A k \in DOMAIN s.records : s.records[k].key # NoKey
             t  == [s EXCEPT !.column = "not_null"]
  <2>1. p.pc = "not_null" /\ Migrates(i, "not_null", "drop", ok, t)
    BY <1>4 DEF SetNotNull, Migrates
  <2>2. Valid(s) /\ Reached("not_null", s)
    BY <1>1, <2>1, PcFacts
  <2>3. /\ Valid(t) /\ Reached("drop", t)
        /\ Sound(s) => Sound(t)
        /\ KeptRows(s, t)
    BY <2>2, SetNotNullOK
  <2>4. ok \in BOOLEAN
    OBVIOUS
  <2> HIDE DEF ok, t
  <2> QED BY <2>1, <2>3, <2>4, PcFacts, MigratesKeeps
<1>5. CASE DropUniqueOnIdentity(i)
  <2> DEFINE t == [s EXCEPT !.identity = @ \ Found(s)]
  <2>1. p.pc = "drop" /\ Migrates(i, "drop", "check_no", TRUE, t)
    BY <1>5 DEF DropUniqueOnIdentity, Migrates
  <2>2. Valid(s) /\ Reached("drop", s)
    BY <1>1, <2>1, PcFacts
  <2>3. /\ Valid(t) /\ Reached("check_no", t)
        /\ Sound(s) => Sound(t)
        /\ KeptRows(s, t)
    BY <2>2, DropOK
  <2> HIDE DEF t
  <2> QED BY <2>1, <2>3, PcFacts, MigratesKeeps
<1> QED BY <1>2, <1>3, <1>4, <1>5

(* The commit installs a sound schema while no other process migrates.     *)
LEMMA CommitKeeps ==
  ASSUME IInv, NEW i \in Instances, EnsureCheckNoUnique(i)
  PROVE  IInv' /\ (schema' = schema \/ KeptRows(schema, schema'))
<1> DEFINE s    == proc[i].schema
           next == [Begun EXCEPT !.pc = "count"]
<1>1. /\ proc[i].pc = "check_no" /\ proc[i].pc \in Migrating
      /\ Valid(s) /\ Reached("check_no", s) /\ KeptRows(schema, s)
  BY PcFacts DEF EnsureCheckNoUnique, IInv, ProcessOK
<1>2. CASE ~(s.checkNo # {} \/ Distinct(s.records, "checkNo"))
  BY <1>2, OutsideKeeps DEF EnsureCheckNoUnique, IInv, TypeOK
<1>3. CASE s.checkNo # {} \/ Distinct(s.records, "checkNo")
  <2>1. /\ schema' = WithUnique(s) /\ Goto(i, next)
        /\ UNCHANGED <<users, cases, parties, userSeq, caseSeq, stops>>
    BY <1>3 DEF EnsureCheckNoUnique
  <2>2. Valid(schema') /\ Sound(schema') /\ KeptRows(schema, schema')
    BY <1>1, <1>3, <2>1, CommitOK, KeptTransitive
  <2>3. next \in Process /\ next.pc = "count"
    BY BegunOK DEF Process
  <2> HIDE DEF next
  <2>4. /\ proc' \in [Instances -> Process]
        /\ \A j \in Instances : proc'[j] = IF j = i THEN next ELSE proc[j]
    BY <2>1, <2>3 DEF Goto, IInv, TypeOK, Process
  <2>5. \A j \in Instances : proc'[j].pc \notin Migrating
    BY <1>1, <2>3, <2>4, PcFacts DEF IInv
  <2>6. \A j \in Instances : ProcessOK(proc[j])'
    BY <2>2, <2>5 DEF ProcessOK, Sound
  <2>7. Valid(schema)'
    BY <2>2 DEF Valid, Keyed
  <2>8. TypeOK'
    BY <2>1, <2>2, <2>4 DEF TypeOK, IInv, Process, Valid
  <2> QED BY <2>2, <2>5, <2>6, <2>7, <2>8 DEF IInv
<1> QED BY <1>2, <1>3

-----------------------------------------------------------------------------
LEMMA SeedKeeps ==
  ASSUME IInv, NEW i \in Instances,
         \/ SeedCount(i) \/ SeedUser(i) \/ SeedWaited(i) \/ SeedCase(i)
         \/ SeedPartiesAndCommit(i)
  PROVE  IInv'
<1> DEFINE p == proc[i]
<1>1. /\ p \in Process /\ p.pc \in {"count"} \cup Seeding /\ Sound(schema)
  BY PcFacts DEF IInv, TypeOK, Process, ProcessOK, SeedCount, SeedUser, SeedWaited,
                 SeedCase, SeedPartiesAndCommit, Usernames
<1>2. ASSUME NEW next \in Process, next.pc \in {"count", "serving"} \cup Seeding
      PROVE  ProcessOK(next) /\ next.pc \notin Migrating
  BY <1>1, <1>2, PcFacts DEF ProcessOK
<1>3. /\ users \in [Usernames -> Nat] /\ cases \subseteq Nat /\ parties \subseteq Nat
      /\ userSeq \in Nat /\ caseSeq \in Nat /\ stops \in 0..MaxStops
  BY DEF IInv, TypeOK
<1>4. \A u \in Usernames \cup {"case1", "case2"} : NextInsert[u] \in Seeding
  BY PcFacts DEF NextInsert, Usernames
<1>5. CASE SeedCount(i)
  <2> DEFINE pc == IF users = NoUsers THEN "admin" ELSE "serving"
             next == [p EXCEPT !.pc = pc]
  <2>1. next \in Process /\ next.pc \in {"serving"} \cup Seeding
    BY <1>1, PcFacts DEF Process
  <2>2. Goto(i, next) /\ UNCHANGED <<schema, users, cases, parties, userSeq,
                                     caseSeq, stops>>
    BY <1>5 DEF SeedCount
  <2> HIDE DEF next
  <2> QED BY <1>2, <1>3, <2>1, <2>2, ProcessKeeps
<1>6. CASE SeedUser(i)
  <2> DEFINE u  == p.pc
             pc == IF Blocked(i, u) THEN "waiting" ELSE NextInsert[u]
             next == [p EXCEPT !.users[u] = userSeq + 1, !.pc = pc]
  <2>1. u \in Usernames /\ pc \in Seeding
    BY <1>4, <1>6, PcFacts DEF SeedUser
  <2>2. next \in Process /\ next.pc \in Seeding
    <3> DEFINE new == [p.users EXCEPT ![u] = userSeq + 1]
    <3>1. new \in [Usernames -> Nat]
      BY <1>1, <1>3, <2>1 DEF Process
    <3>2. next = [p EXCEPT !.users = new, !.pc = pc]
      BY <1>1 DEF Process
    <3> HIDE DEF new, pc, next
    <3> QED BY <1>1, <2>1, <3>1, <3>2 DEF Process
  <2>3. /\ Goto(i, IF users[u] # 0 THEN Exited ELSE next)
        /\ userSeq' = userSeq + 1
        /\ UNCHANGED <<schema, users, cases, parties, caseSeq, stops>>
    BY <1>6 DEF SeedUser
  <2>4. Exited \in Process /\ ProcessOK(Exited) /\ Exited.pc \notin Migrating
    BY BegunOK, PcFacts DEF ProcessOK
  <2> HIDE DEF next
  <2>5. userSeq' \in Nat
    BY <1>3, <2>3
  <2>6. CASE users[u] # 0
    BY <1>3, <2>3, <2>4, <2>5, <2>6, ProcessKeeps
  <2>7. CASE users[u] = 0
    BY <1>2, <1>3, <2>2, <2>3, <2>5, <2>7, ProcessKeeps
  <2> QED BY <2>6, <2>7
<1>7. CASE SeedWaited(i)
  <2> DEFINE next == [p EXCEPT !.pc = "lawyer"]
  <2>1. next \in Process /\ next.pc \in Seeding
    BY <1>1, PcFacts DEF Process
  <2>2. /\ Goto(i, IF users["admin"] # 0 THEN Exited ELSE next)
        /\ UNCHANGED <<schema, users, cases, parties, userSeq, caseSeq, stops>>
    BY <1>7 DEF SeedWaited
  <2> HIDE DEF next
  <2>3. CASE users["admin"] # 0
    BY <1>3, <2>2, <2>3, OutsideKeeps
  <2>4. CASE users["admin"] = 0
    BY <1>2, <1>3, <2>1, <2>2, <2>4, ProcessKeeps
  <2> QED BY <2>3, <2>4
<1>8. CASE SeedCase(i)
  <2> DEFINE next == [p EXCEPT !.cases = @ \cup {caseSeq + 1},
                               !.pc = NextInsert[p.pc]]
  <2>1. p.pc \in {"case1", "case2"} /\ NextInsert[p.pc] \in Seeding
    BY <1>4, <1>8 DEF SeedCase
  <2>2. next \in Process /\ next.pc \in Seeding
    <3> DEFINE new == p.cases \cup {caseSeq + 1}
               pc  == NextInsert[p.pc]
    <3>1. new \in SUBSET Nat /\ pc \in Seeding
      BY <1>1, <1>3, <2>1 DEF Process
    <3>2. next = [p EXCEPT !.cases = new, !.pc = pc]
      BY DEF Process
    <3> HIDE DEF new, pc, next
    <3> QED BY <1>1, <3>1, <3>2 DEF Process
  <2>3. /\ Goto(i, next) /\ caseSeq' = caseSeq + 1
        /\ UNCHANGED <<schema, users, cases, parties, userSeq, stops>>
    BY <1>8 DEF SeedCase
  <2> HIDE DEF next
  <2> QED BY <1>2, <1>3, <2>2, <2>3, ProcessKeeps
<1>9. CASE SeedPartiesAndCommit(i)
  <2> DEFINE next == [Begun EXCEPT !.pc = "serving"]
  <2>1. next \in Process /\ next.pc = "serving"
    BY BegunOK, PcFacts DEF Process
  <2>2. /\ Goto(i, next) /\ UNCHANGED <<schema, userSeq, caseSeq, stops>>
        /\ users' = p.users /\ cases' = cases \cup p.cases
        /\ parties' = PartyCaseIDs
    BY <1>9 DEF SeedPartiesAndCommit
  <2>3. /\ users' \in [Usernames -> Nat] /\ cases' \subseteq Nat
        /\ parties' \subseteq Nat
    BY <1>1, <1>3, <2>2 DEF Process, PartyCaseIDs
  <2> HIDE DEF next
  <2> QED BY <1>2, <1>3, <2>1, <2>2, <2>3, ProcessKeeps
<1> QED BY <1>5, <1>6, <1>7, <1>8, <1>9

-----------------------------------------------------------------------------
LEMMA NextKeeps == IInv /\ [Next]_vars => IInv'
<1> SUFFICES ASSUME IInv, [Next]_vars PROVE IInv'
  OBVIOUS
<1>1. ASSUME NEW i \in Instances, Step(i) PROVE IInv'
  <2>1. CASE AcquireLock(i)
    BY <2>1, AcquireLockKeeps
  <2>2. CASE BackfillCaseKey(i) \/ AutoMigrate(i) \/ SetNotNull(i)
             \/ DropUniqueOnIdentity(i)
    BY <2>2, MigrationKeeps
  <2>3. CASE EnsureCheckNoUnique(i)
    BY <2>3, CommitKeeps
  <2>4. CASE SeedCount(i) \/ SeedUser(i) \/ SeedWaited(i) \/ SeedCase(i)
             \/ SeedPartiesAndCommit(i)
    BY <2>4, SeedKeeps
  <2>5. CASE RestartContainer(i)
    BY <2>5, OutsideKeeps DEF RestartContainer, IInv, TypeOK
  <2> QED BY <1>1, <2>1, <2>2, <2>3, <2>4, <2>5 DEF Step
<1>2. ASSUME NEW i \in Instances, Stop(i) PROVE IInv'
  <2>1. stops' \in 0..MaxStops
    BY <1>2, StartupAssumption DEF Stop, IInv, TypeOK
  <2> QED BY <1>2, <2>1, OutsideKeeps DEF Stop
<1>3. CASE UNCHANGED vars
  BY <1>3 DEF vars, IInv, TypeOK, Valid, Keyed, ProcessOK, Reached, Sound, KeptRows
<1> QED BY <1>1, <1>2, <1>3 DEF Next

LEMMA AlwaysIInv == Spec => []IInv
BY InitHolds, NextKeeps, PTL DEF Spec

(* The schema and the processes that start stay well typed (migrate.go,    *)
(* seed.go).                                                               *)
THEOREM TypeCorrect == Spec => []TypeOK
<1>1. IInv => TypeOK
  BY DEF IInv
<1> QED BY <1>1, AlwaysIInv, PTL

(* Whatever database they are given, and wherever earlier starts stopped,  *)
(* instances serve only on a sound schema (migration/migrate.go).          *)
THEOREM ServingMeansSound == Spec => []ServesOnSoundSchema
<1>1. IInv => ServesOnSoundSchema
  BY DEF IInv, ProcessOK, Sound, Valid, Keyed, ServesOnSoundSchema
<1> QED BY <1>1, AlwaysIInv, PTL

(* No start takes a row's number, opponent or case key away (migrate.go).  *)
THEOREM RowsOutliveMigrations == Spec => RecordsKept
<1> DEFINE Kept ==
      \A k \in DOMAIN schema.records :
       /\ k \in DOMAIN schema'.records
       /\ schema'.records[k].identity = schema.records[k].identity
       /\ schema'.records[k].checkNo = schema.records[k].checkNo
       /\ schema.records[k].key # NoKey =>
            schema'.records[k].key = schema.records[k].key
<1>1. IInv /\ [Next]_vars => [Kept]_vars
  <2> SUFFICES ASSUME IInv, Next PROVE Kept
    OBVIOUS
  <2>1. schema' = schema \/ \E i \in Instances : EnsureCheckNoUnique(i)
    BY DEF Next, Step, Stop, AcquireLock, BackfillCaseKey, AutoMigrate, SetNotNull,
           DropUniqueOnIdentity, Migrates, SeedCount, SeedUser, SeedWaited,
           SeedCase, SeedPartiesAndCommit, RestartContainer
  <2>2. schema' = schema \/ KeptRows(schema, schema')
    BY <2>1, CommitKeeps
  <2> QED BY <2>2 DEF KeptRows
<1> QED BY <1>1, AlwaysIInv, PTL DEF Spec, RecordsKept

-----------------------------------------------------------------------------
(***************************************************************************)
(* The seed.  A process that has inserted its first user without waiting   *)
(* holds the username until its transaction ends: no other gets past its   *)
(* own first INSERT, and once the holder has committed each of them fails. *)
(***************************************************************************)
Holding == {"lawyer", "assistant", "case1", "case2", "parties"}

(* What the seed's transaction has inserted before its next statement. *)
SeedOK(p) ==
  /\ p.pc \notin Holding => p.cases = {}
  /\ p.pc \notin Holding \cup {"waiting"} => p.users = NoUsers
  /\ p.pc = "waiting" => p.users["lawyer"] = 0 /\ p.users["assistant"] = 0
  /\ p.pc \in Holding \cup {"waiting"} => p.users["admin"] # 0
  /\ p.pc \in Holding \ {"lawyer"} => p.users["lawyer"] # 0
  /\ p.pc \in Holding \ {"lawyer", "assistant"} => p.users["assistant"] # 0
  /\ p.pc \in Holding => users["admin"] = 0
  /\ p.pc \in {"lawyer", "assistant", "case1"} => p.cases = {}
  /\ p.pc = "case2" => \E c \in 1..caseSeq : p.cases = {c}
  /\ p.pc = "parties" => \E c, d \in Nat : c # d /\ p.cases = {c, d}

SeedInv ==
  /\ \A i \in Instances : SeedOK(proc[i])
  /\ \A i, j \in Instances :
       proc[i].pc \in Holding /\ proc[j].pc \in Holding => i = j
  /\ users["admin"] = 0 => cases = {} /\ parties = {}
  /\ SeededOnceOrNotAtAll

LEMMA HoldingFacts ==
  /\ Holding \cap Migrating = {}
  /\ Holding \cap {"lock", "count", "serving", "exited", "admin", "waiting"} = {}
  /\ "waiting" \notin Migrating
BY DEF Holding, Migrating

(* Next to one that is not waiting and holds a username, every other       *)
(* process is blocked.                                                     *)
LEMMA BlockedByHolder ==
  ASSUME IInv, SeedInv, NEW i \in Instances, NEW u \in Usernames
  PROVE  /\ Blocked(i, u) => \E j \in Instances \ {i} : proc[j].pc \in Holding
         /\ (\E j \in Instances \ {i} : proc[j].pc \in Holding)
              => Blocked(i, "admin")
<1>1. ASSUME Blocked(i, u)
      PROVE  \E j \in Instances \ {i} : proc[j].pc \in Holding
  <2>1. PICK j \in Instances \ {i} : proc[j].pc # "waiting" /\ proc[j].users[u] # 0
    BY <1>1 DEF Blocked
  <2>2. proc[j].users # NoUsers
    BY <2>1 DEF NoUsers
  <2> QED BY <2>1, <2>2 DEF SeedInv, SeedOK
<1>2. ASSUME NEW j \in Instances \ {i}, proc[j].pc \in Holding
      PROVE  Blocked(i, "admin")
  BY <1>2, HoldingFacts DEF Blocked, SeedInv, SeedOK
<1> QED BY <1>1, <1>2

(* A step of one process that commits no rows. *)
LEMMA SeedProcessKeeps ==
  ASSUME IInv, SeedInv, NEW i \in Instances, NEW next, SeedOK(next)',
         next.pc \in Holding =>
           \A j \in Instances \ {i} : proc[j].pc \notin Holding,
         Goto(i, next), UNCHANGED <<users, cases, parties>>,
         caseSeq' \in Nat, caseSeq' >= caseSeq
  PROVE  SeedInv'
<1>1. \A j \in Instances : proc'[j] = IF j = i THEN next ELSE proc[j]
  BY DEF Goto, IInv, TypeOK
<1>2. 1..caseSeq \subseteq 1..caseSeq'
  BY DEF IInv, TypeOK
<1>3. ASSUME NEW j \in Instances PROVE SeedOK(proc[j])'
  <2>1. CASE j = i
    <3>1. proc'[j] = next
      BY <1>1, <2>1
    <3> QED BY <3>1 DEF SeedOK
  <2>2. CASE j # i
    <3>1. proc'[j] = proc[j] /\ SeedOK(proc[j])
      BY <1>1, <2>2 DEF SeedInv
    <3> QED BY <1>2, <3>1 DEF SeedOK
  <2> QED BY <2>1, <2>2
<1>4. \A j, k \in Instances :
        proc'[j].pc \in Holding /\ proc'[k].pc \in Holding => j = k
  BY <1>1 DEF SeedInv
<1>5. SeededOnceOrNotAtAll'
  BY DEF SeedInv, SeededOnceOrNotAtAll
<1> QED BY <1>3, <1>4, <1>5 DEF SeedInv

(* A process with no transaction of the seed under way. *)
LEMMA ElsewhereKeeps ==
  ASSUME IInv, SeedInv, NEW i \in Instances, NEW next,
         next.pc \notin Holding \cup {"waiting"}, next.users = NoUsers,
         next.cases = {}, Goto(i, next),
         UNCHANGED <<users, cases, parties, caseSeq>>
  PROVE  SeedInv'
<1>1. PICK n : n = next
  OBVIOUS
<1>2. SeedOK(n)'
  <2>1. n.pc \notin Holding \cup {"waiting"} /\ n.users = NoUsers /\ n.cases = {}
    BY <1>1
  <2> QED BY <2>1 DEF SeedOK, Holding
<1>3. caseSeq' \in Nat /\ caseSeq' >= caseSeq
  BY DEF IInv, TypeOK
<1> QED BY <1>1, <1>2, <1>3, SeedProcessKeeps

LEMMA SeedInit == Init => SeedInv
<1> SUFFICES ASSUME Init PROVE SeedInv
  OBVIOUS
<1>1. \A i \in Instances : /\ proc[i].pc = "lock" /\ proc[i].users = NoUsers
                           /\ proc[i].cases = {}
  BY DEF Init, Begun
<1>2. \A i \in Instances : SeedOK(proc[i])
  BY <1>1 DEF SeedOK, Holding
<1>3. SeededOnceOrNotAtAll
  BY DEF Init, SeededOnceOrNotAtAll
<1> QED BY <1>1, <1>2, <1>3 DEF SeedInv, Init, Holding

LEMMA OtherStepsSeed ==
  ASSUME IInv, SeedInv, NEW i \in Instances,
         \/ AcquireLock(i) \/ BackfillCaseKey(i) \/ AutoMigrate(i) \/ SetNotNull(i)
         \/ DropUniqueOnIdentity(i) \/ EnsureCheckNoUnique(i) \/ SeedCount(i)
         \/ Stop(i) \/ RestartContainer(i)
  PROVE  SeedInv'
<1> DEFINE p == proc[i]
<1>1. p \in Process /\ SeedOK(p)
  BY DEF IInv, TypeOK, Process, SeedInv
<1>2. UNCHANGED <<users, cases, parties, caseSeq>>
  BY DEF AcquireLock, BackfillCaseKey, AutoMigrate, SetNotNull, DropUniqueOnIdentity,
         Migrates, EnsureCheckNoUnique, SeedCount, Stop, RestartContainer
<1>3. /\ Begun.users = NoUsers /\ Begun.cases = {} /\ Begun.pc = "lock"
      /\ Exited.users = NoUsers /\ Exited.cases = {} /\ Exited.pc = "exited"
      /\ Begun \in Process /\ Exited \in Process
  BY BegunOK DEF Begun, Exited
<1>4. CASE Goto(i, Begun) \/ Goto(i, Exited)
  BY <1>2, <1>3, <1>4, HoldingFacts, ElsewhereKeeps
<1>5. ASSUME p.pc \in Migrating \cup {"lock", "count"},
             NEW pc \in Migrating \cup {"admin", "serving"}, NEW schemaSeen,
             Goto(i, [p EXCEPT !.pc = pc, !.schema = schemaSeen])
      PROVE  SeedInv'
  <2> DEFINE next == [p EXCEPT !.pc = pc, !.schema = schemaSeen]
  <2>1. p.users = NoUsers /\ p.cases = {}
    BY <1>1, <1>5, HoldingFacts DEF SeedOK
  <2>2. /\ next.pc = pc /\ next.users = NoUsers /\ next.cases = {}
    BY <1>1, <2>1 DEF Process
  <2>3. pc \notin Holding \cup {"waiting"}
    BY <1>5, HoldingFacts
  <2> HIDE DEF next
  <2> QED BY <1>2, <1>5, <2>2, <2>3, ElsewhereKeeps DEF next
<1>6. CASE AcquireLock(i)
  BY <1>5, <1>6, PcFacts DEF AcquireLock
<1>7. ASSUME NEW from \in Migrating, NEW to \in Migrating, NEW ok, NEW after,
             Migrates(i, from, to, ok, after)
      PROVE  SeedInv'
  <2>1. CASE ~ok
    BY <1>4, <1>7, <2>1 DEF Migrates
  <2>2. CASE ok
    BY <1>5, <1>7, <2>2 DEF Migrates
  <2> QED BY <2>1, <2>2
<1>8. CASE BackfillCaseKey(i)
  BY <1>7, <1>8, PcFacts DEF BackfillCaseKey
<1>9. CASE AutoMigrate(i)
  BY <1>7, <1>9, PcFacts DEF AutoMigrate
<1>10. CASE SetNotNull(i)
  BY <1>7, <1>10, PcFacts DEF SetNotNull
<1>11. CASE DropUniqueOnIdentity(i)
  BY <1>7, <1>11, PcFacts DEF DropUniqueOnIdentity
<1>12. CASE EnsureCheckNoUnique(i)
  <2> DEFINE next == [Begun EXCEPT !.pc = "count"]
  <2>1. next.pc = "count" /\ next.users = NoUsers /\ next.cases = {}
    BY DEF Begun
  <2>2. Goto(i, next) \/ Goto(i, Exited)
    BY <1>12 DEF EnsureCheckNoUnique
  <2> HIDE DEF next
  <2> QED BY <1>2, <1>4, <2>1, <2>2, HoldingFacts, ElsewhereKeeps
<1>13. CASE SeedCount(i)
  <2> DEFINE pc == IF users = NoUsers THEN "admin" ELSE "serving"
  <2>1. [p EXCEPT !.pc = pc] = [p EXCEPT !.pc = pc, !.schema = p.schema]
    BY <1>1 DEF Process
  <2>2. p.pc = "count" /\ Goto(i, [p EXCEPT !.pc = pc])
    BY <1>13 DEF SeedCount
  <2>3. pc \in Migrating \cup {"admin", "serving"}
    OBVIOUS
  <2> HIDE DEF pc
  <2> QED BY <1>5, <2>1, <2>2, <2>3
<1>14. CASE Stop(i) \/ RestartContainer(i)
  BY <1>4, <1>14 DEF Stop, RestartContainer
<1> QED BY <1>6, <1>8, <1>9, <1>10, <1>11, <1>12, <1>13, <1>14

LEMMA SeedUserSeed ==
  ASSUME IInv, SeedInv, NEW i \in Instances, SeedUser(i)
  PROVE  SeedInv'
<1> DEFINE u == proc[i].pc
<1>1. PICK p \in Process : p = proc[i] /\ SeedOK(p)
  BY DEF IInv, TypeOK, Process, SeedInv
<1>2. /\ u \in Usernames /\ userSeq + 1 \in Nat \ {0}
      /\ UNCHANGED <<users, cases, parties, caseSeq>>
      /\ caseSeq' \in Nat /\ caseSeq' >= caseSeq
  BY DEF SeedUser, IInv, TypeOK
<1>3. CASE users[u] # 0
  <2>1. Goto(i, Exited)
    BY <1>3 DEF SeedUser
  <2>2. Exited.users = NoUsers /\ Exited.cases = {} /\ Exited.pc = "exited"
    BY DEF Exited, Begun
  <2> QED BY <1>2, <2>1, <2>2, HoldingFacts, ElsewhereKeeps
<1>4. CASE users[u] = 0
  <2> DEFINE pc  == IF Blocked(i, u) THEN "waiting" ELSE NextInsert[u]
             new == [p.users EXCEPT ![u] = userSeq + 1]
  <2>1. PICK next : /\ Goto(i, next) /\ next.pc = pc /\ next.users = new
                    /\ next.cases = p.cases
    <3> DEFINE n == [p EXCEPT !.users[u] = userSeq + 1, !.pc = pc]
    <3>1. n.pc = pc /\ n.users = new /\ n.cases = p.cases
      BY <1>1 DEF Process
    <3>2. Goto(i, n)
      BY <1>1, <1>4 DEF SeedUser
    <3> HIDE DEF n
    <3> QED BY <3>1, <3>2
  <2>2. p.users \in [Usernames -> Nat]
    BY <1>1 DEF Process
  <2>3. new[u] # 0 /\ \A v \in Usernames \ {u} : new[v] = p.users[v]
    BY <1>2, <2>2
  <2>4. CASE u = "admin"
    <3>1. p.users = NoUsers /\ p.cases = {} /\ users["admin"] = 0
      BY <1>1, <1>4, <2>4, HoldingFacts DEF SeedOK
    <3>2. cases = {}
      BY <3>1 DEF SeedInv
    <3>3. pc \in {"waiting", "lawyer"} /\ (pc = "lawyer" => ~Blocked(i, u))
      BY <2>4 DEF NextInsert
    <3>4. pc = "lawyer" => \A j \in Instances \ {i} : proc[j].pc \notin Holding
      BY <1>2, <2>4, <3>3, BlockedByHolder
    <3>5. new["admin"] # 0 /\ new["lawyer"] = 0 /\ new["assistant"] = 0
      BY <2>3, <2>4, <3>1 DEF Usernames, NoUsers
    <3> HIDE DEF pc, new
    <3>6. SeedOK(next)'
      BY <1>2, <2>1, <3>1, <3>3, <3>5 DEF SeedOK, Holding
    <3> QED BY <1>2, <2>1, <3>3, <3>4, <3>6, SeedProcessKeeps DEF Holding
  <2>5. CASE u # "admin"
    <3>1. u \in {"lawyer", "assistant"} /\ p.pc = u /\ u \in Holding
      BY <1>1, <1>2, <2>5 DEF Usernames, Holding
    <3>2. \A j \in Instances \ {i} : proc[j].pc \notin Holding
      BY <1>1, <3>1 DEF SeedInv
    <3>3. ~Blocked(i, u)
      BY <1>2, <3>2, BlockedByHolder
    <3>4. pc = IF u = "lawyer" THEN "assistant" ELSE "case1"
      BY <3>1, <3>3 DEF NextInsert
    <3>5. /\ new["admin"] # 0 /\ new["lawyer"] # 0 /\ p.cases = {}
          /\ u = "assistant" => new["assistant"] # 0
          /\ users["admin"] = 0
      BY <1>1, <2>3, <2>5, <3>1 DEF SeedOK, Usernames, Holding
    <3> HIDE DEF pc, new
    <3>6. SeedOK(next)'
      BY <1>2, <2>1, <3>1, <3>4, <3>5 DEF SeedOK, Holding
    <3> QED BY <1>2, <2>1, <3>2, <3>6, SeedProcessKeeps
  <2> QED BY <2>4, <2>5
<1> QED
  <2>1. users[u] = 0 \/ users[u] # 0
    OBVIOUS
  <2> QED BY <1>3, <1>4, <2>1

LEMMA SeedWaitedSeed ==
  ASSUME IInv, SeedInv, NEW i \in Instances, SeedWaited(i)
  PROVE  SeedInv'
<1>1. PICK p \in Process : p = proc[i] /\ SeedOK(p) /\ p.pc = "waiting"
  BY DEF IInv, TypeOK, Process, SeedInv, SeedWaited
<1>2. /\ UNCHANGED <<users, cases, parties, caseSeq>>
      /\ caseSeq' \in Nat /\ caseSeq' >= caseSeq
  BY DEF SeedWaited, IInv, TypeOK
<1>3. CASE users["admin"] # 0
  <2>1. Goto(i, Exited)
    BY <1>3 DEF SeedWaited
  <2>2. Exited.users = NoUsers /\ Exited.cases = {} /\ Exited.pc = "exited"
    BY DEF Exited, Begun
  <2> QED BY <1>2, <2>1, <2>2, HoldingFacts, ElsewhereKeeps
<1>4. CASE users["admin"] = 0
  <2>1. PICK next : /\ Goto(i, next) /\ next.pc = "lawyer" /\ next.users = p.users
                    /\ next.cases = p.cases
    <3> DEFINE n == [p EXCEPT !.pc = "lawyer"]
    <3>1. n.pc = "lawyer" /\ n.users = p.users /\ n.cases = p.cases
      BY <1>1 DEF Process
    <3>2. Goto(i, n)
      BY <1>1, <1>4 DEF SeedWaited
    <3> HIDE DEF n
    <3> QED BY <3>1, <3>2
  <2>2. \A j \in Instances \ {i} : proc[j].pc \notin Holding
    BY BlockedByHolder DEF SeedWaited, Usernames
  <2>3. SeedOK(next)'
    BY <1>1, <1>2, <1>4, <2>1 DEF SeedOK, Holding
  <2> QED BY <1>2, <2>1, <2>2, <2>3, SeedProcessKeeps
<1> QED BY <1>3, <1>4

LEMMA SeedCaseSeed ==
  ASSUME IInv, SeedInv, NEW i \in Instances, SeedCase(i)
  PROVE  SeedInv'
<1>1. PICK p \in Process : /\ p = proc[i] /\ SeedOK(p)
                           /\ p.pc \in {"case1", "case2"} /\ p.pc \in Holding
  BY DEF IInv, TypeOK, Process, SeedInv, SeedCase, Holding
<1>2. /\ UNCHANGED <<users, cases, parties>> /\ caseSeq' = caseSeq + 1
      /\ caseSeq \in Nat /\ caseSeq' \in Nat /\ caseSeq' >= caseSeq
  BY DEF SeedCase, IInv, TypeOK
<1>3. PICK next : /\ Goto(i, next) /\ next.users = p.users
                  /\ next.pc = IF p.pc = "case1" THEN "case2" ELSE "parties"
                  /\ next.cases = p.cases \cup {caseSeq + 1}
  <2> DEFINE n == [p EXCEPT !.cases = @ \cup {caseSeq + 1}, !.pc = NextInsert[p.pc]]
  <2>1. /\ n.users = p.users /\ n.pc = NextInsert[p.pc]
        /\ n.cases = p.cases \cup {caseSeq + 1}
    BY <1>1 DEF Process
  <2>2. NextInsert[p.pc] = IF p.pc = "case1" THEN "case2" ELSE "parties"
    BY <1>1 DEF NextInsert
  <2>3. Goto(i, n)
    BY <1>1 DEF SeedCase
  <2> HIDE DEF n
  <2> QED BY <2>1, <2>2, <2>3
<1>4. \A j \in Instances \ {i} : proc[j].pc \notin Holding
  BY <1>1 DEF SeedInv
<1>5. p.pc = "case1" => \E c \in 1..caseSeq' : next.cases = {c}
  BY <1>1, <1>2, <1>3 DEF SeedOK
<1>6. p.pc = "case2" => \E c, d \in Nat : c # d /\ next.cases = {c, d}
  <2> SUFFICES ASSUME p.pc = "case2"
               PROVE  \E c, d \in Nat : c # d /\ next.cases = {c, d}
    OBVIOUS
  <2>1. PICK c \in 1..caseSeq : p.cases = {c}
    BY <1>1 DEF SeedOK
  <2>2. c \in Nat /\ caseSeq + 1 \in Nat /\ c # caseSeq + 1
    BY <1>2
  <2>3. next.cases = {c, caseSeq + 1}
    BY <1>3, <2>1
  <2> QED BY <2>2, <2>3
<1>7. SeedOK(next)'
  BY <1>1, <1>2, <1>3, <1>5, <1>6 DEF SeedOK, Holding
<1> QED BY <1>2, <1>3, <1>4, <1>7, SeedProcessKeeps

(* The commit: the rows of the one holder, and none that were there. *)
LEMMA SeedCommitSeed ==
  ASSUME IInv, SeedInv, NEW i \in Instances, SeedPartiesAndCommit(i)
  PROVE  SeedInv'
<1> DEFINE next == [Begun EXCEPT !.pc = "serving"]
<1>1. PICK p \in Process : /\ p = proc[i] /\ SeedOK(p)
                           /\ p.pc = "parties" /\ p.pc \in Holding
  BY DEF IInv, TypeOK, Process, SeedInv, SeedPartiesAndCommit, Holding
<1>2. /\ users' = p.users /\ cases' = cases \cup p.cases
      /\ parties' = {1, 2} /\ caseSeq' = caseSeq /\ Goto(i, next)
  BY <1>1 DEF SeedPartiesAndCommit, PartyCaseIDs
<1>3. next.pc = "serving" /\ next.users = NoUsers /\ next.cases = {}
  BY DEF Begun
<1> HIDE DEF next
<1>4. \A j \in Instances : proc'[j] = IF j = i THEN next ELSE proc[j]
  BY <1>2 DEF Goto, IInv, TypeOK
<1>5. \A j \in Instances : proc'[j].pc \notin Holding
  BY <1>1, <1>3, <1>4, HoldingFacts DEF SeedInv
<1>6. ASSUME NEW j \in Instances PROVE SeedOK(proc[j])'
  <2>1. CASE j = i
    <3>1. proc'[j] = next
      BY <1>4, <2>1
    <3> QED BY <1>3, <3>1 DEF SeedOK, Holding
  <2>2. CASE j # i
    <3>1. proc'[j] = proc[j] /\ SeedOK(proc[j])
      BY <1>4, <2>2 DEF SeedInv
    <3> QED BY <1>5, <3>1 DEF SeedOK, Holding
  <2> QED BY <2>1, <2>2
<1>7. users["admin"] = 0 /\ cases = {}
  BY <1>1 DEF SeedInv, SeedOK
<1>8. \A u \in Usernames : users'[u] # 0
  BY <1>1, <1>2 DEF SeedOK, Holding, Usernames
<1>9. Cardinality(cases') = 2
  <2>1. PICK c, d \in Nat : c # d /\ p.cases = {c, d}
    BY <1>1 DEF SeedOK
  <2>2. cases' = {c} \cup {d} /\ d \notin {c}
    BY <1>2, <1>7, <2>1
  <2>3. IsFiniteSet({c}) /\ Cardinality({c}) = 1
    BY FS_Singleton
  <2>4. Cardinality({c} \cup {d}) = Cardinality({c}) + 1
    BY <2>2, <2>3, FS_AddElement
  <2> QED BY <2>2, <2>3, <2>4
<1>10. SeededOnceOrNotAtAll'
  BY <1>2, <1>8, <1>9 DEF SeededOnceOrNotAtAll
<1>11. users'["admin"] # 0
  BY <1>8 DEF Usernames
<1> QED BY <1>5, <1>6, <1>10, <1>11 DEF SeedInv

LEMMA NextSeed == IInv /\ SeedInv /\ [Next]_vars => SeedInv'
<1> SUFFICES ASSUME IInv, SeedInv, [Next]_vars PROVE SeedInv'
  OBVIOUS
<1>1. ASSUME NEW i \in Instances, Step(i) \/ Stop(i) PROVE SeedInv'
  BY <1>1, OtherStepsSeed, SeedUserSeed, SeedWaitedSeed, SeedCaseSeed, SeedCommitSeed
  DEF Step
<1>2. CASE UNCHANGED vars
  BY <1>2 DEF vars, SeedInv, SeedOK, SeededOnceOrNotAtAll
<1> QED BY <1>1, <1>2 DEF Next

(* However many instances start at once, one of them seeds the database,   *)
(* and seeds all of it (seed.go: the transaction, the unique username).    *)
THEOREM SeededByOne == Spec => []SeededOnceOrNotAtAll
<1>1. Init => IInv /\ SeedInv
  BY InitHolds, SeedInit
<1>2. IInv /\ SeedInv /\ [Next]_vars => IInv' /\ SeedInv'
  BY NextKeeps, NextSeed
<1>3. SeedInv => SeededOnceOrNotAtAll
  BY DEF SeedInv
<1> QED BY <1>1, <1>2, <1>3, PTL DEF Spec
=============================================================================
