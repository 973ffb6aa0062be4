-------------------------- MODULE MigrationsProofs --------------------------
(***************************************************************************)
(* Theorems about Migrations, for any number and size of migrations and    *)
(* any number of errors and crashes: on a database with transactional DDL  *)
(* the schema is never between two versions, and the program serves        *)
(* requests only on its own.                                               *)
(***************************************************************************)
EXTENDS Migrations, TLAPS

-----------------------------------------------------------------------------
(* The inductive invariant.                                                *)

\* The statements before s.
Before(s) == {r \in migrations : r[1] < s[1] \/ (r[1] = s[1] /\ r[2] < s[2])}

\* A database that has n migrations; its version may lag behind.
HasMigrations(d, n) == d.applied = UpTo(n) /\ d.version <= n

\* A version that lags or was read too low leads to a table that exists already,
\* unless it is this program's version and there is nothing to do; otherwise the
\* transaction has done just the statements before the next one.
MidMigration ==
  \/ /\ working = committed
     /\ next \in committed.applied
     /\ next[1] > currentSchemaVersion => committed.version <= currentSchemaVersion
  \/ /\ working.applied = Before(next)
     /\ working.version <= currentSchemaVersion
     /\ committed.version <= currentSchemaVersion

NextInRange ==
  /\ next[1] <= currentSchemaVersion + 1
  /\ next[1] = currentSchemaVersion + 1 => next[2] = 1

Transactional ==
  /\ \E n \in Versions : HasMigrations(committed, n)
  /\ pc = "migrating" => NextInRange /\ MidMigration

IInv == TypeOK /\ (transactional => Transactional)

-----------------------------------------------------------------------------
(* The order of the statements.                                            *)

\* The statements before the first of migration n + 1 are the first n migrations.
LEMMA BeforeFirst ==
  ASSUME NEW n \in Nat
  PROVE  Before(<<n + 1, 1>>) = UpTo(n)
BY MigrationsAssumption DEF Before, UpTo, migrations

\* After a statement comes the next one, and none between them is skipped.
LEMMA BeforeAfter ==
  ASSUME NEW s \in migrations
  PROVE  Before(After(s)) = Before(s) \cup {s}
<1>1. PICK i \in 1 .. Newest, j \in 1 .. Size : s = <<i, j>>
  BY DEF migrations
<1>2. ASSUME NEW r \in migrations
      PROVE  r \in Before(After(s)) <=> r \in Before(s) \/ r = s
  <2>1. PICK x \in 1 .. Newest, y \in 1 .. Size : r = <<x, y>>
    BY DEF migrations
  <2>2. CASE j < Size
    BY <1>1, <2>1, <2>2, MigrationsAssumption DEF Before, After, migrations
  <2>3. CASE j = Size
    BY <1>1, <2>1, <2>3, MigrationsAssumption DEF Before, After, migrations
  <2> QED
    BY <2>2, <2>3, MigrationsAssumption
<1>3. Before(After(s)) \subseteq migrations /\ Before(s) \subseteq migrations
  BY DEF Before
<1> QED
  BY <1>2, <1>3

-----------------------------------------------------------------------------
(* Each step.                                                              *)

\* The statement after one of this program's is in range, and so is the first
\* one after any version of a database.
LEMMA AfterType ==
  ASSUME NEW s \in migrations
  PROVE  After(s) \in (1 .. Newest + 1) \X (1 .. Size)
BY MigrationsAssumption DEF After, migrations

LEMMA VersionsType ==
  /\ Versions \subseteq Nat
  /\ 0 \in Versions /\ 1 \in Versions /\ currentSchemaVersion \in Versions
  /\ 1 <= currentSchemaVersion
BY MigrationsAssumption DEF Versions

\* In whatever version initSchema takes it for, the database is the right one
\* to start on, or it has the first table that would be created.
LEMMA ReadVersionStep ==
  ASSUME IInv, NEW v \in {committed.version, 0}, ReadVersion(v), faults' \in Nat
  PROVE  IInv'
<1> USE DEF IInv
<1>1. committed \in Databases /\ v \in Versions
  BY VersionsType DEF TypeOK, Databases
<1>2. v \in Nat /\ v <= Newest
  BY <1>1, MigrationsAssumption DEF Versions
<1>3. next' = <<v + 1, 1>> /\ working' = committed /\ committed' = committed
      /\ transactional' = transactional
  BY DEF ReadVersion
<1>4. TypeOK'
  BY <1>1, <1>2, <1>3, MigrationsAssumption DEF TypeOK, ReadVersion
<1>5. ASSUME transactional PROVE Transactional'
  <2>1. PICK n \in Versions : HasMigrations(committed, n)
    BY <1>5 DEF Transactional
  <2>2. n \in Nat /\ n <= Newest /\ committed.version \in Nat
    BY <2>1, <1>1, MigrationsAssumption DEF Versions, Databases
  <2>3. HasMigrations(committed', n)
    BY <2>1, <1>3
  <2>4. ASSUME pc' = "migrating" PROVE NextInRange' /\ MidMigration'
    <3>1. v <= currentSchemaVersion
      BY <2>4, <1>2, MigrationsAssumption DEF ReadVersion
    <3>2. NextInRange'
      BY <3>1, <1>2, <1>3, MigrationsAssumption DEF NextInRange
    <3>3. CASE v = n
      <4>1. Before(next') = UpTo(n)
        BY <3>3, <1>3, <2>2, BeforeFirst
      <4> QED
        BY <4>1, <3>1, <3>2, <3>3, <2>1, <2>2, <1>3, MigrationsAssumption
        DEF MidMigration, HasMigrations
    <3>4. CASE v < n
      <4>1. next' \in UpTo(n)
        BY <3>4, <2>2, <1>2, <1>3, MigrationsAssumption DEF UpTo, migrations
      <4>2. v + 1 > currentSchemaVersion => committed.version <= currentSchemaVersion
        BY <3>1, <1>2, MigrationsAssumption
      <4> QED
        BY <4>1, <4>2, <3>2, <2>1, <1>3 DEF MidMigration, HasMigrations
    <3> QED
      BY <3>3, <3>4, <2>1, <2>2, <1>2 DEF HasMigrations
  <2> QED
    BY <2>1, <2>3, <2>4 DEF Transactional
<1> QED
  BY <1>3, <1>4, <1>5

\* A statement that is applied leaves the transaction one further.
LEMMA ApplyStep ==
  ASSUME IInv, Apply
  PROVE  IInv'
<1> USE DEF IInv
<1>1. next \in migrations /\ next[1] <= currentSchemaVersion /\ next \notin working.applied
  BY MigrationsAssumption DEF TypeOK, Apply, Migrating, migrations
<1>2. PICK ver \in Versions :
        /\ working' = Database(working.applied \cup {next}, ver)
        /\ ver = 1 \/ ver = working.version
  BY VersionsType DEF Apply, TypeOK, Databases
<1>3. next' = After(next) /\ pc' = pc /\ pc = "migrating"
      /\ transactional' = transactional /\ faults' = faults
  BY DEF Apply, Migrating
<1>4. working' \in Databases
  BY <1>1, <1>2 DEF TypeOK, Databases, Database
<1>5. committed' \in Databases
  BY <1>2, <1>4 DEF Apply, TypeOK
<1>6. TypeOK'
  BY <1>1, <1>3, <1>4, <1>5, AfterType DEF TypeOK
<1>7. ASSUME transactional PROVE Transactional'
  <2>1. committed' = committed
    BY <1>7 DEF Apply
  <2>2. /\ working.applied = Before(next) /\ working.version <= currentSchemaVersion
        /\ committed.version <= currentSchemaVersion
    BY <1>1, <1>3, <1>7 DEF Transactional, MidMigration
  <2>3. working'.applied = Before(next') /\ working'.version <= currentSchemaVersion
    BY <1>1, <1>2, <1>3, <2>2, BeforeAfter, VersionsType DEF Database
  <2>4. NextInRange'
    BY <1>1, <1>3, MigrationsAssumption DEF NextInRange, After, migrations
  <2> QED
    BY <1>3, <1>7, <2>1, <2>2, <2>3, <2>4 DEF Transactional, MidMigration, HasMigrations
<1> QED
  BY <1>3, <1>6, <1>7

\* When no statement is left, all of the program's schema is there, in a database
\* whose version was none of a newer program.
LEMMA Finished ==
  ASSUME IInv, transactional, NEW v, Finish(v)
  PROVE  /\ UpTo(currentSchemaVersion) \subseteq working.applied
         /\ committed.version <= currentSchemaVersion
         /\ \E n \in Versions : working.applied = UpTo(n) /\ currentSchemaVersion <= n
         /\ working.version \in Versions /\ working.version <= currentSchemaVersion
<1> USE DEF IInv
<1>1. /\ NextInRange /\ MidMigration
      /\ next = <<currentSchemaVersion + 1, 1>>
  <2>1. NextInRange /\ MidMigration /\ next[1] > currentSchemaVersion
    BY DEF Transactional, Finish, Migrated
  <2> QED
    BY <2>1, MigrationsAssumption DEF NextInRange, TypeOK
<1>2. working.version \in Versions
  BY DEF TypeOK, Databases
<1>3. CASE working = committed /\ next \in committed.applied
           /\ committed.version <= currentSchemaVersion
  <2>1. PICK n \in Versions : HasMigrations(committed, n)
    BY DEF Transactional
  <2>2. n \in Nat /\ currentSchemaVersion + 1 <= n
    BY <1>1, <1>3, <2>1, MigrationsAssumption DEF HasMigrations, UpTo, Versions
  <2>3. UpTo(currentSchemaVersion) \subseteq UpTo(n)
    BY <2>2, MigrationsAssumption DEF UpTo, migrations
  <2> QED
    BY <1>2, <1>3, <2>1, <2>2, <2>3, MigrationsAssumption DEF HasMigrations
<1>4. CASE /\ working.applied = Before(next)
           /\ working.version <= currentSchemaVersion
           /\ committed.version <= currentSchemaVersion
  <2>1. working.applied = UpTo(currentSchemaVersion)
    BY <1>1, <1>4, BeforeFirst, MigrationsAssumption
  <2> QED
    BY <1>2, <1>4, <2>1, VersionsType, MigrationsAssumption
<1> QED
  BY <1>1, <1>3, <1>4, MigrationsAssumption DEF MidMigration

LEMMA FinishStep ==
  ASSUME IInv, NEW v \in {currentSchemaVersion, working.version}, Finish(v), faults' \in Nat
  PROVE  IInv'
<1> USE DEF IInv
<1>1. v \in Versions /\ working \in Databases
  BY VersionsType DEF TypeOK, Databases
<1>2. /\ committed' = Database(working.applied, v) /\ working' = committed'
      /\ pc' = "serving" /\ next' = next /\ transactional' = transactional
  BY DEF Finish
<1>3. TypeOK'
  BY <1>1, <1>2 DEF TypeOK, Databases, Database
<1>4. ASSUME transactional PROVE Transactional'
  <2>1. PICK n \in Versions : working.applied = UpTo(n) /\ currentSchemaVersion <= n
    BY <1>4, Finished
  <2>2. working.version \in Versions /\ working.version <= currentSchemaVersion
    BY <1>4, Finished
  <2>3. v \in Nat /\ n \in Nat /\ v <= n
    BY <2>1, <2>2, MigrationsAssumption DEF Versions
  <2>4. HasMigrations(committed', n)
    BY <1>2, <2>1, <2>3 DEF HasMigrations, Database
  <2> QED
    BY <1>2, <2>4 DEF Transactional
<1> QED
  BY <1>2, <1>3, <1>4

\* What ends the process leaves the database at the last commit.
LEMMA AbortStep ==
  ASSUME IInv, Abort, faults' \in Nat
  PROVE  IInv'
<1> USE DEF IInv, Abort
<1>1. TypeOK'
  BY DEF TypeOK
<1>2. ASSUME transactional PROVE Transactional'
  BY <1>2 DEF Transactional
<1> QED
  BY <1>1, <1>2

-----------------------------------------------------------------------------

LEMMA InitInv == Init => IInv
<1> SUFFICES ASSUME Init PROVE IInv
  OBVIOUS
<1>0. PICK n \in Versions : \E v \in 0 .. n : committed = Database(UpTo(n), v)
  BY DEF Init
<1>1. PICK v \in 0 .. n : committed = Database(UpTo(n), v)
  BY <1>0
<1>2. n \in Nat /\ v \in Versions /\ v <= n /\ UpTo(n) \subseteq migrations
  BY <1>1, MigrationsAssumption DEF Versions, UpTo
<1>3. TypeOK
  BY <1>1, <1>2, MigrationsAssumption
  DEF Init, TypeOK, Databases, Database, CreateMeta
<1>4. HasMigrations(committed, n)
  BY <1>1, <1>2, MigrationsAssumption DEF HasMigrations, Database
<1>5. pc = "down"
  BY DEF Init
<1> QED
  BY <1>3, <1>4, <1>5 DEF IInv, Transactional

LEMMA NextInv == IInv /\ [Next]_vars => IInv'
<1> SUFFICES ASSUME IInv, [Next]_vars PROVE IInv'
  OBVIOUS
<1>1. faults \in Nat
  BY DEF IInv, TypeOK
<1>2. CASE Start \/ Ping
  BY <1>2 DEF Start, Ping, IInv, TypeOK, Transactional, HasMigrations
<1>3. CASE getDBVersion
  BY <1>1, <1>3, ReadVersionStep DEF getDBVersion
<1>4. CASE getDBVersionFails
  BY <1>1, <1>4, ReadVersionStep DEF getDBVersionFails
<1>5. CASE Apply
  BY <1>5, ApplyStep
<1>6. CASE Exists
  BY <1>1, <1>6, AbortStep DEF Exists
<1>7. CASE Commit
  BY <1>1, <1>7, FinishStep DEF Commit
<1>8. CASE CommitOnly
  BY <1>1, <1>8, FinishStep DEF CommitOnly
<1>9. CASE Crash
  BY <1>1, <1>9, AbortStep DEF Crash
<1>10. CASE UNCHANGED vars
  BY <1>10 DEF vars, IInv, TypeOK, Transactional, HasMigrations, NextInRange, MidMigration
<1> QED
  BY <1>2, <1>3, <1>4, <1>5, <1>6, <1>7, <1>8, <1>9, <1>10 DEF Next

\* initSchema (sqlbackend.go): the database and the transaction on it are in a
\* state that the next statement fits, or that it fails on.
THEOREM Invariance == Spec => []IInv
BY InitInv, NextInv, PTL DEF Spec

\* The fields of the database and initSchema's variables keep their types.
THEOREM TypeCorrectness == Spec => []TypeOK
<1>1. IInv => TypeOK
  BY DEF IInv
<1> QED
  BY <1>1, Invariance, PTL

\* No error, crash or misread version leaves a database with transactional DDL
\* between two schemas, or with a version that is ahead of its schema.
THEOREM WholeSchema == Spec => []SchemaIsWhole
<1>1. IInv => SchemaIsWhole
  BY DEF IInv, Transactional, HasMigrations, SchemaIsWhole
<1> QED
  BY <1>1, Invariance, PTL

\* On such a database the program comes to serve requests with all of its schema
\* there, and never with a version of a newer program.
THEOREM OwnSchema == Spec => ServesItsSchema
<1>1. ASSUME IInv, [Next]_vars, transactional, pc # "serving", pc' = "serving"
      PROVE  /\ UpTo(currentSchemaVersion) \subseteq committed'.applied
             /\ committed.version <= currentSchemaVersion
  <2>1. PICK v : Finish(v)
    BY <1>1 DEF Next, Start, Ping, getDBVersion, getDBVersionFails, ReadVersion, Apply,
      Exists, Abort, Commit, CommitOnly, Crash, vars
  <2>2. committed'.applied = working.applied
    BY <2>1 DEF Finish, Database
  <2> QED
    BY <1>1, <2>1, <2>2, Finished
<1>2. IInv /\ [Next]_vars =>
        [transactional /\ pc # "serving" /\ pc' = "serving" =>
           /\ UpTo(currentSchemaVersion) \subseteq committed'.applied
           /\ committed.version <= currentSchemaVersion]_vars
  BY <1>1
<1> QED
  BY <1>2, Invariance, PTL DEF Spec, ServesItsSchema
=============================================================================
