----------------------------- MODULE Migrations -----------------------------
(***************************************************************************)
(* SQLBackend.initSchema: at every start the program brings the schema of  *)
(* its database up to date, before it listens to anything, and any error   *)
(* ends it (log.Fatalf); the service manager starts it again.              *)
(*                                                                         *)
(* The database is external. SQLite and SQL Server roll CREATE TABLE back  *)
(* with the transaction it is in; MySQL commits the open transaction       *)
(* before it and after it.                                                 *)
(***************************************************************************)
EXTENDS Integers

CONSTANTS
  currentSchemaVersion,  \* the number of migrations of this program
  Newest,                \* the newest version a database in use may have
  Size,                  \* the number of statements of each migration
  Drivers,               \* what DDL statements may be: transactional, or not
  MaxFaults              \* errors and crashes within the scope of a run

ASSUME MigrationsAssumption ==
  /\ currentSchemaVersion \in Nat \ {0}
  /\ Newest \in Nat /\ currentSchemaVersion <= Newest
  /\ Size \in Nat /\ Size >= 2
  /\ Drivers \subseteq BOOLEAN
  /\ MaxFaults \in Nat

Versions == 0 .. Newest

\* The statements of all migrations. The first one creates windermere_meta, and
\* the second one inserts its only row, with version 1.
migrations == (1 .. Newest) \X (1 .. Size)
CreateMeta == <<1, 1>>
InsertMeta == <<1, 2>>

\* What the first n migrations do.
UpTo(n) == {s \in migrations : s[1] <= n}

VARIABLES
  transactional,  \* of the database in use
  committed,      \* what it holds: the statements applied, and the version row
  working,        \* the same with what the open transaction has done
  pc,             \* where initSchema is
  next,           \* the next statement
  faults          \* the number of errors and crashes so far

vars == <<transactional, committed, working, pc, next, faults>>

Database(applied, v) == [applied |-> applied, version |-> v]

\* A database that is empty or that an earlier program has left, maybe a newer
\* one. Its version may lag behind its schema (CommitOnly), but it has one.
Init ==
  /\ transactional \in Drivers
  /\ \E n \in Versions : \E v \in 0 .. n :
       /\ v = 0 <=> n = 0
       /\ committed = Database(UpTo(n), v)
  /\ working = committed
  /\ pc = "down"
  /\ next = CreateMeta
  /\ faults = 0

\* A new process.
Start ==
  /\ pc = "down"
  /\ pc' = "connecting"
  /\ UNCHANGED <<transactional, committed, working, next, faults>>

\* Ping succeeds; until it does, the program sleeps and tries again for ever.
Ping ==
  /\ pc = "connecting"
  /\ pc' = "connected"
  /\ UNCHANGED <<transactional, committed, working, next, faults>>

\* Slip: the schema of a newer program is not refused.
ReadVersionUnchecked(v) ==
  /\ pc = "connected"
  /\ pc' = "migrating"
  /\ next' = <<v + 1, 1>>
  /\ working' = committed
  /\ UNCHANGED <<transactional, committed>>

\* Slip: the last migration is applied again.
ReadVersionAgain(v) ==
  /\ pc = "connected"
  /\ pc' = IF v > currentSchemaVersion THEN "down" ELSE "migrating"
  /\ next' = <<IF v = 0 THEN 1 ELSE v, 1>>
  /\ working' = committed
  /\ UNCHANGED <<transactional, committed>>

\* The migrations after version v; the schema of a newer program is refused.
ReadVersion(v) ==
  /\ pc = "connected"
  /\ pc' = IF v > currentSchemaVersion THEN "down" ELSE "migrating"
  /\ next' = <<v + 1, 1>>
  /\ working' = committed
  /\ UNCHANGED <<transactional, committed>>

getDBVersion == ReadVersion(committed.version) /\ UNCHANGED faults

\* Any error is taken for a database without a schema.
getDBVersionFails == faults < MaxFaults /\ faults' = faults + 1 /\ ReadVersion(0)

Migrating == pc = "migrating" /\ next[1] <= currentSchemaVersion

\* Slip: the last statement of a migration is not the last.
AfterPast(s) == <<s[1], s[2] + 1>>

After(s) == IF s[2] < Size THEN <<s[1], s[2] + 1>> ELSE <<s[1] + 1, 1>>

\* Slip: every statement is committed by itself, without a transaction.
ApplyAutocommit ==
  LET w == Database(working.applied \cup {next},
                    IF next = InsertMeta THEN 1 ELSE working.version)
  IN  /\ Migrating
      /\ next \notin working.applied
      /\ working' = w
      /\ committed' = w
      /\ next' = After(next)
      /\ UNCHANGED <<transactional, pc, faults>>

\* One statement of a migration.
Apply ==
  LET w == Database(working.applied \cup {next},
                    IF next = InsertMeta THEN 1 ELSE working.version)
  IN  /\ Migrating
      /\ next \notin working.applied
      /\ working' = w
      /\ committed' = IF ~transactional /\ next # InsertMeta THEN w ELSE committed
      /\ next' = After(next)
      /\ UNCHANGED <<transactional, pc, faults>>

\* The deferred Rollback, when the process ends in one way or another.
Abort ==
  /\ working' = committed
  /\ pc' = "down"
  /\ UNCHANGED <<transactional, committed, next>>

\* A table that is to be created exists already.
Exists == Migrating /\ next \in working.applied /\ Abort /\ UNCHANGED faults

Migrated == pc = "migrating" /\ next[1] > currentSchemaVersion

\* UPDATE windermere_meta, whose error is ignored, and Commit.
Finish(v) ==
  /\ Migrated
  /\ working' = Database(working.applied, v)
  /\ committed' = working'
  /\ pc' = "serving"
  /\ UNCHANGED <<transactional, next>>

Commit == Finish(currentSchemaVersion) /\ UNCHANGED faults

CommitOnly ==
  /\ faults < MaxFaults /\ faults' = faults + 1
  /\ Finish(working.version)

\* An error in any other statement, or the end of the process.
Crash ==
  /\ pc # "down"
  /\ faults < MaxFaults /\ faults' = faults + 1
  /\ Abort

Next ==
  \/ Start \/ Ping \/ getDBVersion \/ getDBVersionFails \/ Apply \/ Exists
  \/ Commit \/ CommitOnly \/ Crash

\* initSchema is sequential, and the service manager starts it again ("Restart=
\* on-failure" in configs/windermere.service). A database that is away comes back.
Fairness == WF_vars(Start \/ Ping \/ getDBVersion \/ Apply \/ Exists \/ Commit)

Spec == Init /\ [][Next]_vars /\ Fairness

-----------------------------------------------------------------------------
(* Properties.                                                             *)

Databases == [applied : SUBSET migrations, version : Versions]

\* Type correctness of the database and of initSchema's variables.
TypeOK ==
  /\ transactional \in BOOLEAN
  /\ committed \in Databases
  /\ working \in Databases
  /\ pc \in {"down", "connecting", "connected", "migrating", "serving"}
  /\ next \in (1 .. Newest + 1) \X (1 .. Size)
  /\ faults \in Nat

\* Where DDL is transactional, no error, crash or misread version leaves the
\* database between two schemas, and the version it records is never ahead of
\* the schema it has.
SchemaIsWhole ==
  transactional =>
    \E n \in Versions : committed.applied = UpTo(n) /\ committed.version <= n

\* The program comes to serve requests only on a database that has all of its
\* schema, and never on one that a newer program has marked as its own, not even
\* when the query of the version fails and is taken for an empty database.
ServesItsSchema ==
  [][transactional /\ pc # "serving" /\ pc' = "serving" =>
       /\ UpTo(currentSchemaVersion) \subseteq committed'.applied
       /\ committed.version <= currentSchemaVersion]_vars

\* Once errors and crashes have ceased, a program that the database is not too
\* new for comes up, however far earlier attempts have come.
ComesUp ==
  (transactional /\ committed.version <= currentSchemaVersion) ~> (pc = "serving")
=============================================================================
