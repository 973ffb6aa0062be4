----------------------------- MODULE SQLBackend -----------------------------
(***************************************************************************)
(* windermere.SQLBackend, called by concurrent goroutines. Every operation *)
(* is a transaction on a connection of the pool, and one step of the model *)
(* is one SQL statement of it.                                             *)
(*                                                                         *)
(* The database itself is external. A resource is a row of a main table    *)
(* and the rows of the child tables that refer to it; a transaction locks  *)
(* what it has written until it ends. Isolation is what the database does  *)
(* at its default level: "serializable" (SQLite: one writer, which cannot  *)
(* commit while somebody is reading), "repeatableRead" (MySQL: reads come  *)
(* from a snapshot) or "readCommitted" (SQL Server: every statement sees   *)
(* what is committed by then).                                             *)
(***************************************************************************)
EXTENDS SS12000, Integers, Sequences, FiniteSets

CONSTANTS
  Callers,        \* goroutines that use the backend
  Tenants,
  Types,          \* resource types as taken from URLs, known or not
  Requests,       \* the calls that callers make
  Rows,           \* what a row of a main table can hold, keys aside
  RowOf,          \* the row that a payload is converted to
  Items,          \* what a row of a child table can hold, keys aside
  ItemsOf,        \* the rows of each child table a payload is converted to
  Absent,         \* no row
  Free,           \* not in use
  Isolation,
  MaxOpenConns,
  AllConnsEnforce \* new connections enforce foreign keys by themselves

ChildTables == {"Emails", "Enrolments", "StudentMemberships", "SchoolTypes",
                "ActivityTeachers", "ActivityGroups"}

Ops == {"create", "update", "delete", "clear", "get", "list"}
Calls == [op : Ops, tenant : Tenants, type : Types, id : IDs, body : Bodies]

Slots == Tenants \X Types \X IDs
Conns == 1 .. MaxOpenConns

\* What the tables hold under the key of a resource. Child rows without a row
\* in the main table are orphans. The child tables have no keys of their own, and
\* can hold the same row several times; how often is left out.
Stored == [row : Rows \cup {Absent}, sub : [ChildTables -> SUBSET Items]]
Nothing == [row |-> Absent, sub |-> [t \in ChildTables |-> {}]]

ASSUME SQLAssumption ==
  /\ Requests \subseteq Calls /\ Nil \notin Requests
  /\ RowOf \in [Data -> Rows]
  /\ ItemsOf \in [Data -> [ChildTables -> SUBSET Items]]
  /\ Absent \notin Rows \cup Stored /\ Nil \notin IDs
  /\ Free \notin Callers
  /\ Isolation \in {"serializable", "repeatableRead", "readCommitted"}
  /\ MaxOpenConns \in Nat \ {0}
  /\ AllConnsEnforce \in BOOLEAN

VARIABLES
  db,       \* what is committed
  latest,   \* the same with the writes of open transactions
  held,     \* the keys each caller's transaction has locked
  snap,     \* what a repeatable read transaction sees
  conns,    \* the connection pool
  pc,       \* where each caller is
  step,     \* the next statement of each caller's transaction
  call,     \* each caller's call, or Nil
  buf,      \* the objects a reader has built
  result    \* what each caller's call returns, once known

txVars == <<held, snap, step, buf>>
vars == <<db, latest, txVars, conns, pc, call, result>>

Result(kind, v) == [kind |-> kind, val |-> v]

-----------------------------------------------------------------------------
(* The statements that create, update and read an object of each type, in  *)
(* the order in which they are executed.                                   *)

Stmt(do, table)    == [do |-> do, table |-> table]
Insert(table)      == Stmt("insert", table)
InsertRows(table)  == Stmt("insertRows", table)
UpdateRow(table)   == Stmt("update", table)
DeleteRows(table)  == Stmt("deleteRows", table)
Select(table)      == Stmt("select", table)
SelectRows(table)  == Stmt("selectRows", table)

userCreator == <<Insert("Users"), InsertRows("Emails"), InsertRows("Enrolments")>>
userMutator ==
  <<UpdateRow("Users"), DeleteRows("Emails"), InsertRows("Emails"),
    DeleteRows("Enrolments"), InsertRows("Enrolments")>>
\* Slip: a child table is forgotten.
userReaderPartial == <<Select("Users"), SelectRows("Emails")>>

userReader == <<Select("Users"), SelectRows("Emails"), SelectRows("Enrolments")>>

studentGroupCreator == <<Insert("StudentGroups"), InsertRows("StudentMemberships")>>
\* Slip: the old rows of the child table are kept.
studentGroupMutatorKeeping ==
  <<UpdateRow("StudentGroups"), InsertRows("StudentMemberships")>>

studentGroupMutator ==
  <<UpdateRow("StudentGroups"), DeleteRows("StudentMemberships"),
    InsertRows("StudentMemberships")>>
studentGroupReader == <<Select("StudentGroups"), SelectRows("StudentMemberships")>>

schoolUnitCreator == <<Insert("SchoolUnits"), InsertRows("SchoolTypes")>>
schoolUnitMutator ==
  <<UpdateRow("SchoolUnits"), DeleteRows("SchoolTypes"), InsertRows("SchoolTypes")>>
schoolUnitReader == <<Select("SchoolUnits"), SelectRows("SchoolTypes")>>

activityCreator ==
  <<Insert("Activities"), InsertRows("ActivityTeachers"), InsertRows("ActivityGroups")>>
\* Slip: the old rows of one child table are kept.
activityMutatorKeeping ==
  <<UpdateRow("Activities"), DeleteRows("ActivityTeachers"), InsertRows("ActivityTeachers"),
    InsertRows("ActivityGroups")>>

activityMutator ==
  <<UpdateRow("Activities"), DeleteRows("ActivityTeachers"), InsertRows("ActivityTeachers"),
    DeleteRows("ActivityGroups"), InsertRows("ActivityGroups")>>
activityReader ==
  <<Select("Activities"), SelectRows("ActivityTeachers"), SelectRows("ActivityGroups")>>

organisationCreator == <<Insert("Organisations")>>
organisationMutator == <<UpdateRow("Organisations")>>
organisationReader  == <<Select("Organisations")>>

schoolUnitGroupCreator == <<Insert("SchoolUnitGroups")>>
schoolUnitGroupMutator == <<UpdateRow("SchoolUnitGroups")>>
schoolUnitGroupReader  == <<Select("SchoolUnitGroups")>>

employmentCreator == <<Insert("Employments")>>
employmentMutator == <<UpdateRow("Employments")>>
employmentReader  == <<Select("Employments")>>

objectCreator ==
  [Users            |-> userCreator,
   StudentGroups    |-> studentGroupCreator,
   Organisations    |-> organisationCreator,
   SchoolUnitGroups |-> schoolUnitGroupCreator,
   SchoolUnits      |-> schoolUnitCreator,
   Employments      |-> employmentCreator,
   Activities       |-> activityCreator]

objectMutator ==
  [Users            |-> userMutator,
   StudentGroups    |-> studentGroupMutator,
   Organisations    |-> organisationMutator,
   SchoolUnitGroups |-> schoolUnitGroupMutator,
   SchoolUnits      |-> schoolUnitMutator,
   Employments      |-> employmentMutator,
   Activities       |-> activityMutator]

\* objectReaderAll and objectReaderOne; reading an unknown type is an error.
objectReader(ty) ==
  CASE ty = "Users"            -> userReader
    [] ty = "StudentGroups"    -> studentGroupReader
    [] ty = "Organisations"    -> organisationReader
    [] ty = "SchoolUnitGroups" -> schoolUnitGroupReader
    [] ty = "SchoolUnits"      -> schoolUnitReader
    [] ty = "Employments"      -> employmentReader
    [] ty = "Activities"       -> activityReader
    [] OTHER -> <<Stmt("unknown", ty)>>

mainTable == {"Users", "StudentGroups", "Organisations", "SchoolUnitGroups",
              "SchoolUnits", "Employments", "Activities"}

\* Slip: a table is left out.
tablesForClearTenantPartial ==
  <<"StudentGroups", "Organisations", "SchoolUnitGroups", "SchoolUnits",
    "Employments", "Activities">>

tablesForClearTenant ==
  <<"Users", "StudentGroups", "Organisations", "SchoolUnitGroups", "SchoolUnits",
    "Employments", "Activities">>

ensureHasRecord(ty)        == <<Stmt("ensureHas", ty)>>
ensureDoesntHaveRecord(ty) == <<Stmt("ensureDoesntHave", ty)>>

Program(c) ==
  CASE c.op = "create" -> ensureDoesntHaveRecord(c.type) \o objectCreator[c.type]
    [] c.op = "update" -> ensureHasRecord(c.type) \o objectMutator[c.type]
    [] c.op = "delete" -> ensureHasRecord(c.type) \o <<Stmt("delete", c.type)>>
    [] c.op = "get"    -> ensureHasRecord(c.type) \o objectReader(c.type)
    [] c.op = "list"   -> objectReader(c.type)
    [] c.op = "clear"  -> [i \in 1 .. Len(tablesForClearTenant) |->
                             Stmt("clear", tablesForClearTenant[i])]

\* The key a statement is about: the ID in the URL for the check of an update
\* and for delete and get, the ID in the body for everything else.
Key(c, stmt) ==
  LET byURL == stmt.do \in {"ensureHas", "delete", "select", "selectRows"}
  IN  <<c.tenant, c.type, IF byURL THEN c.id ELSE c.body.id>>

\* The keys that a select of a list, or of a single object, looks at.
Scope(c) ==
  {s \in Slots : s[1] = c.tenant /\ s[2] = c.type /\ (c.op = "get" => s[3] = c.id)}

-----------------------------------------------------------------------------
(* The connection pool. NewSQLBackend has opened a first connection to run *)
(* driverSpecificInit on, and the schema is up to date.                    *)

Closed == [open |-> FALSE, fk |-> FALSE, user |-> Free]
NoObjects == [objs |-> [id \in IDs |-> Nothing], first |-> Nil]

Init ==
  /\ db = [s \in Slots |-> Nothing]
  /\ latest = db
  /\ held = [p \in Callers |-> {}]
  /\ snap = [p \in Callers |-> Nil]
  /\ conns = [c \in Conns |-> IF c = 1 THEN [open |-> TRUE, fk |-> TRUE, user |-> Free]
                                       ELSE Closed]
  /\ pc = [p \in Callers |-> "idle"]
  /\ step = [p \in Callers |-> 1]
  /\ call = [p \in Callers |-> Nil]
  /\ buf = [p \in Callers |-> NoObjects]
  /\ result = [p \in Callers |-> Nil]

\* ConnMaxLifetime has passed, or the database has closed the connection.
Expire ==
  /\ \E c \in Conns : /\ conns[c].open /\ conns[c].user = Free
                      /\ conns' = [conns EXCEPT ![c] = Closed]
  /\ UNCHANGED <<db, latest, txVars, pc, call, result>>

Invoke(p) ==
  /\ pc[p] = "idle"
  /\ \E c \in Requests : call' = [call EXCEPT ![p] = c]
  /\ pc' = [pc EXCEPT ![p] = "called"]
  /\ UNCHANGED <<db, latest, txVars, conns, result>>

\* What a method checks before it begins a transaction.
Check(c) ==
  LET obj == validatingObjectParser(c.type, c.body)
  IN  CASE c.op \in {"create", "update", "delete", "get"} /\ c.type \notin mainTable -> "error"
        [] c.op \in {"create", "update"} /\ c.type \in mainTable /\ obj.kind # "ok" ->
             IF obj.kind = "panic" THEN "panic" ELSE "malformed"
        [] OTHER -> "ok"

Reject(p) ==
  /\ pc[p] = "called"
  /\ Check(call[p]) # "ok"
  /\ result' = [result EXCEPT ![p] = Result(Check(call[p]), Nil)]
  /\ pc' = [pc EXCEPT ![p] = "returned"]
  /\ UNCHANGED <<db, latest, txVars, conns, call>>

\* Slip: foreign keys are not enforced on new connections.
BeginUnenforced(p) ==
  /\ pc[p] = "called"
  /\ Check(call[p]) = "ok"
  /\ LET idle == {c \in Conns : conns[c].open /\ conns[c].user = Free}
     IN  \/ \E c \in idle : conns' = [conns EXCEPT ![c].user = p]
         \/ /\ idle = {}
            /\ \E c \in Conns :
                 /\ ~conns[c].open
                 /\ conns' = [conns EXCEPT ![c] = [open |-> TRUE, fk |-> FALSE, user |-> p]]
  /\ pc' = [pc EXCEPT ![p] = "running"]
  /\ UNCHANGED <<db, latest, txVars, call, result>>

\* Beginx: an idle connection, or a new one if there is none, or wait.
Begin(p) ==
  /\ pc[p] = "called"
  /\ Check(call[p]) = "ok"
  /\ LET idle == {c \in Conns : conns[c].open /\ conns[c].user = Free}
     IN  \/ \E c \in idle : conns' = [conns EXCEPT ![c].user = p]
         \/ /\ idle = {}
            /\ \E c \in Conns :
                 /\ ~conns[c].open
                 /\ conns' = [conns EXCEPT ![c] =
                                [open |-> TRUE, fk |-> AllConnsEnforce, user |-> p]]
  /\ pc' = [pc EXCEPT ![p] = "running"]
  /\ UNCHANGED <<db, latest, txVars, call, result>>

ForeignKeys(p) == \E c \in Conns : conns[c].user = p /\ conns[c].fk

-----------------------------------------------------------------------------
(* The end of a transaction. The deferred Rollback runs on every path out  *)
(* of a method that has not committed, panics included.                    *)

\* Slip: the connection is not given back to the pool.
FinishLeaky(p, r) ==
  /\ held' = [held EXCEPT ![p] = {}]
  /\ snap' = [snap EXCEPT ![p] = Nil]
  /\ step' = [step EXCEPT ![p] = 1]
  /\ buf' = [buf EXCEPT ![p] = NoObjects]
  /\ result' = [result EXCEPT ![p] = r]
  /\ pc' = [pc EXCEPT ![p] = "returned"]
  /\ UNCHANGED <<conns, call>>

Finish(p, r) ==
  /\ conns' = [c \in Conns |-> IF conns[c].user = p THEN [conns[c] EXCEPT !.user = Free]
                                                    ELSE conns[c]]
  /\ held' = [held EXCEPT ![p] = {}]
  /\ snap' = [snap EXCEPT ![p] = Nil]
  /\ step' = [step EXCEPT ![p] = 1]
  /\ buf' = [buf EXCEPT ![p] = NoObjects]
  /\ result' = [result EXCEPT ![p] = r]
  /\ pc' = [pc EXCEPT ![p] = "returned"]
  /\ UNCHANGED call

\* Slip: what was written stays, as without a transaction.
RollbackNot(p, kind) == Finish(p, Result(kind, Nil)) /\ UNCHANGED <<db, latest>>

Rollback(p, kind) ==
  /\ latest' = [s \in Slots |-> IF s \in held[p] THEN db[s] ELSE latest[s]]
  /\ Finish(p, Result(kind, Nil))
  /\ UNCHANGED db

Done(p) == step[p] > Len(Program(call[p]))
Current(p) == Program(call[p])[step[p]]

\* Slip: reads bypass the transaction.
ViewOutside(p) == db

\* What p reads from.
View(p) ==
  IF Isolation = "repeatableRead" THEN (IF step[p] = 1 THEN db ELSE snap[p]) ELSE db

\* Go on to the next statement; nothing else about the transaction changes
\* but what the action says.
Advance(p) ==
  /\ step' = [step EXCEPT ![p] = @ + 1]
  /\ snap' = [snap EXCEPT ![p] = IF Isolation = "repeatableRead" THEN View(p) ELSE Nil]
  /\ UNCHANGED <<db, conns, pc, call, result>>

Executing(p, do) == pc[p] = "running" /\ ~Done(p) /\ Current(p).do = do

\* The transactions that a write of p to the keys in ks has to wait for.
Writers(p, ks) ==
  {q \in Callers \ {p} : IF Isolation = "serializable" THEN held[q] # {}
                                                       ELSE held[q] \cap ks # {}}

\* Write new[s] under each key s in ks. A key with nothing under it is not there
\* to be locked, but for the gap locks of repeatable read.
Write(p, ks, new) ==
  /\ Writers(p, ks) = {}
  /\ latest' = [s \in Slots |-> IF s \in ks THEN new[s] ELSE latest[s]]
  /\ held' = [held EXCEPT ![p] =
                @ \cup {s \in ks : \/ Isolation = "repeatableRead"
                                  \/ latest[s] # Nothing \/ new[s] # Nothing}]
  /\ Advance(p)
  /\ UNCHANGED buf

-----------------------------------------------------------------------------
(* The statements.                                                         *)

EnsureHasRecord(p) ==
  /\ Executing(p, "ensureHas")
  /\ IF View(p)[Key(call[p], Current(p))].row = Absent
     THEN Rollback(p, "missing")
     ELSE Advance(p) /\ UNCHANGED <<latest, held, buf>>

EnsureDoesntHaveRecord(p) ==
  /\ Executing(p, "ensureDoesntHave")
  /\ IF View(p)[Key(call[p], Current(p))].row # Absent
     THEN Rollback(p, "conflict")
     ELSE Advance(p) /\ UNCHANGED <<latest, held, buf>>

\* Slip: the payload is inserted as it is.
InsertMainRaw(p) ==
  LET k == Key(call[p], Current(p)) IN
  /\ Executing(p, "insert")
  /\ IF latest[k].row # Absent
     THEN Writers(p, {k}) = {} /\ Rollback(p, "error")
     ELSE Write(p, {k}, [latest EXCEPT ![k].row = call[p].body.data])

\* INSERT INTO a main table: the primary key may refuse it.
InsertMain(p) ==
  LET k == Key(call[p], Current(p)) IN
  /\ Executing(p, "insert")
  /\ IF latest[k].row # Absent
     THEN Writers(p, {k}) = {} /\ Rollback(p, "error")
     ELSE Write(p, {k}, [latest EXCEPT ![k].row = RowOf[call[p].body.data]])

\* INSERT INTO a child table, unless there are no rows to insert: a foreign
\* key may refuse it.
InsertChildren(p) ==
  LET k  == Key(call[p], Current(p))
      t  == Current(p).table
      is == ItemsOf[call[p].body.data][t]
  IN  /\ Executing(p, "insertRows")
      /\ CASE is = {} -> Advance(p) /\ UNCHANGED <<latest, held, buf>>
           [] is # {} /\ latest[k].row = Absent /\ ForeignKeys(p) ->
                Writers(p, {k}) = {} /\ Rollback(p, "error")
           [] OTHER -> Write(p, {k}, [latest EXCEPT ![k].sub[t] = @ \cup is])

\* UPDATE of a main table, which affects no row if there is none.
UpdateMain(p) ==
  LET k == Key(call[p], Current(p)) IN
  /\ Executing(p, "update")
  /\ Write(p, {k}, IF latest[k].row = Absent THEN latest
                   ELSE [latest EXCEPT ![k].row = RowOf[call[p].body.data]])

\* DELETE FROM a child table.
DeleteChildren(p) ==
  LET k == Key(call[p], Current(p)) IN
  /\ Executing(p, "deleteRows")
  /\ Write(p, {k}, [latest EXCEPT ![k].sub[Current(p).table] = {}])

\* Slip: no ON DELETE CASCADE.
DeletedAlone(p, r) == [r EXCEPT !.row = Absent]

\* The row under a key without its main row: ON DELETE CASCADE takes the child
\* rows too, on a connection that enforces foreign keys.
Deleted(p, r) ==
  IF r.row # Absent /\ ForeignKeys(p) THEN Nothing ELSE [r EXCEPT !.row = Absent]

DeleteMain(p) ==
  LET k == Key(call[p], Current(p)) IN
  /\ Executing(p, "delete")
  /\ Write(p, {k}, [latest EXCEPT ![k] = Deleted(p, @)])

\* DELETE FROM a main table WHERE tenant = ..., one statement per table.
ClearTable(p) ==
  LET ks == {s \in Slots : s[1] = call[p].tenant /\ s[2] = Current(p).table} IN
  /\ Executing(p, "clear")
  /\ Write(p, ks, [s \in Slots |-> Deleted(p, latest[s])])

\* SELECT FROM the main table; the rows come in no particular order.
SelectMain(p) ==
  LET found == {s \in Scope(call[p]) : View(p)[s].row # Absent} IN
  /\ Executing(p, "select")
  /\ \E first \in IF found = {} THEN {Nil} ELSE {s[3] : s \in found} :
       buf' = [buf EXCEPT ![p] =
         [objs  |-> [id \in IDs |->
                      IF \E s \in found : s[3] = id
                      THEN [Nothing EXCEPT !.row = View(p)[<<call[p].tenant, call[p].type, id>>].row]
                      ELSE Nothing],
          first |-> first]]
  /\ Advance(p)
  /\ UNCHANGED <<latest, held>>

\* Slip: every child row goes to the first object.
OwnerFirst(p, id) == buf[p].first

\* The object that a child row with the key id is appended to: index[id] of a
\* Go map, which is 0 for an id that the SELECT of the main table did not find.
Owner(p, id) == IF buf[p].objs[id].row # Absent THEN id ELSE buf[p].first

\* SELECT FROM a child table. Without any object, users[0] is out of range.
SelectChildren(p) ==
  LET t     == Current(p).table
      found == {s \in Scope(call[p]) : View(p)[s].sub[t] # {}}
      taken(id) == {s \in found : Owner(p, s[3]) = id}
  IN  /\ Executing(p, "selectRows")
      /\ IF found # {} /\ buf[p].first = Nil
         THEN Rollback(p, "panic")
         ELSE /\ buf' = [buf EXCEPT ![p].objs = [id \in IDs |->
                   [@[id] EXCEPT !.sub[t] = UNION {View(p)[s].sub[t] : s \in taken(id)}]]]
              /\ Advance(p)
              /\ UNCHANGED <<latest, held>>

\* Slip: an early return without Rollback.
ReadUnknownLeaky(p) ==
  /\ Executing(p, "unknown")
  /\ result' = [result EXCEPT ![p] = Result("error", Nil)]
  /\ pc' = [pc EXCEPT ![p] = "returned"]
  /\ UNCHANGED <<db, latest, txVars, conns, call>>

\* objectReaderAll of an unknown type.
ReadUnknown(p) == Executing(p, "unknown") /\ Rollback(p, "error")

-----------------------------------------------------------------------------
\* Transactions that keep p from committing.
Readers(p) ==
  {q \in Callers \ {p} : /\ Isolation = "serializable" /\ held[p] # {}
                         /\ pc[q] = "running" /\ step[q] > 1}

\* What the handler gets: the object of the request for create and update.
Answer(p) ==
  LET c == call[p]
      Object(id) == IF buf[p].objs[id].row = Absent THEN Absent ELSE buf[p].objs[id]
  IN  CASE c.op \in {"create", "update"} -> c.body.data
        [] c.op = "get"  -> Object(c.id)
        [] c.op = "list" -> [id \in IDs |-> Object(id)]
        [] OTHER -> Nil

\* objectReaderOne expects exactly one object, before the commit.
NotOne(p) ==
  /\ pc[p] = "running" /\ Done(p)
  /\ call[p].op = "get" /\ Answer(p) = Absent
  /\ Rollback(p, "error")

Commit(p) ==
  /\ pc[p] = "running" /\ Done(p)
  /\ Answer(p) # Absent
  /\ Readers(p) = {}
  /\ db' = [s \in Slots |-> IF s \in held[p] THEN latest[s] ELSE db[s]]
  /\ UNCHANGED latest
  /\ Finish(p, Result("ok", Answer(p)))

\* The database refuses a statement or the commit: SQLite when another
\* transaction is in the way (it is not configured to wait), any of them for a
\* failed connection or a full disk.
Busy(p) ==
  /\ pc[p] = "running"
  /\ Isolation = "serializable"
  /\ IF Done(p) THEN Readers(p) # {}
     ELSE Current(p).do \notin {"ensureHas", "ensureDoesntHave", "select", "selectRows", "unknown"}
          /\ Writers(p, {}) # {}
  /\ Rollback(p, "error")

Fail(p) == pc[p] = "running" /\ Rollback(p, "error")

Return(p) ==
  /\ pc[p] = "returned"
  /\ pc' = [pc EXCEPT ![p] = "idle"]
  /\ call' = [call EXCEPT ![p] = Nil]
  /\ result' = [result EXCEPT ![p] = Nil]
  /\ UNCHANGED <<db, latest, txVars, conns>>

Statement(p) ==
  \/ EnsureHasRecord(p) \/ EnsureDoesntHaveRecord(p)
  \/ InsertMain(p) \/ InsertChildren(p) \/ UpdateMain(p) \/ DeleteChildren(p)
  \/ DeleteMain(p) \/ ClearTable(p)
  \/ SelectMain(p) \/ SelectChildren(p) \/ ReadUnknown(p)
  \/ NotOne(p) \/ Commit(p) \/ Busy(p)

Next ==
  \/ Expire
  \/ \E p \in Callers :
       Invoke(p) \/ Reject(p) \/ Begin(p) \/ Statement(p) \/ Fail(p) \/ Return(p)

\* Goroutines run; the pool and the locks of a database are queues, so that one
\* who waits and keeps getting a chance gets it.
Fairness ==
  \A p \in Callers :
    /\ WF_vars(Reject(p) \/ Return(p))
    /\ SF_vars(Begin(p))
    /\ SF_vars(Statement(p))

Spec == Init /\ [][Next]_vars /\ Fairness

-----------------------------------------------------------------------------
(* Properties.                                                             *)

\* Type correctness of the database, the pool and the open transactions.
TypeOK ==
  /\ db \in [Slots -> Stored]
  /\ latest \in [Slots -> Stored]
  /\ held \in [Callers -> SUBSET Slots]
  /\ snap \in [Callers -> [Slots -> Stored] \cup {Nil}]
  /\ conns \in [Conns -> [open : BOOLEAN, fk : BOOLEAN, user : Callers \cup {Free}]]
  /\ pc \in [Callers -> {"idle", "called", "running", "returned"}]
  /\ step \in [Callers -> Nat \ {0}]
  /\ call \in [Callers -> Requests \cup {Nil}]
  /\ buf \in [Callers -> [objs : [IDs -> Stored], first : IDs \cup {Nil}]]

\* No path out of a method keeps a transaction open, panics included: a caller
\* has a connection exactly while it is inside a transaction, and then one.
ConnectionsReturned ==
  \A p \in Callers :
    Cardinality({c \in Conns : conns[c].user = p}) = IF pc[p] = "running" THEN 1 ELSE 0

\* What a transaction has written is seen by no other until it commits, and
\* nothing of it is left when it has rolled back.
UncommittedIsPrivate ==
  /\ \A p \in Callers : pc[p] # "running" => held[p] = {}
  /\ \A p, q \in Callers : p # q => held[p] \cap held[q] = {}
  /\ \A s \in Slots : latest[s] # db[s] => \E p \in Callers : s \in held[p]

\* "minus tables automatically cleared by cascade" (sqlbackend.go): Delete and
\* Clear only delete from the main tables, and no child row outlives its row.
NoOrphans == \A s \in Slots : db[s].row = Absent => db[s] = Nothing

Children(ty) ==
  CASE ty = "Users" -> {"Emails", "Enrolments"}
    [] ty = "StudentGroups" -> {"StudentMemberships"}
    [] ty = "SchoolUnits" -> {"SchoolTypes"}
    [] ty = "Activities" -> {"ActivityTeachers", "ActivityGroups"}
    [] OTHER -> {}

\* What is stored of a payload.
Content(ty, d) ==
  [row |-> RowOf[d],
   sub |-> [t \in ChildTables |-> IF t \in Children(ty) THEN ItemsOf[d][t] ELSE {}]]

Whole(t, ty, id, r) ==
  \E c \in Requests :
    /\ c.op \in {"create", "update"}
    /\ c.tenant = t /\ c.type = ty /\ c.body.id = id
    /\ r = Content(ty, c.body.data)

\* Creators and mutators write a resource in up to five statements, whose order
\* with those of another transaction is not fixed: what is committed of it is
\* always what one request said, rows of all its tables included.
ResourcesAreWhole ==
  \A s \in Slots : db[s].row # Absent => Whole(s[1], s[2], s[3], db[s])

\* Readers collect an object from up to three SELECTs: each object they return
\* is what one request said of it ("Emails is the user's email addresses",
\* types.go), and never a mixture of two resources or of two versions of one.
ReadsAreWhole ==
  \A p \in Callers :
    pc[p] = "returned" /\ result[p].kind = "ok" =>
      /\ call[p].op = "get" =>
           Whole(call[p].tenant, call[p].type, call[p].id, result[p].val)
      /\ call[p].op = "list" =>
           \A id \in IDs : result[p].val[id] # Absent =>
             Whole(call[p].tenant, call[p].type, id, result[p].val[id])

\* A get or a list never panics on what is stored.
ReadsDoNotPanic ==
  \A p \in Callers :
    pc[p] = "returned" /\ call[p].op \in {"get", "list"} => result[p].kind # "panic"

\* Every call returns, however many goroutines share the connections.
EveryCallReturns == \A p \in Callers : pc[p] = "called" ~> pc[p] = "returned"

-----------------------------------------------------------------------------
(* With serializable transactions, the backend implements SQLStore.        *)

Abstract(c) == IF c = Nil THEN Nil ELSE [c EXCEPT !.body.data = Content(c.type, @)]

AbstractCalls == [p \in Callers |-> Abstract(call[p])]

Statuses ==
  [p \in Callers |->
     IF pc[p] = "idle" THEN "idle" ELSE IF pc[p] = "returned" THEN "done" ELSE "pending"]

Results ==
  [p \in Callers |->
     IF pc[p] = "returned" /\ call[p].op \in {"create", "update"} /\ result[p].kind = "ok"
     THEN Result("ok", Content(call[p].type, result[p].val))
     ELSE result[p]]

Store == INSTANCE SQLStore WITH
  Data <- {r \in Stored : r.row # Absent},
  Requests <- {Abstract(c) : c \in Requests},
  store <- db,
  call <- AbstractCalls,
  status <- Statuses,
  result <- Results

\* Each call is atomic, on connections with and without foreign keys, and what it
\* does and answers is a matter of what is stored at one moment: a create conflicts
\* exactly with what exists, an update that answers has replaced all child rows,
\* a list shows one moment and panics on nothing but child rows without any
\* object, and a failing call has no effect.
ImplementsStore == Store!Spec
=============================================================================
