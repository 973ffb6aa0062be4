-------------------------- MODULE SQLRefinementProofs --------------------------
(***************************************************************************)
(* SQLBackend implements SQLStore where transactions are serializable,     *)
(* whether connections enforce foreign keys or not: a call takes effect    *)
(* when its transaction commits, or is rolled back.                        *)
(***************************************************************************)
EXTENDS SQLRowsProofs

USE DEF Result, Store!Result
-----------------------------------------------------------------------------
(* The inductive invariant.                                                *)

Serial == Isolation = "serializable"

ClearOf(t) == Stmt("clear", t)

\* What is under the key s for p: as there is one writer at a time, what it has
\* not locked itself is what is committed.
Own(p, s) == IF s \in held[p] THEN latest[s] ELSE db[s]

\* What its check has found stays true until the transaction ends.
Found(p) ==
  /\ call[p].op = "create" => db[BodyKey(p)].row = Absent
  /\ call[p].op \in {"update", "delete", "get"} => db[UrlKey(p)].row # Absent

\* r is what a create, or an update, has so far made of d,
Creating(p, r, d) ==
  /\ r.row = IF step[p] > 2 THEN Row(p) ELSE d.row
  /\ \A t \in ChildTables :
       r.sub[t] = IF Ran(p, InsertRows(t)) THEN d.sub[t] \cup Sub(p, t) ELSE d.sub[t]

Updating(p, r, d) ==
  /\ r.row = IF step[p] > 2 /\ d.row # Absent THEN Row(p) ELSE d.row
  /\ \A t \in ChildTables :
       r.sub[t] = IF Ran(p, InsertRows(t)) THEN Sub(p, t)
                  ELSE IF Ran(p, DeleteRows(t)) THEN {} ELSE d.sub[t]

\* and all that a transaction has made of what is committed.
Makes(p, s, r, d) ==
  /\ call[p].op = "create" => IF s = BodyKey(p) THEN Creating(p, r, d) ELSE r = d
  /\ call[p].op = "update" => IF s = BodyKey(p) THEN Updating(p, r, d) ELSE r = d
  /\ call[p].op = "delete" =>
       r = IF s = UrlKey(p) /\ step[p] > 2 THEN Deleted(p, d) ELSE d
  /\ call[p].op = "clear" =>
       r = IF s[1] = call[p].tenant /\ Ran(p, ClearOf(s[2])) THEN Deleted(p, d) ELSE d
  /\ call[p].op \in {"get", "list"} => r = d

Made(p) == \A s \in Slots : Makes(p, s, Own(p, s), db[s])

\* Child rows without a row that a reader comes across.
LostSub(p, t) == UNION {db[s].sub[t] : s \in {x \in Scope(call[p]) : db[x].row = Absent}}

\* A reader has of each object what is committed in the tables it has read, and
\* the first one has the lost child rows too.
Gathers(p, id) ==
  /\ buf[p].objs[id].row =
       IF Slot(p, id) \in Scope(call[p]) THEN db[Slot(p, id)].row ELSE Absent
  /\ \A t \in ChildTables : buf[p].objs[id].sub[t] =
       IF Ran(p, SelectRows(t))
       THEN (IF buf[p].objs[id].row # Absent THEN db[Slot(p, id)].sub[t] ELSE {})
              \cup (IF id = buf[p].first THEN LostSub(p, t) ELSE {})
       ELSE {}

\* Without any object, it has not come across child rows.
GathersNothing(p) ==
  \A s \in Scope(call[p]) :
    /\ db[s].row = Absent
    /\ \A t \in ChildTables : Ran(p, SelectRows(t)) => db[s].sub[t] = {}

Gathered(p) ==
  call[p].op \in {"get", "list"} /\ step[p] > First(call[p]) =>
    /\ call[p].type \in mainTable
    /\ \A id \in IDs : Gathers(p, id)
    /\ buf[p].first = Nil => GathersNothing(p)
    /\ buf[p].first # Nil => /\ Slot(p, buf[p].first) \in Scope(call[p])
                             /\ db[Slot(p, buf[p].first)].row # Absent

InProgress(p) ==
  /\ step[p] = 1 => held[p] = {}
  /\ step[p] > 1 => Found(p) /\ Made(p) /\ Gathered(p)

AllMade == \A p \in Callers : pc[p] = "running" => InProgress(p)

\* Nothing is stored of a type without a table, and no child rows in the tables
\* of other types.
ShapedRow(s, r) ==
  /\ s[2] \notin mainTable => r = Nothing
  /\ \A t \in ChildTables : t \notin Children(s[2]) => r.sub[t] = {}

Shaped == \A s \in Slots : ShapedRow(s, db[s])

AtomInv == Serial /\ Shaped /\ AllMade

LEMMA AtomInit == Serial /\ Init => AtomInv
<1>1. Init => Shaped
  BY DEF Init, Shaped, ShapedRow, Nothing
<1>2. Init => AllMade
  BY DEF Init, AllMade
<1> QED
  BY <1>1, <1>2 DEF AtomInv

\* The first statement of a call is its check.
LEMMA CheckIsFirst ==
  ASSUME Inv, NEW p \in Callers, pc[p] = "running", ~Done(p)
  PROVE  /\ step[p] = 1 /\ call[p].op = "create" => Current(p).do = "ensureDoesntHave"
         /\ step[p] = 1 /\ call[p].op \in {"update", "delete", "get"} =>
              Current(p).do = "ensureHas"
<1>1. call[p] \in Calls /\ Check(call[p]) = "ok"
  BY Running
<1>2. call[p].op = "create" => Program(call[p])[1].do = "ensureDoesntHave"
  BY <1>1, CreateOrder
<1>3. call[p].op = "update" => Program(call[p])[1].do = "ensureHas"
  BY <1>1, UpdateOrder
<1>4. call[p].op = "get" => Program(call[p])[1].do = "ensureHas"
  BY <1>1, ReadOrder
<1>5. call[p].op = "delete" => Program(call[p])[1].do = "ensureHas"
  <2> DEFINE seq == <<Stmt("delete", call[p].type)>>
  <2>1. call[p].op = "delete" => Checks(call[p], Stmt("ensureHas", call[p].type), seq)
    BY <1>1, Programs
  <2> HIDE DEF seq
  <2> QED
    BY <2>1 DEF Checks, Stmt
<1> QED
  BY <1>2, <1>3, <1>4, <1>5 DEF Current

\* A delete has two statements,
LEMMA WhereDeleting ==
  ASSUME Inv, NEW p \in Callers, pc[p] = "running", call[p].op = "delete"
  PROVE  /\ ~Done(p) => step[p] \in {1, 2}
         /\ ~Done(p) /\ Current(p).do = "ensureHas" => step[p] = 1
         /\ ~Done(p) /\ Current(p).do = "delete" => step[p] = 2
         /\ Done(p) => step[p] > 2
<1>1. call[p] \in Calls /\ Check(call[p]) = "ok" /\ step[p] \in Nat \ {0}
  BY Running
<1> DEFINE seq == <<Stmt("delete", call[p].type)>>
<1>2. Checks(call[p], Stmt("ensureHas", call[p].type), seq)
  BY <1>1, Programs
<1>3. Len(seq) = 1 /\ seq[1].do = "delete"
  BY DEF Stmt
<1> HIDE DEF seq
<1>4. /\ Len(Program(call[p])) = 2
      /\ Program(call[p])[1].do = "ensureHas"
      /\ Program(call[p])[2].do = "delete"
  BY <1>2, <1>3 DEF Checks, Stmt
<1> QED
  BY <1>1, <1>4 DEF Done, Current

\* and a clear has one for each table.
LEMMA WhereClearing ==
  ASSUME Inv, NEW p \in Callers, pc[p] = "running", call[p].op = "clear"
  PROVE  /\ ~Done(p) => /\ Current(p) = ClearOf(Current(p).table)
                        /\ Current(p).do = "clear"
         /\ Done(p) => \A t \in mainTable : Ran(p, ClearOf(t))
         /\ step[p] = 1 => \A st : ~Ran(p, st)
<1>1. call[p] \in Calls /\ Check(call[p]) = "ok" /\ step[p] \in Nat \ {0}
  BY Running
<1>2. /\ Len(Program(call[p])) = 7
      /\ \A i \in 1 .. 7 : Program(call[p])[i] = ClearOf(tablesForClearTenant[i])
  BY <1>1, Programs DEF ClearOf
<1>3. ~Done(p) => step[p] \in 1 .. 7
  BY <1>1, <1>2 DEF Done
<1>4. ASSUME ~Done(p)
      PROVE  Current(p) = ClearOf(Current(p).table) /\ Current(p).do = "clear"
  <2>1. Current(p) = ClearOf(tablesForClearTenant[step[p]])
    BY <1>2, <1>3, <1>4 DEF Current
  <2> QED
    BY <2>1 DEF ClearOf, Stmt
<1>5. ASSUME Done(p), NEW t \in mainTable
      PROVE  Ran(p, ClearOf(t))
  <2>1. PICK i \in 1 .. 7 : tablesForClearTenant[i] = t
    <3> DEFINE ts == tablesForClearTenant
    <3>1. /\ ts[1] = "Users" /\ ts[2] = "StudentGroups" /\ ts[3] = "Organisations"
          /\ ts[4] = "SchoolUnitGroups" /\ ts[5] = "SchoolUnits"
          /\ ts[6] = "Employments" /\ ts[7] = "Activities"
      BY DEF tablesForClearTenant
    <3>2. 1 \in 1 .. 7 /\ 2 \in 1 .. 7 /\ 3 \in 1 .. 7 /\ 4 \in 1 .. 7 /\ 5 \in 1 .. 7
          /\ 6 \in 1 .. 7 /\ 7 \in 1 .. 7
      OBVIOUS
    <3> HIDE DEF ts
    <3>3. \E i \in 1 .. 7 : ts[i] = t
      BY <3>1, <3>2 DEF mainTable
    <3> QED
      BY <3>3 DEF ts
  <2>2. i < step[p] /\ i \in 1 .. Len(Program(call[p]))
    BY <1>1, <1>2, <1>5 DEF Done
  <2> QED
    BY <1>2, <2>1, <2>2 DEF Ran, Before
<1>6. ASSUME step[p] = 1, NEW st
      PROVE  ~Ran(p, st)
  BY <1>6 DEF Ran, Before
<1> QED
  BY <1>4, <1>5, <1>6

LEMMA OwnType ==
  ASSUME Inv, NEW p \in Callers, NEW s \in Slots
  PROVE  Own(p, s) \in Stored /\ db[s] \in Stored /\ latest[s] \in Stored
BY DEF Own, Inv, TypeOK

\* Who writes is alone.
LEMMA OwnLatest ==
  ASSUME Inv, Serial, NEW p \in Callers, NEW ks, Writers(p, ks) = {}, NEW s \in Slots
  PROVE  latest[s] = Own(p, s)
<1>1. \A q \in Callers \ {p} : held[q] = {}
  BY DEF Writers, Serial
<1> QED
  BY <1>1 DEF Own, Inv, UncommittedIsPrivate

\* What a statement about one key makes,
LEMMA OwnStores ==
  ASSUME Inv, Serial, NEW p \in Callers, NEW k, NEW r, Stores(p, k, r)
  PROVE  /\ latest[k] = Own(p, k) /\ db' = db
         /\ \A s \in Slots : Own(p, s)' = IF s = k THEN r ELSE Own(p, s)
<1>1. /\ k \in Slots /\ Writers(p, {k}) = {} /\ db' = db
      /\ latest' = [latest EXCEPT ![k] = r]
      /\ held'[p] = held[p] \cup IF latest[k] # Nothing \/ r # Nothing THEN {k} ELSE {}
  BY DEF Stores, Moves, Advance, Serial
<1>2. latest[k] = Own(p, k)
  BY <1>1, OwnLatest
<1>3. latest \in [Slots -> Stored]
  BY DEF Inv, TypeOK
<1>4. ASSUME NEW s \in Slots, s # k
      PROVE  Own(p, s)' = Own(p, s)
  BY <1>1, <1>3, <1>4 DEF Own
<1>5. Own(p, k)' = r
  <2>1. CASE k \in held'[p]
    BY <1>1, <1>3, <2>1 DEF Own
  <2>2. CASE k \notin held'[p]
    BY <1>1, <1>2, <2>2 DEF Own
  <2> QED
    BY <2>1, <2>2
<1> QED
  BY <1>1, <1>2, <1>4, <1>5

\* and one that writes nothing.
LEMMA OwnStays ==
  ASSUME Inv, NEW p \in Callers, Moves(p), UNCHANGED <<latest, held>>
  PROVE  db' = db /\ \A s \in Slots : Own(p, s)' = Own(p, s)
BY DEF Own, Moves, Advance

LEMMA KeysMove ==
  ASSUME Inv, NEW p \in Callers, Moves(p)
  PROVE  /\ step'[p] = step[p] + 1 /\ call' = call /\ step[p] \in Nat \ {0}
         /\ BodyKey(p)' = BodyKey(p) /\ UrlKey(p)' = UrlKey(p) /\ Row(p)' = Row(p)
         /\ \A t : Sub(p, t)' = Sub(p, t)
         /\ \A s : Deleted(p, s)' = Deleted(p, s)
<1>1. conns' = conns /\ pc[p] = "running"
  BY DEF Moves, Advance
<1> QED
  BY <1>1, RanMoves, Running DEF UrlKey, Deleted, ForeignKeys

\* At its beginning a transaction has made nothing.
LEMMA MakesNothing ==
  ASSUME Inv, NEW p \in Callers, pc[p] = "running", step[p] = 1, held[p] = {}
  PROVE  Made(p)
<1>1. \A s \in Slots : Own(p, s) = db[s]
  BY DEF Own
<1>2. \A st : ~Ran(p, st)
  BY DEF Ran, Before
<1> QED
  BY <1>1, <1>2 DEF Made, Makes, Creating, Updating
-----------------------------------------------------------------------------
(* A transaction that goes on.                                             *)

\* The statements that let a transaction go on.
Goes(p) ==
  /\ Moves(p)
  /\ \/ ~Rollback(p, "error") /\ InsertMain(p)
     \/ ~Rollback(p, "error") /\ InsertChildren(p)
     \/ UpdateMain(p) \/ DeleteChildren(p) \/ DeleteMain(p) \/ ClearTable(p)
     \/ EnsureHasRecord(p) \/ EnsureDoesntHaveRecord(p)
     \/ SelectMain(p) \/ SelectChildren(p)

\* Which of them it is, and what it stores.
LEMMA GoesCases ==
  ASSUME Inv, NEW p \in Callers, Goes(p)
  PROVE  /\ pc[p] = "running" /\ ~Done(p) /\ Moves(p)
         /\ Current(p).do = "insert" =>
              Stores(p, BodyKey(p), [latest[BodyKey(p)] EXCEPT !.row = Row(p)])
         /\ Current(p).do = "insertRows" =>
              \/ Sub(p, Current(p).table) = {} /\ UNCHANGED <<latest, held>>
              \/ Stores(p, BodyKey(p), [latest[BodyKey(p)] EXCEPT
                                          !.sub[Current(p).table] = @ \cup Sub(p, Current(p).table)])
         /\ Current(p).do = "update" =>
              Stores(p, BodyKey(p), IF latest[BodyKey(p)].row = Absent THEN latest[BodyKey(p)]
                                    ELSE [latest[BodyKey(p)] EXCEPT !.row = Row(p)])
         /\ Current(p).do = "deleteRows" =>
              Stores(p, BodyKey(p), [latest[BodyKey(p)] EXCEPT !.sub[Current(p).table] = {}])
         /\ Current(p).do = "delete" => Stores(p, UrlKey(p), Deleted(p, latest[UrlKey(p)]))
         /\ Current(p).do = "clear" => ClearTable(p)
         /\ Current(p).do = "select" => SelectMain(p)
         /\ Current(p).do = "selectRows" => SelectChildren(p)
         /\ Current(p).do = "ensureHas" => EnsureHasRecord(p)
         /\ Current(p).do = "ensureDoesntHave" => EnsureDoesntHaveRecord(p)
         /\ Current(p).do \in {"ensureHas", "ensureDoesntHave", "select", "selectRows"} =>
              UNCHANGED <<latest, held>>
<1>1. pc[p] = "running" /\ ~Done(p) /\ Moves(p)
  BY DEF Goes, Moves
<1>2. step'[p] = step[p] + 1 /\ step[p] \in Nat \ {0}
  BY <1>1, KeysMove
<1>3. ASSUME NEW kind
      PROVE  ~Rollback(p, kind)
  <2>1. step \in [Callers -> Nat \ {0}]
    BY DEF Inv, TypeOK
  <2>2. Rollback(p, kind) => step' = [step EXCEPT ![p] = 1]
    BY DEF Rollback, Finish
  <2> QED
    BY <1>2, <2>1, <2>2
<1> DEFINE do == Current(p).do
<1>4. /\ do = "insert" => InsertMain(p)
      /\ do = "insertRows" => InsertChildren(p)
      /\ do = "update" => UpdateMain(p)
      /\ do = "deleteRows" => DeleteChildren(p)
      /\ do = "delete" => DeleteMain(p)
      /\ do = "clear" => ClearTable(p)
      /\ do = "select" => SelectMain(p)
      /\ do = "selectRows" => SelectChildren(p)
      /\ do = "ensureHas" => EnsureHasRecord(p)
      /\ do = "ensureDoesntHave" => EnsureDoesntHaveRecord(p)
  <2>1. /\ InsertMain(p) => do = "insert"
        /\ InsertChildren(p) => do = "insertRows"
        /\ UpdateMain(p) => do = "update"
        /\ DeleteChildren(p) => do = "deleteRows"
        /\ DeleteMain(p) => do = "delete"
        /\ ClearTable(p) => do = "clear"
        /\ SelectMain(p) => do = "select"
        /\ SelectChildren(p) => do = "selectRows"
        /\ EnsureHasRecord(p) => do = "ensureHas"
        /\ EnsureDoesntHaveRecord(p) => do = "ensureDoesntHave"
    BY DEF InsertMain, InsertChildren, UpdateMain, DeleteChildren, DeleteMain, ClearTable,
           SelectMain, SelectChildren, EnsureHasRecord, EnsureDoesntHaveRecord, Executing
  <2> HIDE DEF do
  <2> QED
    BY <2>1 DEF Goes
<1> HIDE DEF do
<1>5. do \in {"ensureHas", "ensureDoesntHave", "select", "selectRows"} =>
        UNCHANGED <<latest, held>>
  BY <1>3, <1>4, OtherStatements
<1>6. do = "insertRows" =>
        \/ Sub(p, Current(p).table) = {} /\ UNCHANGED <<latest, held>>
        \/ Stores(p, BodyKey(p), [latest[BodyKey(p)] EXCEPT
                                    !.sub[Current(p).table] = @ \cup Sub(p, Current(p).table)])
  BY <1>3, <1>4, InsertChildrenStores
<1>7. do = "insert" => Stores(p, BodyKey(p), [latest[BodyKey(p)] EXCEPT !.row = Row(p)])
  BY <1>3, <1>4, InsertMainStores
<1>8. /\ do = "update" =>
           Stores(p, BodyKey(p), IF latest[BodyKey(p)].row = Absent THEN latest[BodyKey(p)]
                                 ELSE [latest[BodyKey(p)] EXCEPT !.row = Row(p)])
      /\ do = "deleteRows" =>
           Stores(p, BodyKey(p), [latest[BodyKey(p)] EXCEPT !.sub[Current(p).table] = {}])
      /\ do = "delete" => Stores(p, UrlKey(p), Deleted(p, latest[UrlKey(p)]))
  BY <1>4, UpdateMainStores, DeleteChildrenStores, DeleteMainStores
<1> QED
  BY <1>1, <1>4, <1>5, <1>6, <1>7, <1>8 DEF do

LEMMA FoundGoes ==
  ASSUME Inv, Serial, NEW p \in Callers, Goes(p), step[p] > 1 => Found(p)
  PROVE  Found(p)'
<1>1. pc[p] = "running" /\ ~Done(p) /\ Moves(p) /\ db' = db /\ step[p] \in Nat \ {0}
  BY Running DEF Goes, Moves, Advance
<1>2. /\ step'[p] = step[p] + 1 /\ call' = call
      /\ BodyKey(p)' = BodyKey(p) /\ UrlKey(p)' = UrlKey(p)
  BY <1>1, KeysMove
<1>3. CASE step[p] > 1
  BY <1>1, <1>2, <1>3 DEF Found
<1>4. CASE step[p] = 1
  <2>1. ~Rollback(p, "missing") /\ ~Rollback(p, "conflict")
    BY <1>1, <1>2, <1>4 DEF Rollback, Finish, Inv, TypeOK
  <2>2. View(p) = db
    BY DEF View, Serial
  <2>3. CASE call[p].op = "create"
    <3>1. Current(p).do = "ensureDoesntHave"
      BY <1>1, <1>4, <2>3, CheckIsFirst
    <3>2. EnsureDoesntHaveRecord(p)
      BY <3>1, GoesCases
    <3>3. Key(call[p], Current(p)) = BodyKey(p)
      BY <3>1 DEF Key, BodyKey
    <3>4. db[BodyKey(p)].row = Absent
      BY <2>1, <2>2, <3>2, <3>3 DEF EnsureDoesntHaveRecord
    <3> QED
      BY <1>1, <1>2, <2>3, <3>4 DEF Found
  <2>4. CASE call[p].op \in {"update", "delete", "get"}
    <3>1. Current(p).do = "ensureHas"
      BY <1>1, <1>4, <2>4, CheckIsFirst
    <3>2. EnsureHasRecord(p)
      BY <3>1, GoesCases
    <3>3. Key(call[p], Current(p)) = UrlKey(p)
      BY <3>1 DEF Key, UrlKey
    <3>4. db[UrlKey(p)].row # Absent
      BY <2>1, <2>2, <3>2, <3>3 DEF EnsureHasRecord
    <3> QED
      BY <1>1, <1>2, <2>4, <3>4 DEF Found
  <2> QED
    BY <1>2, <2>3, <2>4 DEF Found
<1> QED
  BY <1>1, <1>3, <1>4

\* Changes of one field of what is stored.
LEMMA StoredFields ==
  ASSUME NEW r \in Stored, NEW t \in ChildTables
  PROVE  /\ \A v : /\ [r EXCEPT !.row = v].row = v
                   /\ [r EXCEPT !.row = v].sub = r.sub
         /\ \A v : /\ [r EXCEPT !.sub[t] = v].row = r.row
                   /\ [r EXCEPT !.sub[t] = v].sub[t] = v
                   /\ \A u \in ChildTables \ {t} : [r EXCEPT !.sub[t] = v].sub[u] = r.sub[u]
<1> USE DEF Stored
<1>1. r.sub \in [ChildTables -> SUBSET Items] /\ r = [row |-> r.row, sub |-> r.sub]
  OBVIOUS
<1>2. ASSUME NEW v
      PROVE  /\ [r EXCEPT !.row = v].row = v
             /\ [r EXCEPT !.row = v].sub = r.sub
  BY <1>1
<1>3. ASSUME NEW v
      PROVE  /\ [r EXCEPT !.sub[t] = v].row = r.row
             /\ [r EXCEPT !.sub[t] = v].sub[t] = v
             /\ \A u \in ChildTables \ {t} : [r EXCEPT !.sub[t] = v].sub[u] = r.sub[u]
  <2>1. [r EXCEPT !.sub[t] = v].sub = [r.sub EXCEPT ![t] = v]
    BY <1>1
  <2>2. [r EXCEPT !.sub[t] = v].row = r.row
    BY <1>1
  <2>3. /\ [r.sub EXCEPT ![t] = v][t] = v
        /\ \A u \in ChildTables \ {t} : [r.sub EXCEPT ![t] = v][u] = r.sub[u]
    BY <1>1
  <2> QED
    BY <2>1, <2>2, <2>3
<1> QED
  BY <1>2, <1>3

LEMMA CreateGoes ==
  ASSUME Inv, Serial, NEW p \in Callers, Goes(p), call[p].op = "create", Made(p)
  PROVE  Made(p)'
<1> DEFINE k == BodyKey(p)
           t == Current(p).table
           do == Current(p).do
<1>1. pc[p] = "running" /\ ~Done(p) /\ Moves(p) /\ db' = db
  BY DEF Goes, Moves, Advance
<1>2. /\ step'[p] = step[p] + 1 /\ call' = call /\ step[p] \in Nat \ {0}
      /\ k' = k /\ Row(p)' = Row(p) /\ \A u : Sub(p, u)' = Sub(p, u)
  BY <1>1, KeysMove
<1>3. \A st : Ran(p, st)' <=> Ran(p, st) \/ st = Current(p)
  BY <1>1, RanMoves
<1>4. do \in {"ensureDoesntHave", "insert", "insertRows"}
  <2>1. Allowed(call[p], Current(p))
    BY <1>1, Running
  <2> QED
    BY <2>1 DEF Allowed
<1>5. /\ do = "ensureDoesntHave" => step[p] = 1
      /\ do = "insert" => step[p] = 2
      /\ do = "insertRows" => /\ step[p] > 2 /\ ~Ran(p, InsertRows(t))
                              /\ Current(p) = InsertRows(t)
  BY <1>1, WhereWriting
<1>6. \A s \in Slots : IF s = k THEN Creating(p, Own(p, s), db[s]) ELSE Own(p, s) = db[s]
  BY DEF Made, Makes
<1>7. SUFFICES ASSUME NEW s \in Slots
      PROVE  /\ s # k => Own(p, s)' = Own(p, s)
             /\ s = k => /\ Own(p, s)'.row = IF step[p] > 1 THEN Row(p) ELSE db[s].row
                         /\ \A u \in ChildTables : Own(p, s)'.sub[u] =
                              IF Ran(p, InsertRows(u)) \/ InsertRows(u) = Current(p)
                              THEN db[s].sub[u] \cup Sub(p, u) ELSE db[s].sub[u]
  <2>1. step[p] + 1 > 2 <=> step[p] > 1
    BY <1>2
  <2> HIDE DEF k
  <2>2. ASSUME NEW s \in Slots
        PROVE  IF s = k THEN Creating(p, Own(p, s), db[s])' ELSE Own(p, s)' = db[s]
    <3>1. CASE s # k
      BY <1>1, <1>6, <1>7, <3>1
    <3>2. CASE s = k
      <4> DEFINE n == Own(p, s)'
      <4>1. /\ n.row = IF step[p] > 1 THEN Row(p) ELSE db[s].row
            /\ \A u \in ChildTables : n.sub[u] =
                 IF Ran(p, InsertRows(u)) \/ InsertRows(u) = Current(p)
                 THEN db[s].sub[u] \cup Sub(p, u) ELSE db[s].sub[u]
        BY <1>7, <3>2
      <4>2. \A u \in ChildTables :
              /\ Sub(p, u)' = Sub(p, u)
              /\ Ran(p, InsertRows(u))' <=> Ran(p, InsertRows(u)) \/ InsertRows(u) = Current(p)
        BY <1>2, <1>3
      <4>3. (step'[p] > 2 <=> step[p] > 1) /\ Row(p)' = Row(p) /\ db'[s] = db[s]
        BY <1>1, <1>2, <2>1
      <4> HIDE DEF n
      <4>4. /\ n.row = IF step'[p] > 2 THEN Row(p)' ELSE db'[s].row
            /\ \A u \in ChildTables : n.sub[u] =
                 IF Ran(p, InsertRows(u))'
                 THEN db'[s].sub[u] \cup Sub(p, u)' ELSE db'[s].sub[u]
        BY <4>1, <4>2, <4>3
      <4>5. Creating(p, Own(p, s), db[s])'
        BY <4>4 DEF Creating, n
      <4> QED
        BY <3>2, <4>5
    <3> QED
      BY <3>1, <3>2
  <2> QED
    BY <1>1, <1>2, <2>2 DEF Made, Makes, k
<1> DEFINE r == Own(p, s)
           n == Own(p, s)'
           d == db[s]
<1> HIDE DEF k
<1>8. r \in Stored
  BY OwnType
<1>9. CASE do = "ensureDoesntHave"
  <2>1. n = r
    BY <1>1, <1>9, GoesCases, OwnStays
  <2>2. \A u : InsertRows(u) # Current(p)
    BY <1>9 DEF InsertRows, Stmt
  <2>3. s = k => /\ r.row = d.row
                 /\ \A u \in ChildTables : r.sub[u] = IF Ran(p, InsertRows(u))
                      THEN d.sub[u] \cup Sub(p, u) ELSE d.sub[u]
    <3>1. ~(step[p] > 2)
      BY <1>5, <1>9
    <3>2. s = k => Creating(p, r, d)
      BY <1>6
    <3> HIDE DEF r, d
    <3> QED
      BY <3>1, <3>2 DEF Creating
  <2> HIDE DEF r, n, d
  <2> QED
    BY <1>2, <1>5, <1>9, <2>1, <2>2, <2>3 DEF n, r, d
<1>10. CASE do = "insert"
  <2>1. Stores(p, k, [latest[k] EXCEPT !.row = Row(p)])
    BY <1>10, GoesCases DEF k
  <2>2. latest[k] = Own(p, k) /\ n = IF s = k THEN [latest[k] EXCEPT !.row = Row(p)] ELSE r
    BY <2>1, OwnStores
  <2>3. \A u : InsertRows(u) # Current(p)
    BY <1>10 DEF InsertRows, Stmt
  <2>4. s = k => n.row = Row(p) /\ n.sub = r.sub
    BY <1>8, <2>2, StoredFields DEF ChildTables
  <2>5. s = k => \A u \in ChildTables : r.sub[u] = IF Ran(p, InsertRows(u))
                      THEN d.sub[u] \cup Sub(p, u) ELSE d.sub[u]
    BY <1>6 DEF Creating
  <2> HIDE DEF r, n, d
  <2> QED
    BY <1>2, <1>5, <1>10, <2>2, <2>3, <2>4, <2>5 DEF n, r, d
<1>11. CASE do = "insertRows"
  <2>1. t \in ChildTables
    BY <1>1, <1>11, Keys
  <2>2. \A u : InsertRows(u) = Current(p) <=> u = t
    BY <1>5, <1>11 DEF InsertRows, Stmt
  <2>3. \/ Sub(p, t) = {} /\ n = r
        \/ /\ latest[k] = Own(p, k)
           /\ n = IF s = k THEN [latest[k] EXCEPT !.sub[t] = latest[k].sub[t] \cup Sub(p, t)] ELSE r
    <3>1. CASE UNCHANGED <<latest, held>> /\ Sub(p, t) = {}
      BY <1>1, <3>1, OwnStays
    <3>2. CASE Stores(p, k, [latest[k] EXCEPT !.sub[t] = @ \cup Sub(p, t)])
      <4>1. PICK x : x = [latest[k] EXCEPT !.sub[t] = @ \cup Sub(p, t)]
        OBVIOUS
      <4>2. latest[k] = Own(p, k) /\ n = IF s = k THEN x ELSE r
        BY <3>2, <4>1, OwnStores
      <4> QED
        BY <4>1, <4>2
    <3> QED
      BY <1>11, <3>1, <3>2, GoesCases DEF k
  <2>4. s = k => /\ n.row = r.row /\ n.sub[t] = r.sub[t] \cup Sub(p, t)
                 /\ \A u \in ChildTables \ {t} : n.sub[u] = r.sub[u]
    <3>1. CASE Sub(p, t) = {} /\ n = r
      BY <3>1
    <3>2. CASE s = k /\ n = [r EXCEPT !.sub[t] = r.sub[t] \cup Sub(p, t)]
      <4>1. PICK v : v = r.sub[t] \cup Sub(p, t)
        OBVIOUS
      <4>2. n = [r EXCEPT !.sub[t] = v]
        BY <3>2, <4>1
      <4> HIDE DEF r, n, t
      <4> QED
        BY <1>8, <2>1, <4>1, <4>2, StoredFields
    <3> QED
      BY <2>3, <3>1, <3>2
  <2>5. s # k => n = r
    BY <2>3
  <2>6. s = k => /\ r.row = Row(p)
                 /\ \A u \in ChildTables : r.sub[u] = IF Ran(p, InsertRows(u))
                      THEN d.sub[u] \cup Sub(p, u) ELSE d.sub[u]
    BY <1>5, <1>6, <1>11 DEF Creating
  <2>7. step[p] > 1 /\ ~Ran(p, InsertRows(t))
    BY <1>2, <1>5, <1>11
  <2> HIDE DEF r, n, d, t
  <2>8. s = k => \A u \in ChildTables : n.sub[u] =
                   IF Ran(p, InsertRows(u)) \/ InsertRows(u) = Current(p)
                   THEN d.sub[u] \cup Sub(p, u) ELSE d.sub[u]
    <3> SUFFICES ASSUME s = k, NEW u \in ChildTables
                 PROVE  n.sub[u] = IF Ran(p, InsertRows(u)) \/ InsertRows(u) = Current(p)
                                   THEN d.sub[u] \cup Sub(p, u) ELSE d.sub[u]
      OBVIOUS
    <3>1. CASE u = t
      <4>1. n.sub[t] = r.sub[t] \cup Sub(p, t)
        BY <2>4
      <4>2. r.sub[t] = d.sub[t]
        BY <2>1, <2>6, <2>7
      <4> QED
        BY <2>2, <3>1, <4>1, <4>2
    <3>2. CASE u # t
      BY <2>2, <2>4, <2>6, <3>2
    <3> QED
      BY <3>1, <3>2
  <2> QED
    BY <2>4, <2>5, <2>6, <2>7, <2>8 DEF n, r, d
<1> QED
  BY <1>4, <1>9, <1>10, <1>11

LEMMA UpdateGoes ==
  ASSUME Inv, Serial, NEW p \in Callers, Goes(p), call[p].op = "update", Made(p)
  PROVE  Made(p)'
<1> DEFINE k == BodyKey(p)
           t == Current(p).table
           do == Current(p).do
<1>1. pc[p] = "running" /\ ~Done(p) /\ Moves(p) /\ db' = db
  BY DEF Goes, Moves, Advance
<1>2. /\ step'[p] = step[p] + 1 /\ call' = call /\ step[p] \in Nat \ {0}
      /\ k' = k /\ Row(p)' = Row(p) /\ \A u : Sub(p, u)' = Sub(p, u)
  BY <1>1, KeysMove
<1>3. \A st : Ran(p, st)' <=> Ran(p, st) \/ st = Current(p)
  BY <1>1, RanMoves
<1>4. do \in {"ensureHas", "update", "deleteRows", "insertRows"}
  <2>1. Allowed(call[p], Current(p))
    BY <1>1, Running
  <2> QED
    BY <2>1 DEF Allowed
<1>5. /\ do = "ensureHas" => step[p] = 1
      /\ do = "update" => step[p] = 2
      /\ do \in {"insertRows", "deleteRows"} => step[p] > 2 /\ ~Ran(p, InsertRows(t))
      /\ do = "deleteRows" => Current(p) = DeleteRows(t)
      /\ do = "insertRows" => Current(p) = InsertRows(t) /\ Ran(p, DeleteRows(t))
  BY <1>1, WhereWriting DEF InsertRows, DeleteRows, Stmt
<1> DEFINE RowBy(d, late) == IF late /\ d.row # Absent THEN Row(p) ELSE d.row
           SubBy(d, u, inserted, deleted) ==
             IF inserted THEN Sub(p, u) ELSE IF deleted THEN {} ELSE d.sub[u]
<1>6. \A s \in Slots : IF s = k THEN Updating(p, Own(p, s), db[s]) ELSE Own(p, s) = db[s]
  BY DEF Made, Makes
<1>7. SUFFICES ASSUME NEW s \in Slots
      PROVE  /\ s # k => Own(p, s)' = Own(p, s)
             /\ s = k => /\ Own(p, s)'.row = RowBy(db[s], step[p] > 1)
                         /\ \A u \in ChildTables : Own(p, s)'.sub[u] =
                              SubBy(db[s], u, Ran(p, InsertRows(u)) \/ InsertRows(u) = Current(p),
                                              Ran(p, DeleteRows(u)) \/ DeleteRows(u) = Current(p))
  <2>1. step[p] + 1 > 2 <=> step[p] > 1
    BY <1>2
  <2> HIDE DEF k
  <2>2. ASSUME NEW s \in Slots
        PROVE  IF s = k THEN Updating(p, Own(p, s), db[s])' ELSE Own(p, s)' = db[s]
    <3>1. CASE s # k
      BY <1>1, <1>6, <1>7, <3>1
    <3>2. CASE s = k
      <4> DEFINE n == Own(p, s)'
      <4>1. /\ n.row = RowBy(db[s], step[p] > 1)
            /\ \A u \in ChildTables : n.sub[u] =
                 SubBy(db[s], u, Ran(p, InsertRows(u)) \/ InsertRows(u) = Current(p),
                                 Ran(p, DeleteRows(u)) \/ DeleteRows(u) = Current(p))
        BY <1>7, <3>2
      <4>2. \A u \in ChildTables :
              /\ Sub(p, u)' = Sub(p, u)
              /\ Ran(p, InsertRows(u))' <=> Ran(p, InsertRows(u)) \/ InsertRows(u) = Current(p)
              /\ Ran(p, DeleteRows(u))' <=> Ran(p, DeleteRows(u)) \/ DeleteRows(u) = Current(p)
        BY <1>2, <1>3
      <4>3. (step'[p] > 2 <=> step[p] > 1) /\ Row(p)' = Row(p) /\ db'[s] = db[s]
        BY <1>1, <1>2, <2>1
      <4> HIDE DEF n
      <4>4. /\ n.row = IF step'[p] > 2 /\ db'[s].row # Absent THEN Row(p)' ELSE db'[s].row
            /\ \A u \in ChildTables : n.sub[u] =
                 IF Ran(p, InsertRows(u))' THEN Sub(p, u)'
                 ELSE IF Ran(p, DeleteRows(u))' THEN {} ELSE db'[s].sub[u]
        BY <4>1, <4>2, <4>3
      <4>5. Updating(p, Own(p, s), db[s])'
        BY <4>4 DEF Updating, n
      <4> QED
        BY <3>2, <4>5
    <3> QED
      BY <3>1, <3>2
  <2> QED
    BY <1>1, <1>2, <2>2 DEF Made, Makes, k
<1> DEFINE r == Own(p, s)
           n == Own(p, s)'
           d == db[s]
<1> HIDE DEF k
<1>8. r \in Stored
  BY OwnType
<1>9. s = k => /\ r.row = RowBy(d, step[p] > 2)
               /\ \A u \in ChildTables : r.sub[u] =
                    SubBy(d, u, Ran(p, InsertRows(u)), Ran(p, DeleteRows(u)))
  BY <1>6 DEF Updating
<1>10. CASE do = "ensureHas"
  <2>1. n = r
    BY <1>1, <1>10, GoesCases, OwnStays
  <2>2. \A u : InsertRows(u) # Current(p) /\ DeleteRows(u) # Current(p)
    BY <1>10 DEF InsertRows, DeleteRows, Stmt
  <2>3. ~(step[p] > 2) /\ ~(step[p] > 1)
    BY <1>5, <1>10
  <2> HIDE DEF r, n, d
  <2> QED
    BY <1>9, <2>1, <2>2, <2>3 DEF n, r, d
<1>11. CASE do = "update"
  <2> DEFINE x == IF latest[k].row = Absent THEN latest[k] ELSE [latest[k] EXCEPT !.row = Row(p)]
  <2>1. Stores(p, k, x)
    BY <1>11, GoesCases DEF k
  <2> HIDE DEF x
  <2>2. latest[k] = Own(p, k) /\ n = IF s = k THEN x ELSE r
    BY <2>1, OwnStores
  <2>3. \A u : InsertRows(u) # Current(p) /\ DeleteRows(u) # Current(p)
    BY <1>11 DEF InsertRows, DeleteRows, Stmt
  <2>4. s = k => n.sub = r.sub /\ n.row = IF r.row = Absent THEN r.row ELSE Row(p)
    BY <1>8, <2>2, StoredFields DEF ChildTables, x
  <2>5. ~(step[p] > 2) /\ step[p] > 1
    BY <1>5, <1>11
  <2> HIDE DEF r, n, d
  <2> QED
    BY <1>9, <2>2, <2>3, <2>4, <2>5 DEF n, r, d
<1>12. CASE do = "deleteRows"
  <2>1. t \in ChildTables
    BY <1>1, <1>12, Keys
  <2>2. \A u : InsertRows(u) # Current(p) /\ (DeleteRows(u) = Current(p) <=> u = t)
    BY <1>5, <1>12 DEF InsertRows, DeleteRows, Stmt
  <2>3. PICK x : x = [latest[k] EXCEPT !.sub[t] = {}]
    OBVIOUS
  <2>4. Stores(p, k, x)
    BY <1>12, <2>3, GoesCases DEF k
  <2>5. latest[k] = Own(p, k) /\ n = IF s = k THEN x ELSE r
    BY <2>4, OwnStores
  <2>6. s = k => /\ n.row = r.row /\ n.sub[t] = {}
                 /\ \A u \in ChildTables \ {t} : n.sub[u] = r.sub[u]
    <3>1. PICK v : v = {}
      OBVIOUS
    <3> SUFFICES ASSUME s = k
                 PROVE  /\ n.row = r.row /\ n.sub[t] = {}
                        /\ \A u \in ChildTables \ {t} : n.sub[u] = r.sub[u]
      OBVIOUS
    <3>2. n = [r EXCEPT !.sub[t] = v]
      BY <2>3, <2>5, <3>1
    <3> HIDE DEF r, n, t
    <3> QED
      BY <1>8, <2>1, <3>1, <3>2, StoredFields
  <2>7. step[p] > 2 /\ step[p] > 1 /\ ~Ran(p, InsertRows(t))
    BY <1>2, <1>5, <1>12
  <2> HIDE DEF r, n, d, t
  <2> QED
    BY <1>9, <2>1, <2>2, <2>5, <2>6, <2>7 DEF n, r, d
<1>13. CASE do = "insertRows"
  <2>1. t \in ChildTables
    BY <1>1, <1>13, Keys
  <2>2. \A u : DeleteRows(u) # Current(p) /\ (InsertRows(u) = Current(p) <=> u = t)
    BY <1>5, <1>13 DEF InsertRows, DeleteRows, Stmt
  <2>3. step[p] > 2 /\ step[p] > 1 /\ ~Ran(p, InsertRows(t)) /\ Ran(p, DeleteRows(t))
    BY <1>2, <1>5, <1>13
  <2>4. s = k => r.sub[t] = {}
    BY <1>9, <2>1, <2>3
  <2>5. \/ Sub(p, t) = {} /\ n = r
        \/ /\ latest[k] = Own(p, k)
           /\ n = IF s = k THEN [latest[k] EXCEPT !.sub[t] = latest[k].sub[t] \cup Sub(p, t)] ELSE r
    <3>1. CASE UNCHANGED <<latest, held>> /\ Sub(p, t) = {}
      BY <1>1, <3>1, OwnStays
    <3>2. CASE Stores(p, k, [latest[k] EXCEPT !.sub[t] = @ \cup Sub(p, t)])
      <4>1. PICK x : x = [latest[k] EXCEPT !.sub[t] = @ \cup Sub(p, t)]
        OBVIOUS
      <4>2. latest[k] = Own(p, k) /\ n = IF s = k THEN x ELSE r
        BY <3>2, <4>1, OwnStores
      <4> QED
        BY <4>1, <4>2
    <3> QED
      BY <1>13, <3>1, <3>2, GoesCases DEF k
  <2>6. s # k => n = r
    BY <2>5
  <2>7. s = k => /\ n.row = r.row /\ n.sub[t] = Sub(p, t)
                 /\ \A u \in ChildTables \ {t} : n.sub[u] = r.sub[u]
    <3>1. CASE Sub(p, t) = {} /\ n = r
      BY <2>4, <3>1
    <3>2. CASE s = k /\ n = [r EXCEPT !.sub[t] = r.sub[t] \cup Sub(p, t)]
      <4>1. PICK v : v = Sub(p, t)
        OBVIOUS
      <4>2. n = [r EXCEPT !.sub[t] = v]
        <5>1. r.sub[t] \cup Sub(p, t) = Sub(p, t)
          BY <2>4, <3>2
        <5> QED
          BY <3>2, <4>1, <5>1
      <4> HIDE DEF r, n, t
      <4> QED
        BY <1>8, <2>1, <4>1, <4>2, StoredFields
    <3> QED
      BY <2>5, <3>1, <3>2
  <2> HIDE DEF r, n, d, t
  <2> QED
    BY <1>9, <2>1, <2>2, <2>3, <2>6, <2>7 DEF n, r, d
<1> QED
  BY <1>4, <1>10, <1>11, <1>12, <1>13

LEMMA DeleteGoes ==
  ASSUME Inv, Serial, NEW p \in Callers, Goes(p), call[p].op = "delete", Made(p)
  PROVE  Made(p)'
<1> DEFINE k == UrlKey(p)
           do == Current(p).do
<1>1. pc[p] = "running" /\ ~Done(p) /\ Moves(p) /\ db' = db
  BY DEF Goes, Moves, Advance
<1>2. /\ step'[p] = step[p] + 1 /\ call' = call /\ step[p] \in Nat \ {0}
      /\ k' = k /\ \A r : Deleted(p, r)' = Deleted(p, r)
  BY <1>1, KeysMove
<1>3. do \in {"ensureHas", "delete"}
  <2>1. Allowed(call[p], Current(p))
    BY <1>1, Running
  <2> QED
    BY <2>1 DEF Allowed
<1>4. /\ do = "ensureHas" => step[p] = 1
      /\ do = "delete" => step[p] = 2
  BY <1>1, WhereDeleting
<1>5. \A s \in Slots : Own(p, s) = IF s = k /\ step[p] > 2 THEN Deleted(p, db[s]) ELSE db[s]
  BY DEF Made, Makes
<1> SUFFICES ASSUME NEW s \in Slots
             PROVE  Own(p, s)' = IF s = k /\ step[p] > 1 THEN Deleted(p, db[s]) ELSE db[s]
  <2>1. step[p] + 1 > 2 <=> step[p] > 1
    BY <1>2
  <2> QED
    BY <1>1, <1>2, <2>1 DEF Made, Makes
<1>6. CASE do = "ensureHas"
  <2>1. Own(p, s)' = Own(p, s)
    BY <1>1, <1>6, GoesCases, OwnStays
  <2> QED
    BY <1>4, <1>5, <1>6, <2>1
<1>7. CASE do = "delete"
  <2>1. PICK r : r = Deleted(p, latest[k])
    OBVIOUS
  <2>2. Stores(p, k, r)
    BY <1>7, <2>1, GoesCases
  <2>3. latest[k] = Own(p, k) /\ Own(p, s)' = IF s = k THEN r ELSE Own(p, s)
    BY <2>2, OwnStores
  <2>4. Own(p, s) = db[s]
    BY <1>4, <1>5, <1>7
  <2>5. step[p] > 1
    BY <1>4, <1>7
  <2> QED
    BY <2>1, <2>3, <2>4, <2>5
<1> QED
  BY <1>3, <1>6, <1>7

\* What a statement about several keys makes.
LEMMA OwnWrites ==
  ASSUME Inv, Serial, NEW p \in Callers, NEW ks \in SUBSET Slots, NEW new, Write(p, ks, new),
         NEW s \in Slots
  PROVE  /\ latest[s] = Own(p, s)
         /\ Own(p, s)' = IF s \in ks THEN new[s] ELSE Own(p, s)
<1>1. /\ Writers(p, ks) = {} /\ db' = db
      /\ latest' = [x \in Slots |-> IF x \in ks THEN new[x] ELSE latest[x]]
      /\ held' = [held EXCEPT ![p] =
                    @ \cup {x \in ks : \/ Isolation = "repeatableRead"
                                       \/ latest[x] # Nothing \/ new[x] # Nothing}]
  BY DEF Write, Advance
<1>2. latest[s] = Own(p, s)
  BY <1>1, OwnLatest
<1>3. held \in [Callers -> SUBSET Slots]
  BY DEF Inv, TypeOK
<1>4. s \in held'[p] <=>
        \/ s \in held[p]
        \/ s \in ks /\ (latest[s] # Nothing \/ new[s] # Nothing)
  BY <1>1, <1>3 DEF Serial
<1>5. latest'[s] = IF s \in ks THEN new[s] ELSE latest[s]
  BY <1>1
<1>6. Own(p, s)' = IF s \in held'[p] THEN latest'[s] ELSE db[s]
  BY <1>1 DEF Own
<1>7. CASE s \in held'[p]
  BY <1>2, <1>5, <1>6, <1>7
<1>8. CASE s \notin held'[p]
  <2>1. Own(p, s) = db[s]
    BY <1>4, <1>8 DEF Own
  <2> QED
    BY <1>2, <1>4, <1>6, <1>8, <2>1
<1> QED
  BY <1>2, <1>7, <1>8

\* To delete what is deleted makes no difference.
LEMMA DeletedTwice ==
  ASSUME NEW p \in Callers, NEW r \in Stored
  PROVE  Deleted(p, Deleted(p, r)) = Deleted(p, r)
<1>1. r = [row |-> r.row, sub |-> r.sub]
  BY DEF Stored
<1>2. CASE r.row # Absent /\ ForeignKeys(p)
  BY <1>2 DEF Deleted, Nothing
<1>3. CASE ~(r.row # Absent /\ ForeignKeys(p))
  <2>1. Deleted(p, r) = [row |-> Absent, sub |-> r.sub]
    BY <1>1, <1>3 DEF Deleted
  <2> QED
    BY <2>1 DEF Deleted
<1> QED
  BY <1>2, <1>3

LEMMA ClearGoes ==
  ASSUME Inv, Serial, NEW p \in Callers, Goes(p), call[p].op = "clear", Made(p)
  PROVE  Made(p)'
<1> DEFINE ks == {s \in Slots : s[1] = call[p].tenant /\ s[2] = Current(p).table}
           new == [s \in Slots |-> Deleted(p, latest[s])]
<1>1. pc[p] = "running" /\ ~Done(p) /\ Moves(p) /\ db' = db
  BY DEF Goes, Moves, Advance
<1>2. call' = call /\ \A r : Deleted(p, r)' = Deleted(p, r)
  BY <1>1, KeysMove
<1>3. \A st : Ran(p, st)' <=> Ran(p, st) \/ st = Current(p)
  BY <1>1, RanMoves
<1>4. Current(p) = ClearOf(Current(p).table) /\ ClearTable(p)
  BY <1>1, WhereClearing, GoesCases
<1>5. Write(p, ks, new)
  BY <1>4 DEF ClearTable
<1>6. \A s \in Slots : Own(p, s) =
        IF s[1] = call[p].tenant /\ Ran(p, ClearOf(s[2])) THEN Deleted(p, db[s]) ELSE db[s]
  BY DEF Made, Makes
<1> SUFFICES ASSUME NEW s \in Slots
             PROVE  Own(p, s)' =
                      IF s[1] = call[p].tenant /\ (Ran(p, ClearOf(s[2])) \/ ClearOf(s[2]) = Current(p))
                      THEN Deleted(p, db[s]) ELSE db[s]
  BY <1>1, <1>2, <1>3 DEF Made, Makes
<1>7. s \in ks <=> s[1] = call[p].tenant /\ ClearOf(s[2]) = Current(p)
  BY <1>4 DEF ClearOf, Stmt
<1>8. new[s] = Deleted(p, latest[s]) /\ ks \in SUBSET Slots
  OBVIOUS
<1> HIDE DEF ks, new
<1>9. latest[s] = Own(p, s) /\ Own(p, s)' = IF s \in ks THEN new[s] ELSE Own(p, s)
  BY <1>5, <1>8, OwnWrites
<1>10. db[s] \in Stored
  BY OwnType
<1>11. Deleted(p, Deleted(p, db[s])) = Deleted(p, db[s])
  BY <1>10, DeletedTwice
<1>12. CASE s \in ks
  BY <1>6, <1>7, <1>8, <1>9, <1>11, <1>12
<1>13. CASE s \notin ks
  BY <1>6, <1>7, <1>9, <1>13
<1> QED
  BY <1>12, <1>13

LEMMA ReadGoes ==
  ASSUME Inv, Serial, NEW p \in Callers, Goes(p), call[p].op \in {"get", "list"}, Made(p)
  PROVE  Made(p)'
<1>1. pc[p] = "running" /\ ~Done(p) /\ Moves(p) /\ db' = db
  BY DEF Goes, Moves, Advance
<1>2. call' = call
  BY <1>1, KeysMove
<1>3. Current(p).do \in {"ensureHas", "select", "selectRows", "unknown"}
  <2>1. Allowed(call[p], Current(p))
    BY <1>1, Running
  <2> QED
    BY <2>1 DEF Allowed
<1>4. Current(p).do # "unknown"
  <2>1. \/ Current(p).do \in {"insert", "insertRows", "update", "deleteRows", "delete", "clear"}
        \/ Current(p).do \in {"ensureHas", "ensureDoesntHave", "select", "selectRows"}
    BY DEF Goes, InsertMain, InsertChildren, UpdateMain, DeleteChildren, DeleteMain, ClearTable,
           SelectMain, SelectChildren, EnsureHasRecord, EnsureDoesntHaveRecord, Executing
  <2> QED
    BY <2>1
<1>5. \A s \in Slots : Own(p, s)' = Own(p, s)
  BY <1>1, <1>3, <1>4, GoesCases, OwnStays
<1> QED
  BY <1>1, <1>2, <1>5 DEF Made, Makes

LEMMA MadeGoes ==
  ASSUME Inv, Serial, NEW p \in Callers, Goes(p), InProgress(p)
  PROVE  Made(p)'
<1>1. pc[p] = "running" /\ step[p] \in Nat \ {0} /\ call[p] \in Calls
  BY Running DEF Goes, Moves
<1>2. Made(p)
  BY <1>1, MakesNothing DEF InProgress
<1>3. call[p].op \in Ops
  BY <1>1 DEF Calls
<1> QED
  BY <1>2, <1>3, CreateGoes, UpdateGoes, DeleteGoes, ClearGoes, ReadGoes DEF Ops

\* The SELECT of the main table takes each row that is committed.
LEMMA SelectMainGathers ==
  ASSUME Inv, Serial, NEW p \in Callers, SelectMain(p)
  PROVE  Gathered(p)'
<1> DEFINE found == {s \in Scope(call[p]) : db[s].row # Absent}
           Object(id) == IF \E s \in found : s[3] = id
                         THEN [Nothing EXCEPT !.row = db[Slot(p, id)].row]
                         ELSE Nothing
<1>1. pc[p] = "running" /\ ~Done(p) /\ Current(p).do = "select" /\ Moves(p)
  BY SelectMainMoves DEF SelectMain, Executing
<1>2. call[p].op \in {"get", "list"} /\ View(p) = db /\ db' = db
  BY <1>1, Running DEF Allowed, View, Serial, Moves, Advance
<1>3. /\ step[p] = First(call[p]) /\ call[p].type \in mainTable
      /\ \A t : ~Ran(p, SelectRows(t))
  <2>1. step[p] = First(call[p]) /\ call[p].type \in mainTable
    BY <1>1, <1>2, WhereReading
  <2>2. step[p] <= First(call[p])
    BY <1>1, <2>1, Running
  <2> QED
    BY <1>1, <1>2, <2>1, <2>2, WhereReading
<1>4. step'[p] = step[p] + 1 /\ call' = call
  BY <1>1, RanMoves
<1>5. ASSUME NEW t
      PROVE  ~Ran(p, SelectRows(t))'
  <2>1. SelectRows(t) # Current(p)
    BY <1>1 DEF SelectRows, Stmt
  <2> QED
    BY <1>1, <1>3, <2>1, RanMoves
<1>6. PICK first \in IF found = {} THEN {Nil} ELSE {s[3] : s \in found} :
        buf'[p] = [objs |-> [id \in IDs |-> Object(id)], first |-> first]
  <2> DEFINE seen(v) == {s \in Scope(call[p]) : v[s].row # Absent}
             read(v) == {[objs  |-> [id \in IDs |->
                                       IF \E s \in seen(v) : s[3] = id
                                       THEN [Nothing EXCEPT !.row = v[Slot(p, id)].row]
                                       ELSE Nothing],
                          first |-> first] :
                           first \in IF seen(v) = {} THEN {Nil} ELSE {s[3] : s \in seen(v)}}
  <2>3. \E b \in read(View(p)) : buf' = [buf EXCEPT ![p] = b]
    BY DEF SelectMain, Slot
  <2>4. \E b \in read(db) : buf' = [buf EXCEPT ![p] = b]
    <3> HIDE DEF read
    <3> QED
      BY <1>2, <2>3
  <2>1. PICK first \in IF found = {} THEN {Nil} ELSE {s[3] : s \in found} :
          buf' = [buf EXCEPT ![p] = [objs |-> [id \in IDs |-> Object(id)], first |-> first]]
    BY <2>4
  <2>2. buf \in [Callers -> [objs : [IDs -> Stored], first : IDs \cup {Nil}]]
    BY DEF Inv, TypeOK
  <2> HIDE DEF found, Object
  <2> QED
    BY <2>1, <2>2
<1>7. ASSUME NEW id \in IDs
      PROVE  /\ Object(id).row = IF Slot(p, id) \in Scope(call[p])
                                 THEN db[Slot(p, id)].row ELSE Absent
             /\ \A t \in ChildTables : Object(id).sub[t] = {}
  <2>1. (\E s \in found : s[3] = id) <=> Slot(p, id) \in found
    <3>1. Slot(p, id)[3] = id
      BY DEF Slot
    <3> QED
      BY <3>1, ScopeSlots
  <2>2. Nothing.row = Absent /\ \A t \in ChildTables : Nothing.sub[t] = {}
    BY DEF Nothing
  <2>3. ASSUME NEW v
        PROVE  /\ [Nothing EXCEPT !.row = v].row = v
               /\ [Nothing EXCEPT !.row = v].sub = Nothing.sub
    BY DEF Nothing
  <2>4. CASE Slot(p, id) \in found
    <3>1. Object(id) = [Nothing EXCEPT !.row = db[Slot(p, id)].row]
      BY <2>1, <2>4
    <3>2. Slot(p, id) \in Scope(call[p])
      BY <2>4
    <3> HIDE DEF Object, found
    <3> QED
      BY <2>2, <2>3, <3>1, <3>2
  <2>5. CASE Slot(p, id) \notin found
    BY <2>1, <2>2, <2>5
  <2> QED
    BY <2>4, <2>5
<1>8. first = Nil => \A s \in Scope(call[p]) : db[s].row = Absent
  <2>1. CASE found = {}
    BY <2>1
  <2>2. CASE found # {}
    BY <1>6, <2>2, ScopeSlots, SQLAssumption
  <2> QED
    BY <2>1, <2>2
<1>9. first # Nil => Slot(p, first) \in Scope(call[p]) /\ db[Slot(p, first)].row # Absent
  <2>1. CASE found = {}
    BY <1>6, <2>1
  <2>2. CASE found # {}
    <3>1. PICK s \in found : first = s[3]
      BY <1>6, <2>2
    <3>2. s = Slot(p, s[3])
      BY ScopeSlots
    <3> QED
      BY <3>1, <3>2
  <2> QED
    BY <2>1, <2>2
<1> HIDE DEF Object
<1>10. ASSUME NEW id \in IDs
       PROVE  Gathers(p, id)'
  <2>1. buf'[p].objs[id] = Object(id) /\ Slot(p, id)' = Slot(p, id)
    BY <1>4, <1>6 DEF Slot
  <2> QED
    BY <1>2, <1>4, <1>5, <1>7, <2>1 DEF Gathers
<1>11. buf'[p].first = first
  BY <1>6
<1>12. first = Nil => GathersNothing(p)'
  BY <1>2, <1>4, <1>5, <1>8 DEF GathersNothing
<1>13. Slot(p, first)' = Slot(p, first)
  BY <1>4 DEF Slot
<1>14. (buf[p].first = Nil => GathersNothing(p))'
  BY <1>11, <1>12
<1>15. (buf[p].first # Nil => /\ Slot(p, buf[p].first) \in Scope(call[p])
                              /\ db[Slot(p, buf[p].first)].row # Absent)'
  BY <1>2, <1>4, <1>9, <1>11 DEF Slot
<1> QED
  BY <1>3, <1>4, <1>10, <1>14, <1>15 DEF Gathered

\* Each child row finds its object, or goes to the first one.
LEMMA SelectChildrenGathers ==
  ASSUME Inv, Serial, NEW p \in Callers, Gathered(p), SelectChildren(p), Moves(p)
  PROVE  Gathered(p)'
<1> DEFINE t == Current(p).table
           found == {s \in Scope(call[p]) : db[s].sub[t] # {}}
           items(id) == UNION {db[s].sub[t] : s \in {x \in found : Owner(p, x[3]) = id}}
           first == buf[p].first
<1>1. pc[p] = "running" /\ ~Done(p) /\ Current(p).do = "selectRows"
  BY DEF SelectChildren, Executing
<1>2. /\ call[p].op \in {"get", "list"} /\ View(p) = db /\ db' = db
      /\ t \in ChildTables
  BY <1>1, Running, ChildrenAreTables DEF Allowed, View, Serial, Moves, Advance
<1>3. step[p] > First(call[p]) /\ Current(p) = SelectRows(t)
  BY <1>1, <1>2, WhereReading
<1>4. /\ call[p].type \in mainTable
      /\ \A id \in IDs : Gathers(p, id)
      /\ first = Nil => GathersNothing(p)
      /\ first # Nil => Slot(p, first) \in Scope(call[p]) /\ db[Slot(p, first)].row # Absent
  BY <1>2, <1>3 DEF Gathered
<1>5. ~Rollback(p, "panic")
  <2>1. Rollback(p, "panic") => step'[p] = 1
    BY DEF Rollback, Finish, Inv, TypeOK
  <2>2. step'[p] = step[p] + 1 /\ step[p] \in Nat \ {0}
    BY KeysMove
  <2> QED
    BY <2>1, <2>2
<1>6. /\ found # {} => first # Nil
      /\ buf' = [buf EXCEPT ![p].objs = [id \in IDs |-> [@[id] EXCEPT !.sub[t] = items(id)]]]
  <2> DEFINE seen(v) == {s \in Scope(call[p]) : v[s].sub[t] # {}}
             taken(v, id) == UNION {v[s].sub[t] : s \in {x \in seen(v) : Owner(p, x[3]) = id}}
             after(v) == [buf EXCEPT ![p].objs =
                            [id \in IDs |-> [@[id] EXCEPT !.sub[t] = taken(v, id)]]]
  <2>1. (seen(View(p)) # {} => first # Nil) /\ buf' = after(View(p))
    BY <1>5 DEF SelectChildren
  <2>2. (seen(db) # {} => first # Nil) /\ buf' = after(db)
    <3> HIDE DEF seen, after
    <3> QED
      BY <1>2, <2>1
  <2> QED
    BY <2>2
<1>7. call' = call /\ Scope(call[p])' = Scope(call[p]) /\ step'[p] = step[p] + 1
  BY KeysMove DEF Scope
<1>8. ASSUME NEW u
      PROVE  Ran(p, SelectRows(u))' <=> Ran(p, SelectRows(u)) \/ u = t
  <2>1. SelectRows(u) = Current(p) <=> u = t
    BY <1>3 DEF SelectRows, Stmt
  <2> QED
    BY <2>1, RanMoves
\* What is lost goes to the first object.
<1>9. ASSUME NEW s \in Scope(call[p])
      PROVE  /\ s[3] \in IDs /\ s = Slot(p, s[3])
             /\ buf[p].objs[s[3]].row = db[s].row
             /\ Owner(p, s[3]) = IF db[s].row # Absent THEN s[3] ELSE first
  <2>1. s[3] \in IDs /\ s = Slot(p, s[3])
    BY ScopeSlots
  <2>2. buf[p].objs[s[3]].row = db[s].row
    BY <1>4, <2>1 DEF Gathers
  <2> QED
    BY <2>1, <2>2 DEF Owner
<1>10. ASSUME NEW id \in IDs
       PROVE  items(id) = (IF buf[p].objs[id].row # Absent THEN db[Slot(p, id)].sub[t] ELSE {})
                            \cup (IF id = first THEN LostSub(p, t) ELSE {})
  <2> DEFINE here == IF buf[p].objs[id].row # Absent THEN db[Slot(p, id)].sub[t] ELSE {}
             lost == IF id = first THEN LostSub(p, t) ELSE {}
  <2>1. buf[p].objs[id].row # Absent => Slot(p, id) \in Scope(call[p])
    BY <1>4 DEF Gathers
  <2>2. Slot(p, id)[3] = id
    BY DEF Slot
  <2>3. ASSUME NEW x \in items(id)
        PROVE  x \in here \cup lost
    <3>1. PICK s \in found : Owner(p, s[3]) = id /\ x \in db[s].sub[t]
      OBVIOUS
    <3>2. s \in Scope(call[p])
      OBVIOUS
    <3>3. CASE db[s].row # Absent
      BY <1>9, <3>1, <3>2, <3>3
    <3>4. CASE db[s].row = Absent
      <4>1. id = first
        BY <1>9, <3>1, <3>2, <3>4
      <4>2. x \in LostSub(p, t)
        BY <3>1, <3>2, <3>4 DEF LostSub
      <4> QED
        BY <4>1, <4>2
    <3> QED
      BY <3>3, <3>4
  <2>4. ASSUME NEW x \in here
        PROVE  x \in items(id)
    <3>1. /\ Slot(p, id) \in Scope(call[p]) /\ x \in db[Slot(p, id)].sub[t]
          /\ buf[p].objs[id].row # Absent
      BY <2>1
    <3>2. Owner(p, Slot(p, id)[3]) = id
      BY <2>2, <3>1 DEF Owner
    <3>3. Slot(p, id) \in found
      BY <3>1
    <3> QED
      BY <3>1, <3>2, <3>3
  <2>5. ASSUME NEW x \in lost
        PROVE  x \in items(id)
    <3>1. id = first /\ x \in LostSub(p, t)
      OBVIOUS
    <3>2. PICK s \in Scope(call[p]) : db[s].row = Absent /\ x \in db[s].sub[t]
      BY <3>1 DEF LostSub
    <3>3. Owner(p, s[3]) = id
      BY <1>9, <3>1, <3>2
    <3>4. s \in found
      BY <3>2
    <3> QED
      BY <3>2, <3>3, <3>4
  <2> HIDE DEF items, here, lost
  <2>6. items(id) = here \cup lost
    BY <2>3, <2>4, <2>5
  <2> QED
    BY <2>6 DEF here, lost
<1> HIDE DEF items, found
<1>11. /\ buf'[p].first = buf[p].first
       /\ buf'[p].objs = [id \in IDs |-> [buf[p].objs[id] EXCEPT !.sub[t] = items(id)]]
  <2> DEFINE objs == [id \in IDs |-> [buf[p].objs[id] EXCEPT !.sub[t] = items(id)]]
  <2>1. buf \in [Callers -> [objs : [IDs -> Stored], first : IDs \cup {Nil}]]
    BY DEF Inv, TypeOK
  <2>2. buf' = [buf EXCEPT ![p].objs = objs]
    BY <1>6
  <2> HIDE DEF objs
  <2>3. buf'[p].first = buf[p].first /\ buf'[p].objs = objs
    BY <2>1, <2>2
  <2> QED
    BY <2>3 DEF objs
<1>12. ASSUME NEW id \in IDs
       PROVE  /\ buf'[p].objs[id].row = buf[p].objs[id].row
              /\ buf'[p].objs[id].sub[t] = items(id)
              /\ \A u \in ChildTables \ {t} : buf'[p].objs[id].sub[u] = buf[p].objs[id].sub[u]
  <2> DEFINE r == buf[p].objs[id]
  <2>1. r \in Stored
    BY DEF Inv, TypeOK
  <2>2. buf'[p].objs[id] = [r EXCEPT !.sub = [r.sub EXCEPT ![t] = items(id)]]
    BY <1>11
  <2> HIDE DEF r
  <2>3. /\ buf'[p].objs[id].row = r.row
        /\ buf'[p].objs[id].sub = [r.sub EXCEPT ![t] = items(id)]
        /\ r.sub \in [ChildTables -> SUBSET Items]
    BY <2>1, <2>2 DEF Stored
  <2> HIDE DEF t
  <2>4. /\ buf'[p].objs[id].sub[t] = items(id)
        /\ \A u \in ChildTables \ {t} : buf'[p].objs[id].sub[u] = r.sub[u]
    BY <1>2, <2>3
  <2> QED
    BY <2>3, <2>4 DEF r
<1>13. Slot(p, first)' = Slot(p, first) /\ \A id : Slot(p, id)' = Slot(p, id)
  BY <1>7, <1>11 DEF Slot
<1>14. \A u : LostSub(p, u)' = LostSub(p, u)
  BY <1>2, <1>7 DEF LostSub
<1>15. ASSUME NEW id \in IDs
       PROVE  Gathers(p, id)'
  <2>1. Gathers(p, id)
    BY <1>4
  <2>2. buf'[p].objs[id].row =
          IF Slot(p, id)' \in Scope(call[p])' THEN db'[Slot(p, id)'].row ELSE Absent
    BY <1>2, <1>7, <1>12, <1>13, <2>1 DEF Gathers
  <2>3. ASSUME NEW u \in ChildTables
        PROVE  buf'[p].objs[id].sub[u] =
                 IF Ran(p, SelectRows(u))'
                 THEN (IF buf'[p].objs[id].row # Absent THEN db'[Slot(p, id)'].sub[u] ELSE {})
                        \cup (IF id = buf'[p].first THEN LostSub(p, u)' ELSE {})
                 ELSE {}
    <3> HIDE DEF t
    <3>1. CASE u = t
      <4>1. Ran(p, SelectRows(u))'
        BY <1>8, <3>1
      <4>2. buf'[p].objs[id].sub[u] =
              (IF buf[p].objs[id].row # Absent THEN db[Slot(p, id)].sub[u] ELSE {})
                \cup (IF id = first THEN LostSub(p, u) ELSE {})
        BY <1>10, <1>12, <3>1
      <4>3. /\ buf'[p].objs[id].row = buf[p].objs[id].row /\ db'[Slot(p, id)'] = db[Slot(p, id)]
            /\ buf'[p].first = first /\ LostSub(p, u)' = LostSub(p, u)
        BY <1>2, <1>11, <1>12, <1>13, <1>14
      <4> QED
        BY <4>1, <4>2, <4>3
    <3>2. CASE u # t
      <4>1. buf'[p].objs[id].sub[u] = buf[p].objs[id].sub[u]
        BY <1>12, <3>2
      <4>2. Ran(p, SelectRows(u))' <=> Ran(p, SelectRows(u))
        BY <1>8, <3>2
      <4>3. /\ buf'[p].objs[id].row = buf[p].objs[id].row /\ db'[Slot(p, id)'] = db[Slot(p, id)]
            /\ buf'[p].first = buf[p].first /\ LostSub(p, u)' = LostSub(p, u)
        BY <1>2, <1>11, <1>12, <1>13, <1>14
      <4> QED
        BY <2>1, <4>1, <4>2, <4>3 DEF Gathers
    <3> QED
      BY <3>1, <3>2
  <2> QED
    BY <2>2, <2>3 DEF Gathers
<1>16. (buf[p].first = Nil => GathersNothing(p))'
  <2> SUFFICES ASSUME first = Nil
               PROVE  GathersNothing(p)'
    BY <1>11
  <2>1. GathersNothing(p) /\ found = {}
    BY <1>4, <1>6
  <2>2. \A s \in Scope(call[p]) : db[s].sub[t] = {}
    BY <2>1 DEF found
  <2>3. ASSUME NEW s \in Scope(call[p]), NEW u \in ChildTables, Ran(p, SelectRows(u))'
        PROVE  db[s].sub[u] = {}
    <3>1. CASE u = t
      BY <2>2, <3>1
    <3>2. CASE u # t
      BY <1>8, <2>1, <2>3, <3>2 DEF GathersNothing
    <3> QED
      BY <3>1, <3>2
  <2>4. \A s \in Scope(call[p]) : db[s].row = Absent
    BY <2>1 DEF GathersNothing
  <2> QED
    BY <1>2, <1>7, <2>3, <2>4 DEF GathersNothing
<1>17. (buf[p].first # Nil => /\ Slot(p, buf[p].first) \in Scope(call[p])
                              /\ db[Slot(p, buf[p].first)].row # Absent)'
  BY <1>2, <1>4, <1>7, <1>11, <1>13
<1> QED
  BY <1>4, <1>7, <1>15, <1>16, <1>17 DEF Gathered

LEMMA GatheredGoes ==
  ASSUME Inv, Serial, NEW p \in Callers, Goes(p), step[p] > 1 => Gathered(p)
  PROVE  Gathered(p)'
<1>1. pc[p] = "running" /\ ~Done(p) /\ Moves(p) /\ step[p] \in Nat \ {0}
  BY Running DEF Goes, Moves
<1>2. step'[p] = step[p] + 1 /\ call' = call
  BY <1>1, KeysMove
<1>3. CASE call[p].op \notin {"get", "list"}
  BY <1>2, <1>3 DEF Gathered
<1>4. CASE call[p].op \in {"get", "list"}
  <2>1. Current(p).do \in {"ensureHas", "select", "selectRows", "unknown"}
    <3>1. Allowed(call[p], Current(p))
      BY <1>1, Running
    <3> QED
      BY <1>4, <3>1 DEF Allowed
  <2>2. Current(p).do # "unknown"
    <3>1. \/ Current(p).do \in {"insert", "insertRows", "update", "deleteRows", "delete", "clear"}
          \/ Current(p).do \in {"ensureHas", "ensureDoesntHave", "select", "selectRows"}
      BY DEF Goes, InsertMain, InsertChildren, UpdateMain, DeleteChildren, DeleteMain, ClearTable,
             SelectMain, SelectChildren, EnsureHasRecord, EnsureDoesntHaveRecord, Executing
    <3> QED
      BY <3>1
  <2>3. CASE Current(p).do = "ensureHas"
    <3>1. step[p] < First(call[p])
      BY <1>1, <1>4, <2>3, WhereReading
    <3>2. ~(step'[p] > First(call[p]))
      BY <1>1, <1>2, <3>1 DEF First
    <3> QED
      BY <1>2, <3>2 DEF Gathered
  <2>4. CASE Current(p).do = "select"
    BY <2>4, GoesCases, SelectMainGathers
  <2>5. CASE Current(p).do = "selectRows"
    <3>1. step[p] > First(call[p])
      BY <1>1, <1>4, <2>5, WhereReading
    <3>2. step[p] > 1
      BY <1>1, <3>1 DEF First
    <3> QED
      BY <1>1, <2>5, <3>2, GoesCases, SelectChildrenGathers
  <2> QED
    BY <2>1, <2>2, <2>3, <2>4, <2>5
<1> QED
  BY <1>3, <1>4

\* Whoever goes on has made progress.
LEMMA ProgressGoes ==
  ASSUME Inv, Serial, NEW p \in Callers, Goes(p), InProgress(p)
  PROVE  InProgress(p)'
<1>1. step'[p] = step[p] + 1 /\ step[p] \in Nat \ {0}
  BY KeysMove DEF Goes
<1>2. step'[p] # 1 /\ (step[p] > 1 => Found(p) /\ Gathered(p))
  BY <1>1 DEF InProgress
<1>3. Found(p)' /\ Made(p)' /\ Gathered(p)'
  BY <1>2, FoundGoes, MadeGoes, GatheredGoes
<1> QED
  BY <1>2, <1>3 DEF InProgress
-----------------------------------------------------------------------------
(* The transactions of the others, and the end of one.                     *)

\* A step of somebody else leaves alone what q relies on,
Undisturbed(q) ==
  /\ step'[q] = step[q] /\ call'[q] = call[q] /\ held'[q] = held[q] /\ buf'[q] = buf[q]
  /\ ForeignKeys(q)' <=> ForeignKeys(q)
  /\ \A s \in held[q] : latest'[s] = latest[s]
  /\ step[q] > 1 => db' = db

\* so that what q has made is still so.
LEMMA OthersProgress ==
  ASSUME Inv, NEW q \in Callers, pc[q] = "running", InProgress(q), Undisturbed(q)
  PROVE  InProgress(q)'
<1>1. CASE step[q] = 1
  BY <1>1 DEF InProgress, Undisturbed
<1>2. CASE step[q] # 1
  <2>1. /\ step'[q] = step[q] /\ call'[q] = call[q] /\ held'[q] = held[q] /\ buf'[q] = buf[q]
        /\ db' = db
    BY <1>2, Running DEF Undisturbed
  <2>2. /\ BodyKey(q)' = BodyKey(q) /\ UrlKey(q)' = UrlKey(q) /\ Row(q)' = Row(q)
        /\ \A t : Sub(q, t)' = Sub(q, t)
        /\ \A id : Slot(q, id)' = Slot(q, id)
        /\ Scope(call[q])' = Scope(call[q])
    BY <2>1 DEF BodyKey, UrlKey, Row, Sub, Slot, Scope
  <2>3. \A st : Ran(q, st)' <=> Ran(q, st)
    BY <2>1 DEF Ran, Before
  <2>4. \A r : Deleted(q, r)' = Deleted(q, r)
    BY DEF Deleted, Undisturbed
  <2>5. ASSUME NEW s \in Slots
        PROVE  Own(q, s)' = Own(q, s)
    BY <2>1 DEF Own, Undisturbed
  <2>6. Found(q) /\ Made(q) /\ Gathered(q)
    BY <1>2, Running DEF InProgress
  <2>7. Found(q)'
    BY <2>1, <2>2, <2>6 DEF Found
  <2>8. Made(q)'
    <3> SUFFICES ASSUME NEW s \in Slots
                 PROVE  Makes(q, s, Own(q, s), db[s])'
      BY DEF Made
    <3>1. Makes(q, s, Own(q, s), db[s])
      BY <2>6 DEF Made
    <3>2. PICK r : r = Own(q, s)
      OBVIOUS
    <3>3. PICK d : d = db[s]
      OBVIOUS
    <3>4. Own(q, s)' = r /\ db'[s] = d
      BY <2>1, <2>5, <3>2, <3>3
    <3>5. Creating(q, r, d)' <=> Creating(q, r, d)
      <4>1. ASSUME NEW t \in ChildTables
            PROVE  (IF Ran(q, InsertRows(t))' THEN d.sub[t] \cup Sub(q, t)' ELSE d.sub[t])
                     = IF Ran(q, InsertRows(t)) THEN d.sub[t] \cup Sub(q, t) ELSE d.sub[t]
        <5>1. Sub(q, t)' = Sub(q, t) /\ (Ran(q, InsertRows(t))' <=> Ran(q, InsertRows(t)))
          BY <2>2, <2>3
        <5> QED
          BY <5>1
      <4>2. step'[q] = step[q] /\ Row(q)' = Row(q)
        BY <2>1, <2>2
      <4> QED
        BY <4>1, <4>2 DEF Creating
    <3>6. Updating(q, r, d)' <=> Updating(q, r, d)
      BY <2>1, <2>2, <2>3 DEF Updating
    <3>7. Makes(q, s, r, d)'
      BY <2>1, <2>2, <2>3, <2>4, <3>1, <3>2, <3>3, <3>5, <3>6 DEF Makes
    <3> QED
      BY <3>4, <3>7 DEF Makes, Creating, Updating
  <2>9. Gathered(q)'
    <3>1. \A t : LostSub(q, t)' = LostSub(q, t)
      BY <2>1, <2>2 DEF LostSub
    <3>2. \A id \in IDs : Gathers(q, id)' <=> Gathers(q, id)
      BY <2>1, <2>2, <2>3, <3>1 DEF Gathers
    <3>3. GathersNothing(q)' <=> GathersNothing(q)
      BY <2>1, <2>2, <2>3 DEF GathersNothing
    <3>4. Slot(q, buf[q].first)' = Slot(q, buf[q].first)
      BY <2>1, <2>2 DEF Slot
    <3> QED
      BY <2>1, <2>2, <2>6, <3>2, <3>3, <3>4 DEF Gathered
  <2> QED
    BY <1>2, <2>1, <2>7, <2>8, <2>9 DEF InProgress
<1> QED
  BY <1>1, <1>2

\* Whoever ends gives back its own connection only.
LEMMA FinishConns ==
  ASSUME Inv, NEW p \in Callers, NEW r, Finish(p, r), NEW q \in Callers \ {p}
  PROVE  ForeignKeys(q)' <=> ForeignKeys(q)
<1>1. conns \in [Conns -> [open : BOOLEAN, fk : BOOLEAN, user : Callers \cup {Free}]]
  BY DEF Inv, TypeOK
<1>2. ASSUME NEW c \in Conns
      PROVE  conns'[c].user = q /\ conns'[c].fk <=> conns[c].user = q /\ conns[c].fk
  <2>1. conns'[c] = IF conns[c].user = p THEN [conns[c] EXCEPT !.user = Free] ELSE conns[c]
    BY DEF Finish
  <2>2. CASE conns[c].user = p
    <3>1. conns'[c].user = Free
      BY <1>1, <2>1, <2>2
    <3> QED
      BY <2>2, <3>1, SQLAssumption
  <2>3. CASE conns[c].user # p
    BY <2>1, <2>3
  <2> QED
    BY <2>2, <2>3
<1> QED
  BY <1>2 DEF ForeignKeys

\* Whoever begins takes a connection of nobody.
LEMMA BeginConns ==
  ASSUME Inv, NEW p \in Callers, Begin(p), NEW q \in Callers \ {p}
  PROVE  ForeignKeys(q)' <=> ForeignKeys(q)
<1>1. conns \in [Conns -> [open : BOOLEAN, fk : BOOLEAN, user : Callers \cup {Free}]]
  BY DEF Inv, TypeOK
<1>2. PICK c \in Conns, v \in [open : BOOLEAN, fk : BOOLEAN, user : {p}] :
        conns[c].user = Free /\ conns' = [conns EXCEPT ![c] = v]
  <2>1. CASE \E c \in Conns : conns[c].user = Free /\ conns' = [conns EXCEPT ![c].user = p]
    <3>1. PICK c \in Conns : conns[c].user = Free /\ conns' = [conns EXCEPT ![c].user = p]
      BY <2>1
    <3>2. conns' = [conns EXCEPT ![c] = [conns[c] EXCEPT !.user = p]]
      BY <3>1
    <3>3. [conns[c] EXCEPT !.user = p] \in [open : BOOLEAN, fk : BOOLEAN, user : {p}]
      BY <1>1
    <3> QED
      BY <3>1, <3>2, <3>3
  <2>2. CASE \E c \in Conns : /\ ~conns[c].open
                              /\ conns' = [conns EXCEPT ![c] =
                                   [open |-> TRUE, fk |-> AllConnsEnforce, user |-> p]]
    <3>1. PICK c \in Conns : /\ ~conns[c].open
                             /\ conns' = [conns EXCEPT ![c] =
                                  [open |-> TRUE, fk |-> AllConnsEnforce, user |-> p]]
      BY <2>2
    <3>2. conns[c].user = Free
      BY <3>1 DEF Inv, OwnConnection
    <3>3. [open |-> TRUE, fk |-> AllConnsEnforce, user |-> p]
            \in [open : BOOLEAN, fk : BOOLEAN, user : {p}]
      BY SQLAssumption
    <3> QED
      BY <3>1, <3>2, <3>3
  <2> QED
    BY <2>1, <2>2 DEF Begin
<1>3. \A x \in Conns : conns'[x].user = q /\ conns'[x].fk <=> conns[x].user = q /\ conns[x].fk
  BY <1>1, <1>2, SQLAssumption
<1> QED
  BY <1>3 DEF ForeignKeys

LEMMA ExpireConns ==
  ASSUME Inv, Expire, NEW q \in Callers
  PROVE  ForeignKeys(q)' <=> ForeignKeys(q)
<1>1. conns \in [Conns -> [open : BOOLEAN, fk : BOOLEAN, user : Callers \cup {Free}]]
  BY DEF Inv, TypeOK
<1>2. PICK c \in Conns : conns[c].user = Free /\ conns' = [conns EXCEPT ![c] = Closed]
  BY DEF Expire
<1>3. Closed.user = Free /\ q # Free
  BY SQLAssumption DEF Closed
<1>4. \A x \in Conns : conns'[x].user = q /\ conns'[x].fk <=> conns[x].user = q /\ conns[x].fk
  BY <1>1, <1>2, <1>3
<1> QED
  BY <1>4 DEF ForeignKeys

\* Every call has a statement.
LEMMA DoneIsLate ==
  ASSUME Inv, NEW p \in Callers, pc[p] = "running", Done(p)
  PROVE  step[p] > 1
<1>1. /\ call[p] \in Calls /\ Check(call[p]) = "ok" /\ step[p] \in Nat \ {0}
      /\ Len(Program(call[p])) \in Nat
  BY Running
<1>2. call[p].op \in Ops
  BY <1>1 DEF Calls
<1>3. CASE call[p].op = "clear"
  <2>1. Len(Program(call[p])) = 7
    BY <1>1, <1>3, Programs
  <2> QED
    BY <1>1, <2>1 DEF Done
<1>4. CASE call[p].op \in {"create", "update"}
  BY <1>1, <1>4, CreateOrder, UpdateOrder DEF Done
<1>5. CASE call[p].op \in {"get", "list"}
  <2>1. Len(Program(call[p])) >= 1
    BY <1>1, <1>5, ReadOrder DEF First
  <2> QED
    BY <1>1, <2>1 DEF Done
<1>6. CASE call[p].op = "delete"
  <2>1. step[p] > 2
    BY <1>6, WhereDeleting
  <2> QED
    BY <1>1, <2>1
<1> QED
  BY <1>2, <1>3, <1>4, <1>5, <1>6 DEF Ops

\* What is committed is what the transaction has made.
LEMMA CommitOwn ==
  ASSUME Inv, NEW p \in Callers, Commit(p), InProgress(p)
  PROVE  /\ pc[p] = "running" /\ Done(p) /\ step[p] > 1
         /\ Found(p) /\ Made(p) /\ Gathered(p)
         /\ db' = [s \in Slots |-> Own(p, s)]
         /\ \A s \in Slots : Makes(p, s, db'[s], db[s])
<1>1. pc[p] = "running" /\ Done(p)
  BY DEF Commit
<1>2. step[p] > 1 /\ Found(p) /\ Made(p) /\ Gathered(p)
  BY <1>1, DoneIsLate DEF InProgress
<1>3. db' = [s \in Slots |-> Own(p, s)]
  BY DEF Commit, Own
<1>4. \A s \in Slots : Makes(p, s, Own(p, s), db[s])
  BY <1>2 DEF Made
<1>5. ASSUME NEW s \in Slots
      PROVE  Makes(p, s, db'[s], db[s])
  <2>1. db'[s] = Own(p, s)
    BY <1>3
  <2> QED
    BY <1>4, <2>1
<1> QED
  BY <1>1, <1>2, <1>3, <1>5

LEMMA DeletedShaped ==
  ASSUME NEW p \in Callers, NEW s \in Slots, NEW r \in Stored, ShapedRow(s, r)
  PROVE  ShapedRow(s, Deleted(p, r))
<1>1. r = [row |-> r.row, sub |-> r.sub]
  BY DEF Stored
<1>2. ASSUME NEW x
      PROVE  [r EXCEPT !.row = x] = [row |-> x, sub |-> r.sub]
  BY <1>1
<1>3. CASE r.row # Absent /\ ForeignKeys(p)
  BY <1>3 DEF Deleted, ShapedRow, Nothing
<1>4. CASE ~(r.row # Absent /\ ForeignKeys(p))
  <2>1. Deleted(p, r) = [row |-> Absent, sub |-> r.sub]
    BY <1>2, <1>4 DEF Deleted
  <2> QED
    BY <2>1 DEF ShapedRow, Nothing
<1> QED
  BY <1>3, <1>4

LEMMA CommitShaped ==
  ASSUME Inv, Shaped, NEW p \in Callers, Commit(p), InProgress(p)
  PROVE  Shaped'
<1>1. pc[p] = "running" /\ \A s \in Slots : Makes(p, s, db'[s], db[s])
  BY CommitOwn
<1>2. call[p] \in Calls /\ Check(call[p]) = "ok" /\ call[p].op \in Ops
  BY <1>1, Running DEF Calls
<1> SUFFICES ASSUME NEW s \in Slots
             PROVE  ShapedRow(s, db'[s])
  BY DEF Shaped, ShapedRow
<1> DEFINE r == db'[s]
           d == db[s]
<1>3. Makes(p, s, r, d) /\ ShapedRow(s, d) /\ d \in Stored
  BY <1>1, OwnType DEF Shaped
<1> HIDE DEF r, d
<1>4. CASE call[p].op \in {"create", "update"}
  <2>1. CASE s = BodyKey(p)
    <3>1. s[2] = call[p].type /\ call[p].type \in mainTable
      BY <1>2, <1>4, <2>1, Checked DEF BodyKey
    <3>2. \A t \in ChildTables : t \notin Children(s[2]) => ~Ran(p, InsertRows(t))
      BY <1>1, <1>4, <3>1, WhereWriting
    <3>3. Creating(p, r, d) \/ Updating(p, r, d)
      BY <1>3, <1>4, <2>1 DEF Makes
    <3> QED
      BY <1>3, <3>1, <3>2, <3>3 DEF Creating, Updating, ShapedRow, r
  <2>2. CASE s # BodyKey(p)
    BY <1>3, <1>4, <2>2 DEF Makes, r
  <2> QED
    BY <2>1, <2>2
<1>5. CASE call[p].op \in {"delete", "clear", "get", "list"}
  <2>1. r = d \/ r = Deleted(p, d)
    BY <1>3, <1>5 DEF Makes
  <2> QED
    BY <1>3, <2>1, DeletedShaped DEF r
<1> QED
  BY <1>2, <1>4, <1>5 DEF Ops

\* A transaction goes on, is rolled back or commits.
LEMMA StepCases ==
  ASSUME Inv, NEW p \in Callers, Statement(p) \/ Fail(p)
  PROVE  /\ pc[p] = "running"
         /\ \/ Goes(p)
            \/ \E kind \in {"missing", "conflict", "error", "panic"} : Rollback(p, kind)
            \/ Commit(p)
<1>1. pc[p] = "running"
  BY TransactionStep
<1>2. ASSUME Moves(p)
      PROVE  Goes(p)
  <2>1. step'[p] = step[p] + 1 /\ step[p] \in Nat \ {0}
    BY <1>2, KeysMove
  <2>2. ASSUME NEW r, Finish(p, r)
        PROVE  FALSE
    <3>1. step'[p] = 1
      BY <2>2 DEF Finish, Inv, TypeOK
    <3> QED
      BY <2>1, <3>1
  <2>3. ~Commit(p) /\ \A kind : ~Rollback(p, kind)
    BY <2>2 DEF Commit, Rollback
  <2> QED
    BY <1>2, <2>3, StatementCases DEF Goes
<1> QED
  BY <1>1, <1>2, TransactionStep

LEMMA StepLeavesOthers ==
  ASSUME Inv, Serial, NEW p \in Callers, Statement(p) \/ Fail(p),
         NEW q \in Callers \ {p}, pc[q] = "running"
  PROVE  Undisturbed(q)
<1>1. held \in [Callers -> SUBSET Slots] /\ held[p] \cap held[q] = {}
  BY DEF Inv, TypeOK, UncommittedIsPrivate
<1>2. CASE Goes(p)
  <2>1. Moves(p)
    BY <1>2 DEF Goes
  <2>2. /\ step' = [step EXCEPT ![p] = @ + 1] /\ call' = call /\ db' = db /\ conns' = conns
        /\ held' = [held EXCEPT ![p] = held'[p]]
        /\ held'[p] \cap held[q] = {}
        /\ \A s \in Slots : latest'[s] # latest[s] => s \in held'[p]
    BY <2>1 DEF Moves, Advance
  <2>3. PICK b : buf' = [buf EXCEPT ![p] = b]
    BY MovesBuf
  <2>4. step'[q] = step[q] /\ held'[q] = held[q] /\ buf'[q] = buf[q]
    BY <2>2, <2>3 DEF Inv, TypeOK
  <2>5. \A s \in held[q] : latest'[s] = latest[s]
    BY <1>1, <2>2
  <2>6. ForeignKeys(q)' <=> ForeignKeys(q)
    BY <2>2 DEF ForeignKeys
  <2> QED
    BY <2>2, <2>4, <2>5, <2>6 DEF Undisturbed
<1>3. ASSUME NEW r, Finish(p, r), \A s \in held[q] : latest'[s] = latest[s],
             step[q] > 1 => db' = db
      PROVE  Undisturbed(q)
  <2>1. step'[q] = step[q] /\ held'[q] = held[q] /\ buf'[q] = buf[q] /\ call' = call
    BY <1>3 DEF Finish, Inv, TypeOK
  <2>2. ForeignKeys(q)' <=> ForeignKeys(q)
    BY <1>3, FinishConns
  <2> QED
    BY <1>3, <2>1, <2>2 DEF Undisturbed
<1>4. CASE \E kind \in {"missing", "conflict", "error", "panic"} : Rollback(p, kind)
  <2>1. PICK kind : Rollback(p, kind)
    BY <1>4
  <2>2. /\ latest' = [s \in Slots |-> IF s \in held[p] THEN db[s] ELSE latest[s]]
        /\ Finish(p, Result(kind, Nil)) /\ db' = db
    BY <2>1 DEF Rollback
  <2>3. \A s \in held[q] : latest'[s] = latest[s]
    BY <1>1, <2>2
  <2> QED
    BY <1>3, <2>2, <2>3
<1>5. CASE Commit(p)
  <2>1. latest' = latest /\ Finish(p, Result("ok", Answer(p)))
    BY <1>5 DEF Commit
  <2>2. step[q] > 1 => db' = db
    BY <1>5, CommitsAlone DEF Serial
  <2> QED
    BY <1>3, <2>1, <2>2
<1> QED
  BY <1>2, <1>4, <1>5, StepCases

LEMMA AtomStatement ==
  ASSUME Inv, Serial, Shaped, AllMade, NEW p \in Callers, Statement(p) \/ Fail(p)
  PROVE  Shaped' /\ AllMade'
<1>1. pc[p] = "running" /\ InProgress(p)
  BY StepCases DEF AllMade
<1>2. \A q \in Callers \ {p} : pc'[q] = pc[q]
  <2>1. Goes(p) => pc' = pc
    BY DEF Goes, Moves, Advance
  <2>2. (\E kind \in {"missing", "conflict", "error", "panic"} : Rollback(p, kind)) \/ Commit(p)
          => pc' = [pc EXCEPT ![p] = "returned"]
    BY DEF Rollback, Commit, Finish
  <2> QED
    BY <2>1, <2>2, StepCases DEF Inv, TypeOK
<1>3. ASSUME NEW q \in Callers \ {p}, pc'[q] = "running"
      PROVE  InProgress(q)'
  <2>1. pc[q] = "running" /\ InProgress(q)
    BY <1>2, <1>3 DEF AllMade
  <2> QED
    BY <2>1, StepLeavesOthers, OthersProgress
<1>4. CASE Goes(p)
  <2>1. InProgress(p)'
    BY <1>1, <1>4, ProgressGoes
  <2>2. Shaped'
    BY <1>4 DEF Goes, Moves, Advance, Shaped, ShapedRow
  <2> QED
    BY <1>3, <2>1, <2>2 DEF AllMade
<1>5. CASE (\E kind \in {"missing", "conflict", "error", "panic"} : Rollback(p, kind)) \/ Commit(p)
  <2>1. pc'[p] = "returned"
    BY <1>5 DEF Rollback, Commit, Finish, Inv, TypeOK
  <2>2. Shaped'
    <3>1. CASE Commit(p)
      BY <1>1, <3>1, CommitShaped
    <3>2. CASE db' = db
      BY <3>2 DEF Shaped, ShapedRow
    <3> QED
      BY <1>5, <3>1, <3>2 DEF Rollback
  <2> QED
    BY <1>3, <2>1, <2>2 DEF AllMade
<1> QED
  BY <1>4, <1>5, StepCases

LEMMA AtomNext == Inv /\ AtomInv /\ [Next]_vars => AtomInv'
<1> SUFFICES ASSUME Inv, AtomInv, [Next]_vars
             PROVE  Shaped' /\ AllMade'
  BY DEF AtomInv, Serial
<1>1. Serial /\ Shaped /\ AllMade
  BY DEF AtomInv
<1>2. ASSUME NEW p \in Callers, Statement(p) \/ Fail(p)
      PROVE  Shaped' /\ AllMade'
  BY <1>1, <1>2, AtomStatement
<1>3. ASSUME UNCHANGED <<db, latest, held, step, buf>>,
             \A q \in Callers : pc'[q] = "running" =>
               \/ /\ pc[q] = "running" /\ call'[q] = call[q]
                  /\ ForeignKeys(q)' <=> ForeignKeys(q)
               \/ step[q] = 1 /\ held[q] = {}
      PROVE  Shaped' /\ AllMade'
  <2>1. Shaped'
    BY <1>1, <1>3 DEF Shaped, ShapedRow
  <2>2. ASSUME NEW q \in Callers, pc'[q] = "running"
        PROVE  InProgress(q)'
    <3>1. CASE pc[q] = "running" /\ call'[q] = call[q] /\ (ForeignKeys(q)' <=> ForeignKeys(q))
      <4>1. Undisturbed(q)
        BY <1>3, <3>1 DEF Undisturbed
      <4> QED
        BY <1>1, <3>1, <4>1, OthersProgress DEF AllMade
    <3>2. CASE step[q] = 1 /\ held[q] = {}
      BY <1>3, <3>2 DEF InProgress
    <3> QED
      BY <1>3, <2>2, <3>1, <3>2
  <2> QED
    BY <2>1, <2>2 DEF AllMade
<1>4. CASE Expire
  <2>1. UNCHANGED <<db, latest, held, step, buf, pc, call>>
    BY <1>4 DEF Expire, txVars
  <2> QED
    BY <1>3, <1>4, <2>1, ExpireConns
<1>5. CASE UNCHANGED vars
  <2>1. UNCHANGED <<db, latest, held, step, buf, pc, call, conns>>
    BY <1>5 DEF vars, txVars
  <2>2. \A q \in Callers : ForeignKeys(q)' <=> ForeignKeys(q)
    BY <2>1 DEF ForeignKeys
  <2> QED
    BY <1>3, <2>1, <2>2
<1>6. ASSUME NEW p \in Callers, Invoke(p) \/ Reject(p) \/ Begin(p) \/ Return(p)
      PROVE  Shaped' /\ AllMade'
  <2>1. /\ UNCHANGED <<db, latest, held, step, buf>>
        /\ pc[p] # "running"
        /\ \E x : pc' = [pc EXCEPT ![p] = x]
        /\ call' = call \/ \E y : call' = [call EXCEPT ![p] = y]
    BY <1>6 DEF Invoke, Reject, Begin, Return, txVars
  <2>2. step[p] = 1 /\ held[p] = {}
    BY <2>1 DEF Inv, InTransaction, UncommittedIsPrivate
  <2>3. \A q \in Callers \ {p} : pc'[q] = pc[q] /\ call'[q] = call[q]
    BY <2>1 DEF Inv, TypeOK
  <2>4. \A q \in Callers \ {p} : ForeignKeys(q)' <=> ForeignKeys(q)
    <3>1. CASE Begin(p)
      BY <3>1, BeginConns
    <3>2. CASE conns' = conns
      BY <3>2 DEF ForeignKeys
    <3> QED
      BY <1>6, <3>1, <3>2 DEF Invoke, Reject, Return
  <2> QED
    BY <1>3, <2>1, <2>2, <2>3, <2>4
<1> QED
  BY <1>2, <1>4, <1>5, <1>6 DEF Next
-----------------------------------------------------------------------------
(* The mapping.                                                            *)

\* An abstract call differs from the call in its payload only.
LEMMA AbstractCall ==
  ASSUME NEW c \in Requests
  PROVE  /\ Abstract(c).op = c.op /\ Abstract(c).tenant = c.tenant
         /\ Abstract(c).type = c.type /\ Abstract(c).id = c.id
         /\ Abstract(c).body.id = c.body.id
         /\ Abstract(c).body.data = Content(c.type, c.body.data)
<1> DEFINE d == Content(c.type, c.body.data)
           b == [c.body EXCEPT !.data = d]
<1>1. c \in Calls /\ c # Nil
  BY SQLAssumption
<1>2. c.body \in Bodies
  BY <1>1 DEF Calls
<1>3. Abstract(c) = [c EXCEPT !.body = b]
  BY <1>1 DEF Abstract
<1> HIDE DEF d
<1>4. b.id = c.body.id /\ b.data = d
  BY <1>2 DEF Bodies
<1> HIDE DEF b
<1>5. /\ Abstract(c).op = c.op /\ Abstract(c).tenant = c.tenant
      /\ Abstract(c).type = c.type /\ Abstract(c).id = c.id
      /\ Abstract(c).body = b
  BY <1>1, <1>3 DEF Calls
<1> QED
  BY <1>4, <1>5 DEF d

LEMMA InitRefines == Init => Store!Init
<1> SUFFICES ASSUME Init PROVE Store!Init
  OBVIOUS
<1>1. db = [s \in Store!Slots |-> Store!Nothing]
  BY DEF Init, Nothing, Slots, Store!Slots, Store!Nothing
<1> QED
  BY <1>1 DEF Init, Store!Init, AbstractCalls, Abstract, Statuses, Results

\* What a method that returns r answers.
Answered(p, r) ==
  IF call[p].op \in {"create", "update"} /\ r.kind = "ok"
  THEN Result("ok", Content(call[p].type, r.val)) ELSE r

LEMMA OneResult ==
  ASSUME NEW r, NEW p \in Callers, Results'[p] = r,
         \A q \in Callers \ {p} : Results'[q] = Results[q]
  PROVE  Results' = [Results EXCEPT ![p] = r]
BY DEF Results

\* p's method returns r.
Answers(p, r) ==
  /\ pc[p] \in {"called", "running"} /\ pc' = [pc EXCEPT ![p] = "returned"]
  /\ result' = [result EXCEPT ![p] = r] /\ call' = call

LEMMA ReturnAnswers ==
  ASSUME Inv, ReadInv, NEW p \in Callers, NEW r, Answers(p, r), NEW a, a = Answered(p, r)
  PROVE  Store!Answer(p, a) /\ Statuses[p] = "pending"
<1> USE DEF Answers
<1>1. \A q \in Callers \ {p} : pc'[q] = pc[q] /\ result'[q] = result[q]
  BY DEF Inv, TypeOK
<1>2. pc'[p] = "returned" /\ result'[p] = r
  BY DEF Inv, TypeOK, ReadInv
<1>3. Statuses[p] = "pending" /\ Statuses'[p] = "done"
  BY <1>2 DEF Statuses
<1>4. \A q \in Callers \ {p} : Statuses'[q] = Statuses[q] /\ Results'[q] = Results[q]
  BY <1>1 DEF Statuses, Results
<1>5. Statuses' = [Statuses EXCEPT ![p] = "done"]
  BY <1>3, <1>4 DEF Statuses
<1>6. Results'[p] = Answered(p, r)
  BY <1>2 DEF Results, Answered
<1>7. Results' = [Results EXCEPT ![p] = a]
  BY <1>4, <1>6, OneResult
<1>8. AbstractCalls' = AbstractCalls
  BY DEF AbstractCalls
<1> QED
  BY <1>3, <1>5, <1>7, <1>8 DEF Store!Answer

\* An invisible step.
LEMMA Stutter ==
  ASSUME UNCHANGED <<db, call>>,
         \A q \in Callers : Statuses'[q] = Statuses[q] /\ Results'[q] = Results[q]
  PROVE  UNCHANGED Store!vars
BY DEF Store!vars, Statuses, Results, AbstractCalls
-----------------------------------------------------------------------------
(* The steps that take effect.                                             *)

\* The abstract call of a caller inside of a method.
LEMMA CallOf ==
  ASSUME Inv, NEW p \in Callers, pc[p] # "idle"
  PROVE  /\ call[p] \in Requests /\ call[p] \in Calls
         /\ AbstractCalls[p].op = call[p].op /\ AbstractCalls[p].tenant = call[p].tenant
         /\ AbstractCalls[p].type = call[p].type
         /\ AbstractCalls[p].body.data = Content(call[p].type, call[p].body.data)
         /\ Store!URLSlot(AbstractCalls[p]) = UrlKey(p)
         /\ Store!BodySlot(AbstractCalls[p]) = BodyKey(p)
<1>1. call[p] \in Requests /\ call[p] \in Calls
  BY SQLAssumption DEF Inv, InTransaction
<1>2. AbstractCalls[p] = Abstract(call[p])
  BY DEF AbstractCalls
<1> QED
  BY <1>1, <1>2, AbstractCall DEF BodyKey, UrlKey, Store!URLSlot, Store!BodySlot

\* A call that gives up has no effect.
LEMMA FailRefines ==
  ASSUME Inv, ReadInv, NEW p \in Callers, NEW kind \in {"malformed", "error", "panic"},
         kind = "panic" => call[p].op \in {"create", "update"},
         pc[p] \in {"called", "running"}, pc' = [pc EXCEPT ![p] = "returned"],
         result' = [result EXCEPT ![p] = Result(kind, Nil)], call' = call, db' = db
  PROVE  Store!Fail(p)
<1>0. PICK r : r = Result(kind, Nil)
  OBVIOUS
<1>1. Answered(p, r) = r
  BY <1>0 DEF Answered
<1>2. Store!Answer(p, r) /\ Statuses[p] = "pending"
  <2>1. Answers(p, r)
    BY <1>0 DEF Answers
  <2> QED
    BY <1>1, <2>1, ReturnAnswers
<1>3. AbstractCalls[p].op = call[p].op
  BY CallOf
<1> QED
  BY <1>0, <1>2, <1>3 DEF Store!Fail

LEMMA RejectRefines ==
  ASSUME Inv, ReadInv, NEW p \in Callers, Reject(p)
  PROVE  Store!Fail(p)
<1>1. /\ Check(call[p]) \in {"malformed", "error", "panic", "ok"}
      /\ Check(call[p]) = "panic" => call[p].op \in {"create", "update"}
  <2> DEFINE c == call[p]
             unknown == c.op \in {"create", "update", "delete", "get"} /\ c.type \notin mainTable
             invalid == /\ c.op \in {"create", "update"} /\ c.type \in mainTable
                        /\ validatingObjectParser(c.type, c.body).kind # "ok"
  <2>1. CASE unknown
    BY <2>1 DEF Check
  <2>2. CASE invalid
    BY <2>2 DEF Check
  <2>3. CASE ~unknown /\ ~invalid
    BY <2>3 DEF Check
  <2> QED
    BY <2>1, <2>2, <2>3
<1> QED
  BY <1>1, FailRefines DEF Reject

\* What a rollback with each of its results needs to be a step of the store.
LEMMA RollbackRefines ==
  ASSUME Inv, ReadInv, NEW p \in Callers, pc[p] = "running", NEW kind, Rollback(p, kind),
         \/ kind = "error"
         \/ /\ kind = "missing" /\ call[p].op \in {"update", "delete", "get"}
            /\ db[UrlKey(p)].row = Absent
         \/ /\ kind = "conflict" /\ call[p].op = "create"
            /\ db[BodyKey(p)].row # Absent
         \/ /\ kind = "panic" /\ call[p].op = "list"
            /\ Store!Found(AbstractCalls[p]) = {} /\ Store!Lost(AbstractCalls[p]) # {}
  PROVE  Store!Fail(p) \/ Store!Missing(p) \/ Store!Conflict(p) \/ Store!ListPanics(p)
<1>1. /\ pc' = [pc EXCEPT ![p] = "returned"] /\ call' = call /\ db' = db
      /\ result' = [result EXCEPT ![p] = Result(kind, Nil)]
  BY DEF Rollback, Finish
<1>2. CASE kind = "error"
  BY <1>1, <1>2, FailRefines
<1>3. ASSUME kind \in {"missing", "conflict", "panic"}
      PROVE  Store!Answer(p, Result(kind, Nil)) /\ Statuses[p] = "pending"
  <2>1. PICK r : r = Result(kind, Nil)
    OBVIOUS
  <2>2. Answered(p, r) = r /\ Answers(p, r)
    BY <1>1, <1>3, <2>1 DEF Answered, Answers
  <2>3. Store!Answer(p, r) /\ Statuses[p] = "pending"
    BY <2>2, ReturnAnswers
  <2> QED
    BY <2>1, <2>3
<1>4. CASE /\ kind = "missing" /\ call[p].op \in {"update", "delete", "get"}
           /\ db[UrlKey(p)].row = Absent
  <2>1. ~Store!Exists(Store!URLSlot(AbstractCalls[p]))
    BY <1>4, CallOf DEF Store!Exists
  <2>2. AbstractCalls[p].op \in {"update", "delete", "get"}
    BY <1>4, CallOf
  <2> QED
    BY <1>1, <1>3, <1>4, <2>1, <2>2 DEF Store!Missing, Store!Calling
<1>5. CASE kind = "conflict" /\ call[p].op = "create" /\ db[BodyKey(p)].row # Absent
  <2>1. Store!Exists(Store!BodySlot(AbstractCalls[p]))
    BY <1>5, CallOf DEF Store!Exists
  <2>2. AbstractCalls[p].op = "create"
    BY <1>5, CallOf
  <2> QED
    BY <1>1, <1>3, <1>5, <2>1, <2>2 DEF Store!Conflict, Store!Calling
<1>6. CASE /\ kind = "panic" /\ call[p].op = "list"
           /\ Store!Found(AbstractCalls[p]) = {} /\ Store!Lost(AbstractCalls[p]) # {}
  <2>1. AbstractCalls[p].op = "list"
    BY <1>6, CallOf
  <2> QED
    BY <1>1, <1>3, <1>6, <2>1 DEF Store!ListPanics, Store!Calling
<1> QED
  BY <1>2, <1>4, <1>5, <1>6

\* The checks that a transaction begins with, and every failure of it.
LEMMA CheckRefines ==
  ASSUME Inv, ReadInv, Serial, NEW p \in Callers,
         \/ EnsureHasRecord(p) \/ EnsureDoesntHaveRecord(p)
  PROVE  Goes(p) \/ Store!Fail(p) \/ Store!Missing(p) \/ Store!Conflict(p)
         \/ Store!ListPanics(p)
<1>1. pc[p] = "running" /\ ~Done(p) /\ View(p) = db
  BY DEF EnsureHasRecord, EnsureDoesntHaveRecord, Executing, View, Serial
<1>2. Allowed(call[p], Current(p))
  BY <1>1, Running
<1>3. CASE EnsureHasRecord(p)
  <2>1. Current(p).do = "ensureHas" /\ call[p].op \in {"update", "delete", "get"}
    BY <1>2, <1>3 DEF EnsureHasRecord, Executing, Allowed
  <2>2. Key(call[p], Current(p)) = UrlKey(p)
    BY <2>1 DEF Key, UrlKey
  <2>3. \/ db[UrlKey(p)].row = Absent /\ Rollback(p, "missing")
        \/ Advance(p) /\ UNCHANGED <<latest, held, buf>>
    BY <1>1, <1>3, <2>2 DEF EnsureHasRecord
  <2>4. CASE db[UrlKey(p)].row = Absent /\ Rollback(p, "missing")
    BY <1>1, <2>1, <2>4, RollbackRefines
  <2>5. CASE Advance(p) /\ UNCHANGED <<latest, held, buf>>
    BY <1>1, <1>3, <2>5, StayMoves DEF Goes
  <2> QED
    BY <2>3, <2>4, <2>5
<1>4. CASE EnsureDoesntHaveRecord(p)
  <2>1. Current(p).do = "ensureDoesntHave" /\ call[p].op = "create"
    BY <1>2, <1>4 DEF EnsureDoesntHaveRecord, Executing, Allowed
  <2>2. Key(call[p], Current(p)) = BodyKey(p)
    BY <2>1 DEF Key, BodyKey
  <2>3. \/ db[BodyKey(p)].row # Absent /\ Rollback(p, "conflict")
        \/ Advance(p) /\ UNCHANGED <<latest, held, buf>>
    BY <1>1, <1>4, <2>2 DEF EnsureDoesntHaveRecord
  <2>4. CASE db[BodyKey(p)].row # Absent /\ Rollback(p, "conflict")
    BY <1>1, <2>1, <2>4, RollbackRefines
  <2>5. CASE Advance(p) /\ UNCHANGED <<latest, held, buf>>
    BY <1>1, <1>4, <2>5, StayMoves DEF Goes
  <2> QED
    BY <2>3, <2>4, <2>5
<1> QED
  BY <1>3, <1>4

\* The objects of a tenant and a type.
LEMMA AbstractScope ==
  ASSUME Inv, NEW p \in Callers, pc[p] # "idle", call[p].op \in {"get", "list"}, NEW id \in IDs
  PROVE  /\ <<AbstractCalls[p].tenant, AbstractCalls[p].type, id>> = Slot(p, id)
         /\ Slot(p, id) \in Slots
         /\ Slot(p, id) \in Scope(call[p]) <=> (call[p].op = "get" => id = call[p].id)
<1>1. call[p].tenant \in Tenants /\ call[p].type \in Types
  BY CallOf DEF Calls
<1>2. /\ <<AbstractCalls[p].tenant, AbstractCalls[p].type, id>> = Slot(p, id)
      /\ Slot(p, id) \in Slots
  BY <1>1, CallOf DEF Slot, Slots
<1>3. Slot(p, id)[1] = call[p].tenant /\ Slot(p, id)[2] = call[p].type /\ Slot(p, id)[3] = id
  BY DEF Slot
<1> QED
  BY <1>2, <1>3 DEF Scope

\* A reader that panics has found child rows only.
LEMMA PanicRefines ==
  ASSUME Inv, ReadInv, Serial, NEW p \in Callers, InProgress(p), SelectChildren(p),
         Rollback(p, "panic")
  PROVE  Store!Fail(p) \/ Store!Missing(p) \/ Store!Conflict(p) \/ Store!ListPanics(p)
<1> DEFINE t == Current(p).table
           found == {s \in Scope(call[p]) : db[s].sub[t] # {}}
<1>1. pc[p] = "running" /\ ~Done(p) /\ Current(p).do = "selectRows" /\ View(p) = db
  BY DEF SelectChildren, Executing, View, Serial
<1>2. call[p].op \in {"get", "list"} /\ t \in ChildTables
  BY <1>1, Running, ChildrenAreTables DEF Allowed
<1>3. step[p] > First(call[p]) /\ step[p] > 1
  <2>1. step[p] > First(call[p]) /\ step[p] \in Nat
    BY <1>1, <1>2, WhereReading, Running
  <2> QED
    BY <2>1 DEF First
<1>4. found # {} /\ buf[p].first = Nil
  <2> DEFINE seen(v) == {s \in Scope(call[p]) : v[s].sub[t] # {}}
  <2>1. (seen(View(p)) # {} /\ buf[p].first = Nil) \/ Advance(p)
    BY DEF SelectChildren
  <2>2. ~Advance(p)
    <3>1. pc'[p] = "returned"
      BY DEF Rollback, Finish, Inv, TypeOK
    <3> QED
      BY <1>1, <3>1 DEF Advance
  <2>3. seen(db) # {} /\ buf[p].first = Nil
    <3> HIDE DEF seen
    <3> QED
      BY <1>1, <2>1, <2>2
  <2> QED
    BY <2>3
<1>5. GathersNothing(p) /\ Found(p)
  BY <1>2, <1>3, <1>4 DEF InProgress, Gathered
<1>6. PICK s \in Scope(call[p]) : db[s].sub[t] # {}
  BY <1>4
<1>7. s \in Slots /\ s[3] \in IDs /\ s = Slot(p, s[3])
  BY ScopeSlots
<1>8. db[s].row = Absent
  BY <1>5 DEF GathersNothing
<1>9. call[p].op = "list"
  <2> SUFFICES ASSUME call[p].op = "get"
               PROVE  FALSE
    BY <1>2
  <2>1. s[3] = call[p].id
    BY DEF Scope
  <2>2. s = UrlKey(p)
    BY <1>7, <2>1 DEF Slot, UrlKey
  <2> QED
    BY <1>5, <1>8, <2>2 DEF Found
<1>10. Store!Found(AbstractCalls[p]) = {}
  <2> SUFFICES ASSUME NEW id \in IDs
               PROVE  ~Store!Exists(<<AbstractCalls[p].tenant, AbstractCalls[p].type, id>>)
    BY DEF Store!Found
  <2>1. /\ <<AbstractCalls[p].tenant, AbstractCalls[p].type, id>> = Slot(p, id)
        /\ Slot(p, id) \in Scope(call[p])
    BY <1>1, <1>2, <1>9, AbstractScope
  <2> QED
    BY <1>5, <2>1 DEF GathersNothing, Store!Exists
<1>11. s[3] \in Store!Lost(AbstractCalls[p])
  <2>1. <<AbstractCalls[p].tenant, AbstractCalls[p].type, s[3]>> = s
    BY <1>1, <1>2, <1>7, AbstractScope
  <2>2. db[s] # Store!Nothing
    BY <1>2, <1>6 DEF Store!Nothing
  <2> QED
    BY <1>7, <1>8, <2>1, <2>2 DEF Store!Lost, Store!Exists
<1>12. Store!Found(AbstractCalls[p]) = {} /\ Store!Lost(AbstractCalls[p]) # {}
  BY <1>10, <1>11
<1> QED
  BY <1>1, <1>9, <1>12, RollbackRefines

\* A step of a transaction that does not commit it.
LEMMA StatementRefines ==
  ASSUME Inv, ReadInv, Serial, NEW p \in Callers, InProgress(p), Statement(p) \/ Fail(p),
         ~Commit(p)
  PROVE  Goes(p) \/ Store!Fail(p) \/ Store!Missing(p) \/ Store!Conflict(p)
         \/ Store!ListPanics(p)
<1>1. pc[p] = "running"
  BY TransactionStep
<1>2. ASSUME Rollback(p, "error")
      PROVE  Store!Fail(p) \/ Store!Missing(p) \/ Store!Conflict(p) \/ Store!ListPanics(p)
  BY <1>1, <1>2, RollbackRefines
<1>3. CASE EnsureHasRecord(p) \/ EnsureDoesntHaveRecord(p)
  BY <1>3, CheckRefines
<1>4. CASE ReadUnknown(p) \/ NotOne(p) \/ Busy(p) \/ Fail(p)
  BY <1>2, <1>4 DEF ReadUnknown, NotOne, Busy, Fail
<1>5. CASE InsertMain(p) \/ InsertChildren(p)
  BY <1>2, <1>5, InsertMainMoves, InsertChildrenMoves DEF Goes
<1>6. CASE UpdateMain(p) \/ DeleteChildren(p) \/ DeleteMain(p) \/ ClearTable(p)
  BY <1>6, UpdateMainMoves, DeleteChildrenMoves, DeleteMainMoves, ClearTableMoves DEF Goes
<1>7. CASE SelectMain(p)
  BY <1>7, SelectMainMoves DEF Goes
<1>8. CASE SelectChildren(p)
  <2>1. Rollback(p, "panic") \/ Moves(p)
    BY <1>8, SelectChildrenMoves
  <2>2. CASE Rollback(p, "panic")
    BY <1>8, <2>2, PanicRefines
  <2>3. CASE Moves(p)
    BY <1>8, <2>3 DEF Goes
  <2> QED
    BY <2>1, <2>2, <2>3
<1> QED
  BY <1>3, <1>4, <1>5, <1>6, <1>7, <1>8 DEF Statement
-----------------------------------------------------------------------------
(* The commits.                                                            *)

\* What a commit answers.
LEMMA CommitAnswers ==
  ASSUME Inv, ReadInv, NEW p \in Callers, Commit(p), NEW a,
         a = Answered(p, Result("ok", Answer(p)))
  PROVE  Store!Answer(p, a) /\ Statuses[p] = "pending"
<1>1. PICK r : r = Result("ok", Answer(p))
  OBVIOUS
<1>2. Answers(p, r) /\ a = Answered(p, r)
  BY <1>1 DEF Commit, Finish, Answers
<1> QED
  BY <1>2, ReturnAnswers

\* What a commit stores, if it is about one key only.
LEMMA CommitOne ==
  ASSUME Inv, NEW p \in Callers, Commit(p), InProgress(p), NEW k \in Slots,
         \A s \in Slots \ {k} : db'[s] = db[s]
  PROVE  db' = [db EXCEPT ![k] = db'[k]] /\ db'[k] \in Stored /\ db[k] \in Stored
<1>1. db' = [s \in Slots |-> Own(p, s)] /\ db \in [Slots -> Stored]
  BY CommitOwn DEF Inv, TypeOK
<1>2. db'[k] = Own(p, k)
  BY <1>1
<1>3. db'[k] \in Stored /\ db[k] \in Stored
  BY <1>2, OwnType
<1>4. DOMAIN db' = Slots
  BY <1>1
<1>5. db' = [s \in Slots |-> db'[s]]
  BY <1>1
<1> QED
  BY <1>1, <1>3, <1>5

\* A create or an update stores what its request says.
LEMMA WriteStored ==
  ASSUME Inv, Shaped, NEW p \in Callers, Commit(p), InProgress(p),
         call[p].op \in {"create", "update"}, NEW k, k = BodyKey(p),
         NEW v, v = Content(call[p].type, call[p].body.data)
  PROVE  /\ k \in Slots
         /\ db' = [db EXCEPT ![k] = db'[k]]
         /\ call[p].op = "create" => db'[k] = Store!Created(db[k], v)
         /\ call[p].op = "update" => db'[k] = Store!Updated(db[k], v)
<1>1. pc[p] = "running" /\ Done(p) /\ \A s \in Slots : Makes(p, s, db'[s], db[s])
  BY CommitOwn
<1>2. call[p] \in Calls /\ Check(call[p]) = "ok"
  BY <1>1, Running
<1>3. k \in Slots /\ k[2] = call[p].type
  BY <1>2, Checked DEF BodyKey, Slots
<1>4. \A s \in Slots \ {k} : db'[s] = db[s]
  BY <1>1 DEF Makes
<1>5. PICK r, d : r = db'[k] /\ d = db[k]
  OBVIOUS
<1>6. db' = [db EXCEPT ![k] = r] /\ r \in Stored /\ d \in Stored
  BY <1>3, <1>4, <1>5, CommitOne
<1>7. r = [row |-> r.row, sub |-> [t \in ChildTables |-> r.sub[t]]]
  BY <1>6 DEF Stored
<1>8. v = [row |-> Row(p),
           sub |-> [t \in ChildTables |-> IF t \in Children(call[p].type) THEN Sub(p, t) ELSE {}]]
  BY DEF Content, Row, Sub
<1>9. \A t \in ChildTables : t \notin Children(call[p].type) => d.sub[t] = {}
  BY <1>3, <1>5 DEF Shaped, ShapedRow
<1>10. /\ step[p] > 2
       /\ \A t \in ChildTables : Ran(p, InsertRows(t)) <=> t \in Children(call[p].type)
  BY <1>1, WhereWriting
<1>11. CASE call[p].op = "create"
  <2>1. Creating(p, r, d)
    BY <1>1, <1>3, <1>5, <1>11 DEF Makes
  <2>2. r.row = Row(p)
    BY <1>10, <2>1 DEF Creating
  <2>3. ASSUME NEW t \in ChildTables
        PROVE  r.sub[t] = d.sub[t] \cup v.sub[t]
    <3>1. r.sub[t] = IF Ran(p, InsertRows(t)) THEN d.sub[t] \cup Sub(p, t) ELSE d.sub[t]
      BY <2>1 DEF Creating
    <3>2. v.sub[t] = IF t \in Children(call[p].type) THEN Sub(p, t) ELSE {}
      BY <1>8
    <3> QED
      BY <1>10, <3>1, <3>2
  <2>4. r = [row |-> Row(p), sub |-> [t \in ChildTables |-> d.sub[t] \cup v.sub[t]]]
    BY <1>7, <2>2, <2>3
  <2>5. Store!Created(d, v) =
          [row |-> Row(p), sub |-> [t \in ChildTables |-> d.sub[t] \cup v.sub[t]]]
    <3>1. v = [row |-> v.row, sub |-> v.sub] /\ v.row = Row(p)
      BY <1>8
    <3>2. ASSUME NEW x
          PROVE  [v EXCEPT !.sub = x] = [row |-> Row(p), sub |-> x]
      BY <3>1
    <3> QED
      BY <3>2 DEF Store!Created
  <2> QED
    BY <1>3, <1>5, <1>6, <1>11, <2>4, <2>5
<1>12. CASE call[p].op = "update"
  <2>1. Updating(p, r, d)
    BY <1>1, <1>3, <1>5, <1>12 DEF Makes
  <2>2. r.row = IF d.row = Absent THEN Absent ELSE Row(p)
    BY <1>10, <2>1 DEF Updating
  <2>3. ASSUME NEW t \in ChildTables
        PROVE  r.sub[t] = v.sub[t]
    <3>1. CASE t \in Children(call[p].type)
      BY <1>8, <1>10, <2>1, <3>1 DEF Updating
    <3>2. CASE t \notin Children(call[p].type)
      BY <1>8, <1>9, <1>10, <2>1, <3>2 DEF Updating
    <3> QED
      BY <3>1, <3>2
  <2>4. r = [row |-> IF d.row = Absent THEN Absent ELSE Row(p), sub |-> v.sub]
    <3>1. [t \in ChildTables |-> r.sub[t]] = v.sub
      BY <1>8, <2>3
    <3> QED
      BY <1>7, <2>2, <3>1
  <2>5. Store!Updated(d, v) = [row |-> IF d.row = Absent THEN Absent ELSE Row(p), sub |-> v.sub]
    <3>1. v = [row |-> v.row, sub |-> v.sub] /\ v.row = Row(p)
      BY <1>8
    <3>2. [v EXCEPT !.row = Absent] = [row |-> Absent, sub |-> v.sub]
      BY <3>1
    <3> QED
      BY <3>1, <3>2 DEF Store!Updated
  <2> QED
    BY <1>3, <1>5, <1>6, <1>12, <2>4, <2>5
<1> QED
  BY <1>11, <1>12

LEMMA WriteCommits ==
  ASSUME Inv, ReadInv, Shaped, NEW p \in Callers, Commit(p), InProgress(p),
         call[p].op \in {"create", "update"}
  PROVE  Store!Create(p) \/ Store!Update(p)
<1>1. PICK k, v : k = BodyKey(p) /\ v = Content(call[p].type, call[p].body.data)
  OBVIOUS
<1>2. pc[p] = "running" /\ Found(p)
  BY CommitOwn
<1>3. /\ k \in Slots /\ db' = [db EXCEPT ![k] = db'[k]]
      /\ call[p].op = "create" => db'[k] = Store!Created(db[k], v)
      /\ call[p].op = "update" => db'[k] = Store!Updated(db[k], v)
  BY <1>1, WriteStored
<1>4. /\ AbstractCalls[p].op = call[p].op /\ AbstractCalls[p].body.data = v
      /\ Store!BodySlot(AbstractCalls[p]) = k
      /\ Store!URLSlot(AbstractCalls[p]) = UrlKey(p)
  BY <1>1, <1>2, CallOf
<1>5. Store!Answer(p, Result("ok", v)) /\ Statuses[p] = "pending"
  <2>1. PICK a : a = Result("ok", v)
    OBVIOUS
  <2>2. a = Answered(p, Result("ok", Answer(p)))
    BY <1>1, <2>1 DEF Answered, Answer
  <2>3. Store!Answer(p, a) /\ Statuses[p] = "pending"
    BY <2>2, CommitAnswers
  <2> QED
    BY <2>1, <2>3
<1>6. CASE call[p].op = "create"
  <2>1. db[k].row = Absent
    BY <1>1, <1>2, <1>6 DEF Found
  <2>2. db' = [db EXCEPT ![k] = Store!Created(db[k], v)]
    BY <1>3, <1>6
  <2> QED
    BY <1>4, <1>5, <1>6, <2>1, <2>2 DEF Store!Create, Store!Calling, Store!Exists
<1>7. CASE call[p].op = "update"
  <2>1. db[UrlKey(p)].row # Absent
    BY <1>2, <1>7 DEF Found
  <2>2. db' = [db EXCEPT ![k] = Store!Updated(db[k], v)]
    BY <1>3, <1>7
  <2> QED
    BY <1>4, <1>5, <1>7, <2>1, <2>2 DEF Store!Update, Store!Calling, Store!Exists
<1> QED
  BY <1>6, <1>7

\* What a delete leaves of a resource.
LEMMA LeftDeleted ==
  ASSUME NEW p \in Callers, NEW r \in Stored
  PROVE  \E cascade \in BOOLEAN :
           cascade = ForeignKeys(p) /\ Store!Left(cascade, r) = Deleted(p, r)
<1>1. r = [row |-> r.row, sub |-> r.sub]
  BY DEF Stored
<1>2. r.row = Absent => [r EXCEPT !.row = Absent] = r
  BY <1>1
<1>3. PICK cascade \in BOOLEAN : cascade = ForeignKeys(p)
  BY DEF ForeignKeys
<1>4. CASE r.row = Absent
  <2>1. Store!Left(cascade, r) = r
    BY <1>4, Zenon DEF Store!Left
  <2>2. Deleted(p, r) = r
    BY <1>2, <1>4 DEF Deleted
  <2> QED
    BY <1>3, <2>1, <2>2
<1>5. CASE r.row # Absent /\ cascade
  <2>1. Store!Left(cascade, r) = Store!Nothing
    BY <1>5, Zenon DEF Store!Left
  <2>2. Deleted(p, r) = Nothing
    BY <1>3, <1>5 DEF Deleted
  <2> QED
    BY <1>3, <2>1, <2>2 DEF Nothing, Store!Nothing
<1>6. CASE r.row # Absent /\ ~cascade
  <2>1. Store!Left(cascade, r) = [r EXCEPT !.row = Absent]
    BY <1>6, Zenon DEF Store!Left
  <2>2. Deleted(p, r) = [r EXCEPT !.row = Absent]
    BY <1>3, <1>6 DEF Deleted
  <2> QED
    BY <1>3, <2>1, <2>2
<1> QED
  BY <1>4, <1>5, <1>6

LEMMA DeleteCommits ==
  ASSUME Inv, ReadInv, NEW p \in Callers, Commit(p), InProgress(p), call[p].op = "delete"
  PROVE  Store!Delete(p)
<1>1. PICK k : k = UrlKey(p)
  OBVIOUS
<1>2. /\ pc[p] = "running" /\ Done(p) /\ Found(p)
      /\ \A s \in Slots : Makes(p, s, db'[s], db[s])
  BY CommitOwn
<1>3. call[p] \in Calls /\ Check(call[p]) = "ok" /\ step[p] > 2
  BY <1>2, Running, WhereDeleting
<1>4. k \in Slots
  BY <1>1, <1>3, Checked DEF UrlKey, Slots
<1>5. \A s \in Slots \ {k} : db'[s] = db[s]
  BY <1>1, <1>2 DEF Makes
<1>6. db' = [db EXCEPT ![k] = db'[k]] /\ db[k] \in Stored
  BY <1>4, <1>5, CommitOne
<1>7. db'[k] = Deleted(p, db[k])
  BY <1>1, <1>2, <1>3, <1>4 DEF Makes
<1>8. PICK cascade \in BOOLEAN : Store!Left(cascade, db[k]) = Deleted(p, db[k])
  BY <1>6, LeftDeleted
<1>9. db' = [db EXCEPT ![k] = Store!Left(cascade, db[k])]
  BY <1>6, <1>7, <1>8
<1>10. db[k].row # Absent
  BY <1>1, <1>2 DEF Found
<1>11. AbstractCalls[p].op = "delete" /\ Store!URLSlot(AbstractCalls[p]) = k
  BY <1>1, <1>2, CallOf
<1>12. Store!Answer(p, Result("ok", Nil)) /\ Statuses[p] = "pending"
  <2>1. PICK a : a = Result("ok", Nil)
    OBVIOUS
  <2>2. a = Answered(p, Result("ok", Answer(p)))
    BY <2>1 DEF Answered, Answer
  <2>3. Store!Answer(p, a) /\ Statuses[p] = "pending"
    BY <2>2, CommitAnswers
  <2> QED
    BY <2>1, <2>3
<1> QED
  BY <1>9, <1>10, <1>11, <1>12 DEF Store!Delete, Store!Calling, Store!Exists

LEMMA ClearCommits ==
  ASSUME Inv, ReadInv, Shaped, NEW p \in Callers, Commit(p), InProgress(p),
         call[p].op = "clear"
  PROVE  Store!Clear(p)
<1>1. /\ pc[p] = "running" /\ Done(p)
      /\ db' = [s \in Slots |-> Own(p, s)]
      /\ \A s \in Slots : Makes(p, s, db'[s], db[s])
  BY CommitOwn
<1>2. AbstractCalls[p].op = "clear" /\ AbstractCalls[p].tenant = call[p].tenant
  BY <1>1, CallOf
<1>3. \A t \in mainTable : Ran(p, ClearOf(t))
  BY <1>1, WhereClearing
<1>4. PICK cascade \in BOOLEAN : cascade = ForeignKeys(p)
  BY DEF ForeignKeys
<1>5. ASSUME NEW s \in Slots
      PROVE  Deleted(p, db[s]) = Store!Left(cascade, db[s])
  BY <1>4, OwnType, LeftDeleted
<1>6. ASSUME NEW s \in Slots
      PROVE  db'[s] = IF s[1] = call[p].tenant THEN Store!Left(cascade, db[s]) ELSE db[s]
  <2>1. CASE s[1] = call[p].tenant /\ s[2] \in mainTable
    BY <1>1, <1>3, <1>5, <2>1 DEF Makes
  <2>2. CASE s[1] # call[p].tenant
    BY <1>1, <2>2 DEF Makes
  <2>3. CASE s[1] = call[p].tenant /\ s[2] \notin mainTable
    <3>1. db[s] = Nothing
      BY <2>3 DEF Shaped, ShapedRow
    <3>2. Deleted(p, Nothing) = Nothing
      BY DEF Deleted, Nothing
    <3>3. db'[s] = db[s]
      BY <1>1, <3>1, <3>2 DEF Makes
    <3> QED
      BY <1>5, <2>3, <3>1, <3>2, <3>3
  <2> QED
    BY <2>1, <2>2, <2>3
<1>7. db' = [s \in Slots |-> IF s[1] = call[p].tenant THEN Store!Left(cascade, db[s]) ELSE db[s]]
  <2>1. db' = [s \in Slots |-> db'[s]]
    BY <1>1
  <2> QED
    BY <1>6, <2>1
<1>8. Store!Answer(p, Result("ok", Nil)) /\ Statuses[p] = "pending"
  <2>1. PICK a : a = Result("ok", Nil)
    OBVIOUS
  <2>2. a = Answered(p, Result("ok", Answer(p)))
    BY <2>1 DEF Answered, Answer
  <2>3. Store!Answer(p, a) /\ Statuses[p] = "pending"
    BY <2>2, CommitAnswers
  <2> QED
    BY <2>1, <2>3
<1> QED
  BY <1>2, <1>7, <1>8 DEF Store!Clear, Store!Calling, Slots, Store!Slots

\* A reader commits nothing,
LEMMA ReadStores ==
  ASSUME Inv, NEW p \in Callers, Commit(p), InProgress(p), call[p].op \in {"get", "list"}
  PROVE  db' = db
<1>1. db' = [s \in Slots |-> Own(p, s)] /\ \A s \in Slots : Makes(p, s, db'[s], db[s])
  BY CommitOwn
<1>2. \A s \in Slots : db'[s] = db[s]
  BY <1>1 DEF Makes
<1> QED
  BY <1>1, <1>2 DEF Inv, TypeOK

\* nothing of which it knows is in tables that it has not read,
LEMMA ScopeShaped ==
  ASSUME Shaped, NEW p \in Callers, NEW t \in ChildTables, t \notin Children(call[p].type)
  PROVE  /\ \A s \in Scope(call[p]) : db[s].sub[t] = {}
         /\ LostSub(p, t) = {}
<1>1. \A s \in Scope(call[p]) : db[s].sub[t] = {}
  BY DEF Scope, Shaped, ShapedRow
<1> QED
  BY <1>1 DEF LostSub

\* and what it has of an object is what is committed and, in the first one, the
\* lost child rows.
LEMMA ObjectRead ==
  ASSUME Inv, Shaped, NEW p \in Callers, Commit(p), InProgress(p),
         call[p].op \in {"get", "list"}, NEW id \in IDs, Slot(p, id) \in Scope(call[p])
  PROVE  /\ buf[p].objs[id].row = db[Slot(p, id)].row
         /\ db[Slot(p, id)].row # Absent =>
              buf[p].objs[id] =
                [row |-> db[Slot(p, id)].row,
                 sub |-> [t \in ChildTables |->
                            db[Slot(p, id)].sub[t]
                              \cup (IF id = buf[p].first THEN LostSub(p, t) ELSE {})]]
<1>1. pc[p] = "running" /\ Done(p) /\ step[p] > 1 /\ Gathered(p)
  BY CommitOwn
<1>2. step[p] > First(call[p])
  BY <1>1, WhereReading
<1>3. call[p].type \in mainTable /\ Gathers(p, id)
  BY <1>1, <1>2 DEF Gathered
<1>4. \A t \in Children(call[p].type) : Ran(p, SelectRows(t))
  BY <1>1, <1>3, WhereReading
<1>5. PICK o, d : o = buf[p].objs[id] /\ d = db[Slot(p, id)]
  OBVIOUS
<1>6. o.row = d.row
  BY <1>3, <1>5 DEF Gathers
<1>7. o \in Stored
  BY <1>5 DEF Inv, TypeOK
<1>8. ASSUME d.row # Absent, NEW t \in ChildTables
      PROVE  o.sub[t] = d.sub[t] \cup (IF id = buf[p].first THEN LostSub(p, t) ELSE {})
  <2>1. o.sub[t] = IF Ran(p, SelectRows(t))
                   THEN d.sub[t] \cup (IF id = buf[p].first THEN LostSub(p, t) ELSE {})
                   ELSE {}
    BY <1>3, <1>5, <1>6, <1>8 DEF Gathers
  <2>2. t \notin Children(call[p].type) => d.sub[t] = {} /\ LostSub(p, t) = {}
    BY <1>5, ScopeShaped
  <2> QED
    BY <1>4, <2>1, <2>2
<1>9. o = [row |-> o.row, sub |-> [t \in ChildTables |-> o.sub[t]]]
  BY <1>7 DEF Stored
<1>10. ASSUME d.row # Absent
       PROVE  o = [row |-> d.row,
                   sub |-> [t \in ChildTables |->
                     d.sub[t] \cup (IF id = buf[p].first THEN LostSub(p, t) ELSE {})]]
  BY <1>6, <1>8, <1>9, <1>10
<1> QED
  BY <1>5, <1>6, <1>10

LEMMA GetCommits ==
  ASSUME Inv, ReadInv, Shaped, NEW p \in Callers, Commit(p), InProgress(p),
         call[p].op = "get"
  PROVE  Store!Get(p)
<1>1. PICK k, id : k = UrlKey(p) /\ id = call[p].id
  OBVIOUS
<1>2. pc[p] = "running" /\ Found(p)
  BY CommitOwn
<1>3. call[p] \in Calls /\ Check(call[p]) = "ok"
  BY <1>2, Running
<1>4. id \in IDs /\ k \in Slots /\ k = Slot(p, id) /\ k \in Scope(call[p])
  BY <1>1, <1>3, Checked DEF UrlKey, Slot, Slots, Scope, Calls
<1>5. db[k].row # Absent /\ db[k] \in Stored
  BY <1>1, <1>2, <1>4, OwnType DEF Found
<1>6. \A t : LostSub(p, t) = {}
  <2>1. \A s \in Scope(call[p]) : s = k
    BY <1>1, ScopeSlots DEF Scope, Slot, UrlKey
  <2> QED
    BY <1>5, <2>1 DEF LostSub
<1>7. buf[p].objs[id] = db[k] /\ buf[p].objs[id].row # Absent
  <2>1. buf[p].objs[id] = [row |-> db[k].row,
                           sub |-> [t \in ChildTables |-> db[k].sub[t] \cup
                              (IF id = buf[p].first THEN LostSub(p, t) ELSE {})]]
    BY <1>4, <1>5, ObjectRead
  <2>2. \A t \in ChildTables :
          db[k].sub[t] \cup (IF id = buf[p].first THEN LostSub(p, t) ELSE {}) = db[k].sub[t]
    BY <1>6
  <2>3. buf[p].objs[id] = [row |-> db[k].row, sub |-> [t \in ChildTables |-> db[k].sub[t]]]
    BY <2>1, <2>2
  <2>4. db[k] = [row |-> db[k].row, sub |-> [t \in ChildTables |-> db[k].sub[t]]]
    BY <1>5 DEF Stored
  <2> QED
    BY <1>5, <2>3, <2>4
<1>8. Answer(p) = db[k]
  BY <1>1, <1>7 DEF Answer
<1>9. db' = db
  BY ReadStores
<1>10. AbstractCalls[p].op = "get" /\ Store!URLSlot(AbstractCalls[p]) = k
  BY <1>1, <1>2, CallOf
<1>11. Store!Answer(p, Result("ok", db[k])) /\ Statuses[p] = "pending"
  <2>1. PICK a : a = Result("ok", db[k])
    OBVIOUS
  <2>2. a = Answered(p, Result("ok", Answer(p)))
    BY <1>8, <2>1 DEF Answered
  <2>3. Store!Answer(p, a) /\ Statuses[p] = "pending"
    BY <2>2, CommitAnswers
  <2> QED
    BY <2>1, <2>3
<1> QED
  BY <1>5, <1>9, <1>10, <1>11 DEF Store!Get, Store!Calling, Store!Exists

\* The child rows without a row that a list comes across are those of the store.
LEMMA LostAgree ==
  ASSUME Inv, NEW p \in Callers, pc[p] # "idle", call[p].op = "list", NEW t \in ChildTables
  PROVE  LostSub(p, t) = Store!LostRows(AbstractCalls[p], t)
<1> DEFINE c == AbstractCalls[p]
           at(id) == <<c.tenant, c.type, id>>
<1>1. ASSUME NEW id \in IDs
      PROVE  /\ at(id) \in Scope(call[p]) /\ at(id) = Slot(p, id)
             /\ id \in Store!Lost(c) <=> db[at(id)].row = Absent /\ db[at(id)] # Nothing
  BY <1>1, AbstractScope DEF Store!Lost, Store!Exists, Nothing, Store!Nothing
<1>2. ASSUME NEW s \in Scope(call[p])
      PROVE  s[3] \in IDs /\ at(s[3]) = s
  BY <1>1, <1>2, ScopeSlots
<1>3. Store!LostRows(c, t) = UNION {db[at(id)].sub[t] : id \in Store!Lost(c)}
  BY DEF Store!LostRows
<1>4. Store!Lost(c) \subseteq IDs
  BY DEF Store!Lost
<1>5. Nothing.sub[t] = {}
  BY DEF Nothing
<1> HIDE DEF c, at
<1>6. ASSUME NEW x \in LostSub(p, t)
      PROVE  x \in Store!LostRows(c, t)
  <2>1. PICK s \in Scope(call[p]) : db[s].row = Absent /\ x \in db[s].sub[t]
    BY DEF LostSub
  <2>2. s[3] \in IDs /\ at(s[3]) = s
    BY <1>2
  <2>3. db[s] # Nothing
    BY <1>5, <2>1
  <2>4. s[3] \in Store!Lost(c)
    BY <1>1, <2>1, <2>2, <2>3
  <2> QED
    BY <1>3, <2>1, <2>2, <2>4
<1>7. ASSUME NEW x \in Store!LostRows(c, t)
      PROVE  x \in LostSub(p, t)
  <2>1. PICK id \in Store!Lost(c) : x \in db[at(id)].sub[t]
    BY <1>3
  <2>2. at(id) \in Scope(call[p]) /\ db[at(id)].row = Absent
    BY <1>1, <1>4
  <2> QED
    BY <2>1, <2>2 DEF LostSub
<1>8. LostSub(p, t) = Store!LostRows(c, t)
  BY <1>6, <1>7
<1> QED
  BY <1>8 DEF c

\* The first object of a list is one of those found, and without any object there
\* are no lost child rows.
LEMMA ListFirst ==
  ASSUME Inv, Shaped, NEW p \in Callers, Commit(p), InProgress(p), call[p].op = "list",
         NEW c, c = AbstractCalls[p]
  PROVE  /\ Store!Found(c) = {} => Store!Lost(c) = {}
         /\ Store!Found(c) # {} => buf[p].first \in Store!Found(c)
<1> DEFINE at(id) == <<c.tenant, c.type, id>>
<1>1. pc[p] = "running" /\ Done(p) /\ Gathered(p)
  BY CommitOwn
<1>2. step[p] > First(call[p])
  BY <1>1, WhereReading
<1>3. /\ call[p].type \in mainTable
      /\ buf[p].first = Nil => GathersNothing(p)
      /\ buf[p].first # Nil => db[Slot(p, buf[p].first)].row # Absent
  BY <1>1, <1>2 DEF Gathered
<1>4. \A t \in Children(call[p].type) : Ran(p, SelectRows(t))
  BY <1>1, <1>3, WhereReading
<1>5. buf[p].first \in IDs \cup {Nil}
  BY DEF Inv, TypeOK
<1>6. ASSUME NEW id \in IDs
      PROVE  at(id) = Slot(p, id) /\ Slot(p, id) \in Scope(call[p]) /\ Slot(p, id) \in Slots
  BY <1>1, AbstractScope
<1>7. CASE buf[p].first = Nil
  <2>1. ASSUME NEW id \in IDs
        PROVE  db[at(id)] = Store!Nothing /\ db[at(id)].row = Absent
    <3>1. PICK s \in Slots : s = at(id) /\ s \in Scope(call[p])
      BY <1>6
    <3>2. db[s].row = Absent
      BY <1>3, <1>7, <3>1 DEF GathersNothing
    <3>3. ASSUME NEW t \in ChildTables
          PROVE  db[s].sub[t] = {}
      <4>1. CASE t \in Children(call[p].type)
        BY <1>3, <1>4, <1>7, <3>1, <4>1 DEF GathersNothing
      <4>2. CASE t \notin Children(call[p].type)
        BY <3>1, <4>2, ScopeShaped
      <4> QED
        BY <4>1, <4>2
    <3>4. db[s] \in Stored
      BY OwnType
    <3>5. db[s] = [row |-> db[s].row, sub |-> [t \in ChildTables |-> db[s].sub[t]]]
      BY <3>4 DEF Stored
    <3>6. [t \in ChildTables |-> db[s].sub[t]] = [t \in ChildTables |-> {}]
      BY <3>3
    <3>7. db[s] = [row |-> Absent, sub |-> [t \in ChildTables |-> {}]]
      BY <3>2, <3>5, <3>6
    <3> QED
      BY <3>1, <3>2, <3>7 DEF Store!Nothing
  <2> QED
    BY <2>1 DEF Store!Found, Store!Lost, Store!Exists
<1>8. CASE buf[p].first # Nil
  <2>1. buf[p].first \in IDs
    BY <1>5, <1>8
  <2> QED
    BY <1>3, <1>6, <1>8, <2>1 DEF Store!Found, Store!Exists
<1> QED
  BY <1>7, <1>8

\* A list answers what the store lists.
LEMMA ListAnswer ==
  ASSUME Inv, Shaped, NEW p \in Callers, Commit(p), InProgress(p), call[p].op = "list",
         NEW c, c = AbstractCalls[p], NEW first,
         Store!Found(c) # {} => first = buf[p].first
  PROVE  Answer(p) = Store!Listed(c, first)
<1>1. pc[p] = "running"
  BY CommitOwn
<1> DEFINE object(id) == IF buf[p].objs[id].row = Absent THEN Absent ELSE buf[p].objs[id]
           lost(t) == Store!LostRows(c, t)
           listed(r, id) ==
             CASE id \notin Store!Found(c) -> Absent
               [] id \in Store!Found(c) /\ id = first ->
                    [r EXCEPT !.sub = [t \in ChildTables |-> r.sub[t] \cup lost(t)]]
               [] OTHER -> r
<1>2. ASSUME NEW id \in IDs
      PROVE  object(id) = listed(db[<<c.tenant, c.type, id>>], id)
  <2>1. PICK s \in Slots : /\ s = Slot(p, id) /\ s = <<c.tenant, c.type, id>>
                           /\ s \in Scope(call[p])
    BY <1>1, AbstractScope
  <2>2. id \in Store!Found(c) <=> db[s].row # Absent
    BY <2>1 DEF Store!Found, Store!Exists
  <2>3. PICK d \in Stored : d = db[s]
    BY OwnType
  <2>4. /\ buf[p].objs[id].row = d.row
        /\ d.row # Absent => buf[p].objs[id] =
             [row |-> d.row,
              sub |-> [t \in ChildTables |->
                 d.sub[t] \cup (IF id = buf[p].first THEN LostSub(p, t) ELSE {})]]
    <3>1. Slot(p, id) \in Scope(call[p]) /\ d = db[Slot(p, id)]
      BY <2>1, <2>3
    <3>2. /\ buf[p].objs[id].row = db[Slot(p, id)].row
          /\ db[Slot(p, id)].row # Absent => buf[p].objs[id] =
               [row |-> db[Slot(p, id)].row,
                sub |-> [t \in ChildTables |->
                   db[Slot(p, id)].sub[t]
                     \cup (IF id = buf[p].first THEN LostSub(p, t) ELSE {})]]
      BY <3>1, ObjectRead
    <3> QED
      BY <3>1, <3>2
  <2>5. d = [row |-> d.row, sub |-> [t \in ChildTables |-> d.sub[t]]]
    BY DEF Stored
  <2>6. CASE id \notin Store!Found(c)
    <3>1. object(id) = Absent
      BY <2>2, <2>3, <2>4, <2>6
    <3>2. listed(d, id) = Absent
      BY <2>6, Zenon
    <3> QED
      BY <2>1, <2>3, <3>1, <3>2
  <2>7. CASE id \in Store!Found(c) /\ id = first
    <3>1. id = buf[p].first
      BY <2>7
    <3>2. \A t \in ChildTables : LostSub(p, t) = lost(t)
      BY <1>1, LostAgree
    <3>3. [t \in ChildTables |->
             d.sub[t] \cup (IF id = buf[p].first THEN LostSub(p, t) ELSE {})]
          = [t \in ChildTables |-> d.sub[t] \cup lost(t)]
      BY <3>1, <3>2
    <3>4. object(id) = [row |-> d.row, sub |-> [t \in ChildTables |-> d.sub[t] \cup lost(t)]]
      BY <2>2, <2>3, <2>4, <2>7, <3>3
    <3>5. ASSUME NEW x
          PROVE  [d EXCEPT !.sub = x] = [row |-> d.row, sub |-> x]
      BY <2>5
    <3>6. listed(d, id) = [d EXCEPT !.sub = [t \in ChildTables |-> d.sub[t] \cup lost(t)]]
      BY <2>7, Zenon
    <3> HIDE DEF object, listed
    <3> QED
      BY <2>1, <2>3, <3>4, <3>5, <3>6
  <2>8. CASE id \in Store!Found(c) /\ id # first
    <3>1. id # buf[p].first
      BY <2>8
    <3>2. [t \in ChildTables |->
             d.sub[t] \cup (IF id = buf[p].first THEN LostSub(p, t) ELSE {})]
          = [t \in ChildTables |-> d.sub[t]]
      BY <3>1
    <3>3. object(id) = [row |-> d.row, sub |-> [t \in ChildTables |-> d.sub[t]]]
      BY <2>2, <2>3, <2>4, <2>8, <3>2
    <3>4. listed(d, id) = d
      BY <2>8, Zenon
    <3> HIDE DEF object, listed
    <3> QED
      BY <2>1, <2>3, <2>5, <3>3, <3>4
  <2> QED
    BY <2>6, <2>7, <2>8
<1>3. Answer(p) = [id \in IDs |-> object(id)]
  BY DEF Answer
<1>4. Store!Listed(c, first) = [id \in IDs |-> listed(db[<<c.tenant, c.type, id>>], id)]
  BY DEF Store!Listed
<1> HIDE DEF object, listed
<1> QED
  BY <1>2, <1>3, <1>4

LEMMA ListCommits ==
  ASSUME Inv, ReadInv, Shaped, NEW p \in Callers, Commit(p), InProgress(p),
         call[p].op = "list"
  PROVE  Store!List(p)
<1>1. PICK c : c = AbstractCalls[p]
  OBVIOUS
<1>2. pc[p] = "running"
  BY CommitOwn
<1>3. c.op = "list" /\ call[p].id \in IDs
  BY <1>1, <1>2, CallOf DEF Calls
<1>4. /\ Store!Found(c) = {} => Store!Lost(c) = {}
      /\ Store!Found(c) # {} => buf[p].first \in Store!Found(c)
  BY <1>1, ListFirst
<1>5. PICK first \in IDs : Store!Found(c) # {} => first = buf[p].first
  <2>1. Store!Found(c) \subseteq IDs
    BY DEF Store!Found
  <2> QED
    BY <1>3, <1>4, <2>1
<1>6. Answer(p) = Store!Listed(c, first)
  BY <1>1, <1>5, ListAnswer
<1>7. Store!Answer(p, Result("ok", Store!Listed(c, first))) /\ Statuses[p] = "pending"
  <2>1. PICK a : a = Result("ok", Store!Listed(c, first))
    OBVIOUS
  <2>2. a = Answered(p, Result("ok", Answer(p)))
    BY <1>6, <2>1 DEF Answered
  <2>3. Store!Answer(p, a) /\ Statuses[p] = "pending"
    BY <2>2, CommitAnswers
  <2> QED
    BY <2>1, <2>3
<1>8. db' = db
  BY ReadStores
<1> QED
  BY <1>1, <1>3, <1>4, <1>5, <1>7, <1>8 DEF Store!List, Store!Calling

LEMMA CommitRefines ==
  ASSUME Inv, ReadInv, Shaped, NEW p \in Callers, Commit(p), InProgress(p)
  PROVE  Store!Next
<1>1. call[p].op \in Ops
  BY CommitOwn, Running DEF Calls
<1>2. CASE call[p].op \in {"create", "update"}
  BY <1>2, WriteCommits DEF Store!Next
<1>3. CASE call[p].op = "delete"
  BY <1>3, DeleteCommits DEF Store!Next
<1>4. CASE call[p].op = "clear"
  BY <1>4, ClearCommits DEF Store!Next
<1>5. CASE call[p].op = "get"
  BY <1>5, GetCommits DEF Store!Next
<1>6. CASE call[p].op = "list"
  BY <1>6, ListCommits DEF Store!Next
<1> QED
  BY <1>1, <1>2, <1>3, <1>4, <1>5, <1>6 DEF Ops
-----------------------------------------------------------------------------
(* The other steps.                                                        *)

LEMMA InvokeRefines ==
  ASSUME Inv, NEW p \in Callers, Invoke(p)
  PROVE  Store!Invoke(p)
<1>1. PICK c \in Requests : call' = [call EXCEPT ![p] = c]
  BY DEF Invoke
<1>2. /\ pc[p] = "idle" /\ pc'[p] = "called" /\ result' = result
      /\ \A q \in Callers \ {p} : pc'[q] = pc[q] /\ call'[q] = call[q]
      /\ call'[p] = c
  BY <1>1 DEF Invoke, Inv, TypeOK
<1>3. Statuses[p] = "idle" /\ Statuses'[p] = "pending"
  BY <1>2 DEF Statuses
<1>4. \A q \in Callers \ {p} : Statuses'[q] = Statuses[q] /\ Results'[q] = Results[q]
  BY <1>2 DEF Statuses, Results
<1>5. Results'[p] = Results[p]
  BY <1>2 DEF Results
<1>6. Statuses' = [Statuses EXCEPT ![p] = "pending"] /\ Results' = Results
  BY <1>3, <1>4, <1>5 DEF Statuses, Results
<1>7. AbstractCalls' = [AbstractCalls EXCEPT ![p] = Abstract(c)]
  BY <1>2 DEF AbstractCalls
<1> QED
  BY <1>3, <1>6, <1>7 DEF Store!Invoke, Invoke

LEMMA ReturnRefines ==
  ASSUME Inv, ReadInv, NEW p \in Callers, Return(p)
  PROVE  Store!Return(p)
<1>1. /\ pc[p] = "returned" /\ pc'[p] = "idle" /\ call'[p] = Nil /\ result'[p] = Nil
      /\ \A q \in Callers \ {p} : pc'[q] = pc[q] /\ call'[q] = call[q] /\ result'[q] = result[q]
  BY DEF Return, Inv, TypeOK, ReadInv
<1>2. Statuses[p] = "done" /\ Statuses'[p] = "idle"
  BY <1>1 DEF Statuses
<1>3. \A q \in Callers \ {p} : Statuses'[q] = Statuses[q] /\ Results'[q] = Results[q]
  BY <1>1 DEF Statuses, Results
<1>4. Results'[p] = Nil
  BY <1>1 DEF Results
<1>5. Statuses' = [Statuses EXCEPT ![p] = "idle"]
  BY <1>2, <1>3 DEF Statuses
<1>6. Results' = [Results EXCEPT ![p] = Nil]
  BY <1>3, <1>4, OneResult
<1>7. AbstractCalls' = [AbstractCalls EXCEPT ![p] = Nil]
  <2>1. Abstract(Nil) = Nil
    BY DEF Abstract
  <2> QED
    BY <1>1, <2>1 DEF AbstractCalls
<1> QED
  BY <1>2, <1>5, <1>6, <1>7 DEF Store!Return, Return

\* A statement that lets a transaction go on is invisible.
LEMMA GoesRefines ==
  ASSUME NEW p \in Callers, Goes(p)
  PROVE  UNCHANGED Store!vars
<1>1. UNCHANGED <<db, call, pc, result>>
  BY DEF Goes, Moves, Advance
<1> QED
  BY <1>1, Stutter DEF Statuses, Results

LEMMA BeginRefines ==
  ASSUME Inv, NEW p \in Callers, Begin(p)
  PROVE  UNCHANGED Store!vars
<1>1. /\ UNCHANGED <<db, call, result>> /\ pc[p] = "called" /\ pc'[p] = "running"
      /\ \A q \in Callers \ {p} : pc'[q] = pc[q]
  BY DEF Begin, Inv, TypeOK
<1> QED
  BY <1>1, Stutter DEF Statuses, Results

\* The invariant of a serializable backend, with everything it rests on.
SerialInv == Inv /\ OrphanInv /\ WholeInv /\ ReadInv /\ AtomInv

LEMMA StepRefines == SerialInv /\ [Next]_vars => [Store!Next]_Store!vars
<1> SUFFICES ASSUME SerialInv, [Next]_vars PROVE [Store!Next]_Store!vars
  OBVIOUS
<1> USE DEF SerialInv
<1>1. CASE Expire \/ UNCHANGED vars
  <2>1. UNCHANGED <<db, call, pc, result>>
    BY <1>1 DEF Expire, vars
  <2> QED
    BY <2>1, Stutter DEF Statuses, Results
<1>2. ASSUME NEW p \in Callers, Invoke(p)
      PROVE  Store!Next
  BY <1>2, InvokeRefines DEF Store!Next
<1>3. ASSUME NEW p \in Callers, Reject(p)
      PROVE  Store!Next
  BY <1>3, RejectRefines DEF Store!Next
<1>4. ASSUME NEW p \in Callers, Begin(p)
      PROVE  UNCHANGED Store!vars
  BY <1>4, BeginRefines
<1>5. ASSUME NEW p \in Callers, Return(p)
      PROVE  Store!Next
  BY <1>5, ReturnRefines DEF Store!Next
<1>6. ASSUME NEW p \in Callers, Statement(p) \/ Fail(p)
      PROVE  [Store!Next]_Store!vars
  <2>1. Serial /\ Shaped /\ InProgress(p)
    BY <1>6, TransactionStep DEF AtomInv, AllMade
  <2>2. CASE Commit(p)
    BY <2>1, <2>2, CommitRefines
  <2>3. CASE ~Commit(p)
    <3>1. Goes(p) \/ Store!Fail(p) \/ Store!Missing(p) \/ Store!Conflict(p)
          \/ Store!ListPanics(p)
      BY <1>6, <2>1, <2>3, StatementRefines
    <3> QED
      BY <3>1, GoesRefines DEF Store!Next
  <2> QED
    BY <2>2, <2>3
<1> QED
  BY <1>1, <1>2, <1>3, <1>4, <1>5, <1>6 DEF Next

\* With serializable transactions, on connections with and without foreign keys,
\* and whatever ID is in the body of an update: every call of a method of
\* SQLBackend takes effect at one moment between its call and its return, or has
\* no effect. A create conflicts exactly with what exists, an update that answers
\* has replaced all child rows, and a list shows one moment.
THEOREM Refinement == Serial /\ Spec => ImplementsStore
<1>1. Serial /\ Init => SerialInv
  BY InitInv, OrphanInit, WholeInit, ReadInit, AtomInit DEF SerialInv
<1>2. SerialInv /\ [Next]_vars => SerialInv'
  BY NextInv, OrphanNext, WholeNext, ReadNext, AtomNext DEF SerialInv
<1>3. Serial /\ Spec => []SerialInv
  BY <1>1, <1>2, PTL DEF Spec
<1>4. Serial /\ Spec => Store!Init
  BY InitRefines DEF Spec
<1> QED
  BY <1>3, <1>4, StepRefines, PTL DEF Spec, ImplementsStore, Store!Spec
=============================================================================
