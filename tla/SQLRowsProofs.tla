---------------------------- MODULE SQLRowsProofs ----------------------------
(***************************************************************************)
(* Proofs about the rows that the transactions of SQLBackend leave behind: *)
(* no orphans where connections enforce foreign keys and, at an isolation  *)
(* level above read committed, no mixture of two requests, neither in the  *)
(* tables nor in what a get or a list returns.                             *)
(***************************************************************************)
EXTENDS SQLBackendProofs

-----------------------------------------------------------------------------
(* What each statement does to the rows under one key.                     *)

UrlKey(p)  == <<call[p].tenant, call[p].type, call[p].id>>
BodyKey(p) == <<call[p].tenant, call[p].type, call[p].body.id>>
Row(p)     == RowOf[call[p].body.data]
Sub(p, t)  == ItemsOf[call[p].body.data][t]

\* A statement of p stores r under k.
Stores(p, k, r) ==
  /\ Moves(p) /\ buf' = buf /\ Writers(p, {k}) = {}
  /\ k \in Slots /\ r \in Stored
  /\ latest' = [latest EXCEPT ![k] = r]
  /\ held'[p] = held[p] \cup
       IF Isolation = "repeatableRead" \/ latest[k] # Nothing \/ r # Nothing THEN {k} ELSE {}

LEMMA WriteStores ==
  ASSUME Inv, NEW p \in Callers, pc[p] = "running", ~Done(p),
         NEW k \in Slots, NEW new, new[k] \in Stored, Write(p, {k}, new)
  PROVE  Stores(p, k, new[k])
<1>1. latest \in [Slots -> Stored] /\ held \in [Callers -> SUBSET Slots]
  BY DEF Inv, TypeOK
<1>2. /\ latest' = [s \in Slots |-> IF s \in {k} THEN new[s] ELSE latest[s]]
      /\ held' = [held EXCEPT ![p] =
                    @ \cup {s \in {k} : \/ Isolation = "repeatableRead"
                                       \/ latest[s] # Nothing \/ new[s] # Nothing}]
      /\ Writers(p, {k}) = {} /\ buf' = buf
  BY DEF Write
<1>3. latest' = [latest EXCEPT ![k] = new[k]]
  BY <1>1, <1>2
<1>4. held'[p] = held[p] \cup
        IF Isolation = "repeatableRead" \/ latest[k] # Nothing \/ new[k] # Nothing THEN {k} ELSE {}
  BY <1>1, <1>2
<1> QED
  BY <1>2, <1>3, <1>4, WriteOneMoves DEF Stores

\* The calls that write, and the keys their statements are about.
LEMMA Keys ==
  ASSUME Inv, NEW p \in Callers, pc[p] = "running", ~Done(p)
  PROVE  /\ Current(p).do \in {"insert", "insertRows", "update", "deleteRows"} =>
              /\ Key(call[p], Current(p)) = BodyKey(p) /\ BodyKey(p) \in Slots
              /\ call[p].op \in {"create", "update"}
              /\ Row(p) \in Rows
         /\ Current(p).do \in {"ensureHas", "delete"} =>
              /\ Key(call[p], Current(p)) = UrlKey(p) /\ UrlKey(p) \in Slots
         /\ Current(p).do = "insert" => call[p].op = "create"
         /\ Current(p).do = "update" => call[p].op = "update"
         /\ Current(p).do = "delete" => call[p].op = "delete"
         /\ Current(p).do = "clear" => call[p].op = "clear"
         /\ Current(p).do \in {"insertRows", "deleteRows"} =>
              /\ Current(p).table \in Children(call[p].type)
              /\ Current(p).table \in ChildTables
              /\ Sub(p, Current(p).table) \subseteq Items
         /\ Current(p).do = "deleteRows" => call[p].op = "update"
<1>1. call[p] \in Calls /\ Allowed(call[p], Current(p))
  BY Running
<1>2. ASSUME Current(p).do \in {"insert", "insertRows", "update", "deleteRows"}
      PROVE  /\ Key(call[p], Current(p)) = BodyKey(p) /\ BodyKey(p) \in Slots
             /\ call[p].op \in {"create", "update"}
             /\ Row(p) \in Rows
             /\ \A t \in ChildTables : Sub(p, t) \subseteq Items
  <2>1. call[p].op \in {"create", "update"}
    BY <1>1, <1>2 DEF Allowed
  <2>2. Key(call[p], Current(p)) = BodyKey(p)
    BY <1>2 DEF Key, BodyKey
  <2> QED
    BY <1>2, <2>1, <2>2, KeyType DEF Row, Sub
<1>3. ASSUME Current(p).do \in {"ensureHas", "delete"}
      PROVE  Key(call[p], Current(p)) = UrlKey(p) /\ UrlKey(p) \in Slots
  <2>1. call[p].op \in {"update", "delete", "get"}
    BY <1>1, <1>3 DEF Allowed
  <2>2. Key(call[p], Current(p)) = UrlKey(p)
    BY <1>3 DEF Key, UrlKey
  <2> QED
    BY <1>3, <2>1, <2>2, KeyType
<1>4. /\ Current(p).do = "insert" => call[p].op = "create"
      /\ Current(p).do = "update" => call[p].op = "update"
      /\ Current(p).do = "delete" => call[p].op = "delete"
      /\ Current(p).do = "clear" => call[p].op = "clear"
      /\ Current(p).do \in {"insertRows", "deleteRows"} =>
           Current(p).table \in Children(call[p].type)
      /\ Current(p).do = "deleteRows" => call[p].op = "update"
  BY <1>1 DEF Allowed
<1> QED
  BY <1>2, <1>3, <1>4, ChildrenAreTables

\* INSERT INTO the main table: only where there is no row,
LEMMA InsertMainStores ==
  ASSUME Inv, NEW p \in Callers, InsertMain(p), ~Rollback(p, "error")
  PROVE  /\ pc[p] = "running" /\ ~Done(p) /\ Current(p).do = "insert"
         /\ latest[BodyKey(p)].row = Absent
         /\ Stores(p, BodyKey(p), [latest[BodyKey(p)] EXCEPT !.row = Row(p)])
<1> DEFINE k == BodyKey(p)
           new == [latest EXCEPT ![k].row = Row(p)]
<1>1. pc[p] = "running" /\ ~Done(p) /\ Current(p).do = "insert"
  BY DEF InsertMain, Executing
<1>2. Key(call[p], Current(p)) = k /\ k \in Slots /\ Row(p) \in Rows
  BY <1>1, Keys
<1>3. latest \in [Slots -> Stored]
  BY DEF Inv, TypeOK
<1>4. latest[k].row = Absent /\ Write(p, {k}, new)
  BY <1>2 DEF InsertMain, Row
<1>5. new[k] = [latest[k] EXCEPT !.row = Row(p)] /\ new[k] \in Stored
  BY <1>2, <1>3 DEF Stored
<1> HIDE DEF new, k
<1>6. Stores(p, k, new[k])
  BY <1>1, <1>2, <1>4, <1>5, WriteStores
<1> QED
  BY <1>1, <1>4, <1>5, <1>6 DEF k

\* into a child table: not without a row, where foreign keys are enforced,
LEMMA InsertChildrenStores ==
  ASSUME Inv, NEW p \in Callers, InsertChildren(p), ~Rollback(p, "error")
  PROVE  /\ pc[p] = "running" /\ ~Done(p) /\ Current(p).do = "insertRows"
         /\ \/ /\ Sub(p, Current(p).table) = {}
               /\ Moves(p) /\ UNCHANGED <<latest, held, buf>>
            \/ /\ latest[BodyKey(p)].row # Absent \/ ~ForeignKeys(p)
               /\ Stores(p, BodyKey(p), [latest[BodyKey(p)] EXCEPT
                                           !.sub[Current(p).table] = @ \cup Sub(p, Current(p).table)])
<1> DEFINE k == BodyKey(p)
           t == Current(p).table
           new == [latest EXCEPT ![k].sub[t] = @ \cup Sub(p, t)]
<1>1. pc[p] = "running" /\ ~Done(p) /\ Current(p).do = "insertRows"
  BY DEF InsertChildren, Executing
<1>2. /\ Key(call[p], Current(p)) = k /\ k \in Slots
      /\ t \in ChildTables /\ Sub(p, t) \subseteq Items
  BY <1>1, Keys
<1>3. latest \in [Slots -> Stored]
  BY DEF Inv, TypeOK
<1>4. \/ Sub(p, t) = {} /\ Advance(p) /\ UNCHANGED <<latest, held, buf>>
      \/ (latest[k].row # Absent \/ ~ForeignKeys(p)) /\ Write(p, {k}, new)
  BY <1>2 DEF InsertChildren, Sub
<1>5. new[k] = [latest[k] EXCEPT !.sub[t] = @ \cup Sub(p, t)] /\ latest[k] \in Stored
  BY <1>2, <1>3
<1> HIDE DEF new, k, t
<1>6. new[k] \in Stored
  BY <1>2, <1>5 DEF Stored
<1>7. Write(p, {k}, new) => Stores(p, k, new[k])
  BY <1>1, <1>2, <1>6, WriteStores
<1>8. Advance(p) /\ UNCHANGED <<latest, held, buf>> => Moves(p)
  BY <1>1, StayMoves
<1>9. \/ Sub(p, t) = {} /\ Moves(p) /\ UNCHANGED <<latest, held, buf>>
      \/ (latest[k].row # Absent \/ ~ForeignKeys(p)) /\ Stores(p, k, new[k])
  BY <1>4, <1>7, <1>8
<1> QED
  BY <1>1, <1>5, <1>9 DEF k, t

\* UPDATE of the main table: nothing, if there is no row,
LEMMA UpdateMainStores ==
  ASSUME Inv, NEW p \in Callers, UpdateMain(p)
  PROVE  /\ pc[p] = "running" /\ ~Done(p) /\ Current(p).do = "update"
         /\ Stores(p, BodyKey(p), IF latest[BodyKey(p)].row = Absent THEN latest[BodyKey(p)]
                                  ELSE [latest[BodyKey(p)] EXCEPT !.row = Row(p)])
<1> DEFINE k == BodyKey(p)
           new == IF latest[k].row = Absent THEN latest
                  ELSE [latest EXCEPT ![k].row = Row(p)]
<1>1. pc[p] = "running" /\ ~Done(p) /\ Current(p).do = "update"
  BY DEF UpdateMain, Executing
<1>2. Key(call[p], Current(p)) = k /\ k \in Slots /\ Row(p) \in Rows
  BY <1>1, Keys
<1>3. latest \in [Slots -> Stored]
  BY DEF Inv, TypeOK
<1>4. Write(p, {k}, new)
  BY <1>2 DEF UpdateMain, Row
<1>5. /\ new[k] = IF latest[k].row = Absent THEN latest[k] ELSE [latest[k] EXCEPT !.row = Row(p)]
      /\ new[k] \in Stored
  BY <1>2, <1>3 DEF Stored
<1> HIDE DEF new, k
<1>6. Stores(p, k, new[k])
  BY <1>1, <1>2, <1>4, <1>5, WriteStores
<1> QED
  BY <1>1, <1>5, <1>6 DEF k

\* and DELETE FROM a child table,
LEMMA DeleteChildrenStores ==
  ASSUME Inv, NEW p \in Callers, DeleteChildren(p)
  PROVE  /\ pc[p] = "running" /\ ~Done(p) /\ Current(p).do = "deleteRows"
         /\ Stores(p, BodyKey(p), [latest[BodyKey(p)] EXCEPT !.sub[Current(p).table] = {}])
<1> DEFINE k == BodyKey(p)
           t == Current(p).table
           new == [latest EXCEPT ![k].sub[t] = {}]
<1>1. pc[p] = "running" /\ ~Done(p) /\ Current(p).do = "deleteRows"
  BY DEF DeleteChildren, Executing
<1>2. Key(call[p], Current(p)) = k /\ k \in Slots /\ t \in ChildTables
  BY <1>1, Keys
<1>3. latest \in [Slots -> Stored]
  BY DEF Inv, TypeOK
<1>4. Write(p, {k}, new)
  BY <1>2 DEF DeleteChildren
<1>5. new[k] = [latest[k] EXCEPT !.sub[t] = {}] /\ latest[k] \in Stored
  BY <1>2, <1>3
<1> HIDE DEF new, k, t
<1>6. new[k] \in Stored
  BY <1>2, <1>5 DEF Stored
<1>7. Stores(p, k, new[k])
  BY <1>1, <1>2, <1>4, <1>6, WriteStores
<1> QED
  BY <1>1, <1>5, <1>7 DEF k, t

\* of a row,
LEMMA DeleteMainStores ==
  ASSUME Inv, NEW p \in Callers, DeleteMain(p)
  PROVE  /\ pc[p] = "running" /\ ~Done(p) /\ Current(p).do = "delete"
         /\ Stores(p, UrlKey(p), Deleted(p, latest[UrlKey(p)]))
<1> DEFINE k == UrlKey(p)
           new == [latest EXCEPT ![k] = Deleted(p, @)]
<1>1. pc[p] = "running" /\ ~Done(p) /\ Current(p).do = "delete"
  BY DEF DeleteMain, Executing
<1>2. Key(call[p], Current(p)) = k /\ k \in Slots
  BY <1>1, Keys
<1>3. latest \in [Slots -> Stored]
  BY DEF Inv, TypeOK
<1>4. Write(p, {k}, new)
  BY <1>2 DEF DeleteMain
<1>5. new[k] = Deleted(p, latest[k]) /\ new[k] \in Stored
  BY <1>2, <1>3, DeletedType
<1> HIDE DEF new, k
<1>6. Stores(p, k, new[k])
  BY <1>1, <1>2, <1>4, <1>5, WriteStores
<1> QED
  BY <1>1, <1>5, <1>6 DEF k

\* or of all the rows of a tenant in a table.
LEMMA ClearTableStores ==
  ASSUME Inv, NEW p \in Callers, ClearTable(p)
  PROVE  /\ pc[p] = "running" /\ ~Done(p) /\ Current(p).do = "clear"
         /\ Moves(p) /\ buf' = buf
         /\ \A s \in Slots : latest'[s] = latest[s] \/ latest'[s] = Deleted(p, latest[s])
         /\ \A s \in held'[p] : s \in held[p] \/ latest'[s] = Deleted(p, latest[s])
         /\ \A q \in Callers \ {p} : Isolation = "serializable" => held[q] = {}
<1> DEFINE ks == {s \in Slots : s[1] = call[p].tenant /\ s[2] = Current(p).table}
           new == [s \in Slots |-> Deleted(p, latest[s])]
<1>1. pc[p] = "running" /\ ~Done(p) /\ Current(p).do = "clear"
  BY DEF ClearTable, Executing
<1>2. Write(p, ks, new)
  BY DEF ClearTable
<1>3. held \in [Callers -> SUBSET Slots]
  BY DEF Inv, TypeOK
<1>4. /\ latest' = [s \in Slots |-> IF s \in ks THEN new[s] ELSE latest[s]]
      /\ held' = [held EXCEPT ![p] =
                    @ \cup {s \in ks : \/ Isolation = "repeatableRead"
                                      \/ latest[s] # Nothing \/ new[s] # Nothing}]
      /\ Writers(p, ks) = {} /\ buf' = buf
  BY <1>2 DEF Write
<1>5. held'[p] \subseteq held[p] \cup ks
  BY <1>3, <1>4
<1>6. \A s \in held'[p] : s \in held[p] \/ latest'[s] = Deleted(p, latest[s])
  BY <1>3, <1>4, <1>5
<1>7. \A s \in Slots : latest'[s] = latest[s] \/ latest'[s] = Deleted(p, latest[s])
  BY <1>4
<1>8. \A q \in Callers \ {p} : Isolation = "serializable" => held[q] = {}
  BY <1>4 DEF Writers
<1> QED
  BY <1>1, <1>4, <1>6, <1>7, <1>8, ClearTableMoves

\* All other statements write nothing.
LEMMA OtherStatements ==
  ASSUME Inv, NEW p \in Callers,
         \/ EnsureHasRecord(p) \/ EnsureDoesntHaveRecord(p)
         \/ SelectMain(p) \/ SelectChildren(p)
  PROVE  \/ \E kind \in {"missing", "conflict", "error", "panic"} : Rollback(p, kind)
         \/ Moves(p) /\ UNCHANGED <<latest, held>>
<1>1. CASE EnsureHasRecord(p) \/ EnsureDoesntHaveRecord(p)
  <2>1. pc[p] = "running" /\ ~Done(p)
    BY <1>1 DEF EnsureHasRecord, EnsureDoesntHaveRecord, Executing
  <2>2. \/ Rollback(p, "missing") \/ Rollback(p, "conflict")
        \/ Advance(p) /\ UNCHANGED <<latest, held, buf>>
    BY <1>1 DEF EnsureHasRecord, EnsureDoesntHaveRecord
  <2> QED
    BY <2>1, <2>2, StayMoves
<1>2. CASE SelectMain(p)
  <2>1. UNCHANGED <<latest, held>>
    BY <1>2 DEF SelectMain
  <2> QED
    BY <1>2, <2>1, SelectMainMoves
<1>3. CASE SelectChildren(p)
  <2>1. Rollback(p, "panic") \/ UNCHANGED <<latest, held>>
    BY <1>3 DEF SelectChildren
  <2> QED
    BY <1>3, <2>1, SelectChildrenMoves
<1> QED
  BY <1>1, <1>2, <1>3
-----------------------------------------------------------------------------
(* No child row without its row, where every connection enforces foreign   *)
(* keys.                                                                   *)

Enforced == \A c \in Conns : conns[c].open => conns[c].fk

\* What is committed, and what is written, has no orphans.
RowsOwned == \A s \in Slots : latest[s].row = Absent => latest[s] = Nothing

OrphanInv == AllConnsEnforce => Enforced /\ NoOrphans /\ RowsOwned

LEMMA OrphanInit == Init => OrphanInv
<1> SUFFICES ASSUME Init PROVE Enforced /\ NoOrphans /\ RowsOwned
  BY DEF OrphanInv
<1>1. Enforced
  BY DEF Init, Closed, Enforced
<1>2. NoOrphans /\ RowsOwned
  BY DEF Init, NoOrphans, RowsOwned
<1> QED
  BY <1>1, <1>2

LEMMA EnforcedHere ==
  ASSUME Inv, Enforced, NEW p \in Callers, pc[p] = "running"
  PROVE  ForeignKeys(p)
<1>1. PICK c \in Conns : conns[c].user = p
  BY DEF Inv, OwnConnection
<1>2. conns[c].open
  BY <1>1, SQLAssumption DEF Inv, OwnConnection
<1> QED
  BY <1>1, <1>2 DEF Enforced, ForeignKeys

\* With foreign keys, nothing is left of a deleted row.
LEMMA DeletedWhole ==
  ASSUME Inv, Enforced, RowsOwned, NEW p \in Callers, pc[p] = "running", NEW s \in Slots
  PROVE  Deleted(p, latest[s]) = Nothing
<1>1. CASE latest[s].row = Absent
  <2>1. latest[s] = Nothing
    BY <1>1 DEF RowsOwned
  <2>2. [Nothing EXCEPT !.row = Absent] = Nothing
    BY DEF Nothing
  <2> QED
    BY <1>1, <2>1, <2>2 DEF Deleted
<1>2. CASE latest[s].row # Absent
  BY <1>2, EnforcedHere DEF Deleted
<1> QED
  BY <1>1, <1>2

LEMMA NothingCleared ==
  ASSUME NEW r, r = Nothing, NEW t
  PROVE  [r EXCEPT !.sub[t] = {}] = Nothing
<1> DEFINE none == [u \in ChildTables |-> {}]
<1>1. [none EXCEPT ![t] = {}] = none
  OBVIOUS
<1>2. r = [row |-> Absent, sub |-> none]
  BY DEF Nothing
<1> HIDE DEF none
<1>3. [r EXCEPT !.sub = [r.sub EXCEPT ![t] = {}]] = r
  BY <1>1, <1>2
<1> QED
  BY <1>3

\* A statement of a transaction is one of these.
LEMMA StatementCases ==
  ASSUME Inv, NEW p \in Callers, Statement(p) \/ Fail(p)
  PROVE  \/ \E kind \in {"missing", "conflict", "error"} : Rollback(p, kind)
         \/ Commit(p)
         \/ ~Rollback(p, "error") /\ InsertMain(p)
         \/ ~Rollback(p, "error") /\ InsertChildren(p)
         \/ UpdateMain(p) \/ DeleteChildren(p) \/ DeleteMain(p) \/ ClearTable(p)
         \/ EnsureHasRecord(p) \/ EnsureDoesntHaveRecord(p)
         \/ SelectMain(p) \/ SelectChildren(p)
<1>1. CASE ReadUnknown(p) \/ NotOne(p) \/ Busy(p) \/ Fail(p)
  BY <1>1 DEF ReadUnknown, NotOne, Busy, Fail
<1> QED
  BY <1>1 DEF Statement

LEMMA RowsOwnedStep ==
  ASSUME Inv, Enforced, NoOrphans, RowsOwned, NEW p \in Callers, Statement(p) \/ Fail(p)
  PROVE  RowsOwned' /\ NoOrphans'
<1>1. CASE \E kind \in {"missing", "conflict", "error", "panic"} : Rollback(p, kind)
  <2>1. /\ latest' = [s \in Slots |-> IF s \in held[p] THEN db[s] ELSE latest[s]]
        /\ db' = db
    BY <1>1 DEF Rollback
  <2> QED
    BY <2>1 DEF RowsOwned, NoOrphans
<1>2. CASE Commit(p)
  <2>1. /\ db' = [s \in Slots |-> IF s \in held[p] THEN latest[s] ELSE db[s]]
        /\ latest' = latest
    BY <1>2 DEF Commit
  <2> QED
    BY <2>1 DEF RowsOwned, NoOrphans
<1>3. ASSUME NEW k \in Slots, NEW r, Stores(p, k, r), r.row = Absent => r = Nothing
      PROVE  RowsOwned' /\ NoOrphans'
  <2>1. latest' = [latest EXCEPT ![k] = r] /\ db' = db
    BY <1>3 DEF Stores, Moves, Advance
  <2>2. latest \in [Slots -> Stored]
    BY DEF Inv, TypeOK
  <2>3. ASSUME NEW s \in Slots, latest'[s].row = Absent
        PROVE  latest'[s] = Nothing
    BY <1>3, <2>1, <2>2, <2>3 DEF RowsOwned
  <2> QED
    BY <2>1, <2>3 DEF RowsOwned, NoOrphans
<1>4. CASE ~Rollback(p, "error") /\ InsertMain(p)
  <2> DEFINE k == BodyKey(p)
             r == [latest[k] EXCEPT !.row = Row(p)]
  <2>1. Stores(p, k, r) /\ Row(p) \in Rows
    BY <1>4, InsertMainStores, Keys
  <2>2. k \in Slots /\ r.row # Absent
    BY <2>1, SQLAssumption DEF Stores, Inv, TypeOK, Stored
  <2> HIDE DEF k, r
  <2> QED
    BY <1>3, <2>1, <2>2
<1>5. CASE ~Rollback(p, "error") /\ InsertChildren(p)
  <2> DEFINE k == BodyKey(p)
             r == [latest[k] EXCEPT !.sub[Current(p).table] = @ \cup Sub(p, Current(p).table)]
  <2>1. \/ Moves(p) /\ UNCHANGED <<latest, held, buf>>
        \/ Stores(p, k, r) /\ latest[k].row # Absent
    BY <1>5, InsertChildrenStores, EnforcedHere
  <2>2. CASE Moves(p) /\ UNCHANGED <<latest, held, buf>>
    BY <2>2 DEF Moves, Advance, RowsOwned, NoOrphans
  <2>3. CASE Stores(p, k, r) /\ latest[k].row # Absent
    <3>1. k \in Slots /\ r.row # Absent
      BY <2>3 DEF Stores, Inv, TypeOK, Stored
    <3> HIDE DEF k, r
    <3> QED
      BY <1>3, <2>3, <3>1
  <2> QED
    BY <2>1, <2>2, <2>3
<1>6. CASE UpdateMain(p)
  <2> DEFINE k == BodyKey(p)
             r == IF latest[k].row = Absent THEN latest[k] ELSE [latest[k] EXCEPT !.row = Row(p)]
  <2>1. Stores(p, k, r) /\ Row(p) \in Rows
    BY <1>6, UpdateMainStores, Keys
  <2>2. k \in Slots
    BY <2>1 DEF Stores
  <2>3. r.row = Absent => r = Nothing
    <3>1. latest[k] \in Stored
      BY <2>2 DEF Inv, TypeOK
    <3>2. latest[k].row # Absent => r.row = Row(p)
      BY <3>1 DEF Stored
    <3>3. latest[k].row = Absent => r = Nothing
      BY <2>2 DEF RowsOwned
    <3> QED
      BY <2>1, <3>2, <3>3, SQLAssumption
  <2> HIDE DEF k, r
  <2> QED
    BY <1>3, <2>1, <2>2, <2>3
<1>7. CASE DeleteChildren(p)
  <2> DEFINE k == BodyKey(p)
             t == Current(p).table
             r == [latest[k] EXCEPT !.sub[t] = {}]
  <2>1. Stores(p, k, r)
    BY <1>7, DeleteChildrenStores
  <2>2. k \in Slots
    BY <2>1 DEF Stores
  <2>3. r.row = Absent => r = Nothing
    <3>1. latest[k] \in Stored /\ r.row = latest[k].row
      BY <2>2 DEF Inv, TypeOK, Stored
    <3>2. latest[k] = Nothing => r = Nothing
      BY NothingCleared
    <3> QED
      BY <2>2, <3>1, <3>2 DEF RowsOwned
  <2> HIDE DEF k, r
  <2> QED
    BY <1>3, <2>1, <2>2, <2>3
<1>8. CASE DeleteMain(p)
  <2>1. pc[p] = "running" /\ Stores(p, UrlKey(p), Deleted(p, latest[UrlKey(p)]))
    BY <1>8, DeleteMainStores
  <2>2. UrlKey(p) \in Slots
    BY <2>1 DEF Stores
  <2> QED
    BY <1>3, <2>1, <2>2, DeletedWhole
<1>9. CASE ClearTable(p)
  <2>1. /\ pc[p] = "running" /\ Moves(p)
        /\ \A s \in Slots : latest'[s] = latest[s] \/ latest'[s] = Deleted(p, latest[s])
    BY <1>9, ClearTableStores
  <2>2. \A s \in Slots : latest'[s] = latest[s] \/ latest'[s] = Nothing
    BY <2>1, DeletedWhole
  <2> QED
    BY <2>1, <2>2 DEF Moves, Advance, RowsOwned, NoOrphans
<1>10. CASE EnsureHasRecord(p) \/ EnsureDoesntHaveRecord(p) \/ SelectMain(p) \/ SelectChildren(p)
  <2>1. CASE Moves(p) /\ UNCHANGED <<latest, held>>
    BY <2>1 DEF Moves, Advance, RowsOwned, NoOrphans
  <2> QED
    BY <1>1, <1>10, <2>1, OtherStatements
<1> QED
  BY <1>1, <1>2, <1>4, <1>5, <1>6, <1>7, <1>8, <1>9, <1>10, StatementCases

LEMMA EnforcedStep ==
  ASSUME Inv, AllConnsEnforce, Enforced, [Next]_vars
  PROVE  Enforced'
<1>1. conns \in [Conns -> [open : BOOLEAN, fk : BOOLEAN, user : Callers \cup {Free}]]
  BY DEF Inv, TypeOK
<1>2. CASE Expire
  BY <1>1, <1>2 DEF Expire, Closed, Enforced
<1>3. ASSUME NEW p \in Callers, Begin(p)
      PROVE  Enforced'
  <2>1. PICK c \in Conns :
          \/ conns' = [conns EXCEPT ![c].user = p]
          \/ conns' = [conns EXCEPT ![c] = [open |-> TRUE, fk |-> AllConnsEnforce, user |-> p]]
    BY <1>3 DEF Begin
  <2> QED
    BY <1>1, <2>1 DEF Enforced
<1>4. ASSUME NEW p \in Callers, Statement(p) \/ Fail(p)
      PROVE  Enforced'
  <2>1. \/ Moves(p)
        \/ \E kind \in {"missing", "conflict", "error", "panic"} : Rollback(p, kind)
        \/ Commit(p)
    BY <1>4, TransactionStep
  <2>2. \/ conns' = conns
        \/ conns' = [c \in Conns |-> IF conns[c].user = p THEN [conns[c] EXCEPT !.user = Free]
                                                         ELSE conns[c]]
    BY <2>1 DEF Moves, Advance, Rollback, Commit, Finish
  <2> QED
    BY <1>1, <2>2 DEF Enforced
<1>5. ASSUME NEW p \in Callers, Invoke(p) \/ Reject(p) \/ Return(p)
      PROVE  Enforced'
  BY <1>5 DEF Invoke, Reject, Return, Enforced
<1>6. CASE UNCHANGED vars
  BY <1>6 DEF vars, Enforced
<1> QED
  BY <1>2, <1>3, <1>4, <1>5, <1>6 DEF Next

LEMMA OrphanNext == Inv /\ OrphanInv /\ [Next]_vars => OrphanInv'
<1> SUFFICES ASSUME Inv, OrphanInv, [Next]_vars, AllConnsEnforce
             PROVE  Enforced' /\ NoOrphans' /\ RowsOwned'
  BY DEF OrphanInv
<1> USE DEF OrphanInv
<1>1. Enforced'
  BY EnforcedStep
<1>2. ASSUME NEW p \in Callers, Statement(p) \/ Fail(p)
      PROVE  NoOrphans' /\ RowsOwned'
  BY <1>2, RowsOwnedStep
<1>3. ASSUME UNCHANGED <<db, latest>>
      PROVE  NoOrphans' /\ RowsOwned'
  BY <1>3 DEF NoOrphans, RowsOwned
<1>4. \/ UNCHANGED <<db, latest>>
      \/ \E p \in Callers : Statement(p) \/ Fail(p)
  BY DEF Next, Expire, Invoke, Reject, Begin, Return, vars
<1> QED
  BY <1>1, <1>2, <1>3, <1>4

\* Where every connection enforces foreign keys, no child row outlives its row,
\* at any isolation level: "minus tables automatically cleared by cascade".
THEOREM OwnedRows == Spec => [](AllConnsEnforce => NoOrphans)
<1>1. Init => Inv /\ OrphanInv
  BY InitInv, OrphanInit
<1>2. Inv /\ OrphanInv /\ [Next]_vars => (Inv /\ OrphanInv)'
  BY NextInv, OrphanNext
<1>3. Inv /\ OrphanInv => (AllConnsEnforce => NoOrphans)
  BY DEF OrphanInv
<1> QED
  BY <1>1, <1>2, <1>3, PTL DEF Spec

-----------------------------------------------------------------------------
(* The order of the statements of a call.                                  *)

\* Statement st comes before the n-th.
Before(c, n, st) == \E i \in 1 .. Len(Program(c)) : i < n /\ Program(c)[i] = st

\* A creator inserts the row, and then the rows of each child table once.
LEMMA CreateOrder ==
  ASSUME NEW c \in Calls, Check(c) = "ok", c.op = "create"
  PROVE  /\ Len(Program(c)) \in Nat /\ Len(Program(c)) >= 2
         /\ Program(c)[1].do = "ensureDoesntHave" /\ Program(c)[2].do = "insert"
         /\ \A i \in 3 .. Len(Program(c)) : \E t \in Children(c.type) :
              Program(c)[i] = InsertRows(t) /\ ~Before(c, i, InsertRows(t))
         /\ \A t \in Children(c.type) : \E i \in 3 .. Len(Program(c)) :
              Program(c)[i] = InsertRows(t)
<1> DEFINE seq == objectCreator[c.type]
<1>1. /\ Checks(c, Stmt("ensureDoesntHave", c.type), seq) /\ Creates(c.type, seq)
  BY Checked, Programs, ObjectStatements
<1> HIDE DEF seq
<1>2. /\ Len(seq) \in Nat /\ Len(seq) > 0 /\ Len(Program(c)) = Len(seq) + 1
      /\ Program(c)[1] = Stmt("ensureDoesntHave", c.type)
      /\ \A i \in 2 .. Len(Program(c)) : Program(c)[i] = seq[i - 1]
  BY <1>1 DEF Checks, Creates
<1>3. Program(c)[1].do = "ensureDoesntHave"
  BY <1>2 DEF Stmt
<1>4. Program(c)[2].do = "insert"
  <2>1. Program(c)[2] = seq[1]
    BY <1>2
  <2> QED
    BY <1>1, <2>1 DEF Creates, Insert, Stmt
<1>5. ASSUME NEW i \in 3 .. Len(Program(c))
      PROVE  \E t \in Children(c.type) :
               Program(c)[i] = InsertRows(t) /\ ~Before(c, i, InsertRows(t))
  <2>1. i - 1 \in 2 .. Len(seq) /\ Program(c)[i] = seq[i - 1]
    BY <1>2
  <2>2. PICK t \in Children(c.type) : seq[i - 1] = InsertRows(t)
    BY <1>1, <2>1 DEF Creates
  <2>3. ASSUME NEW j \in 1 .. Len(Program(c)), j < i, Program(c)[j] = InsertRows(t)
        PROVE  FALSE
    <3>1. j # 1
      BY <1>2, <2>3 DEF Stmt, InsertRows
    <3>2. j - 1 \in 1 .. Len(seq) /\ seq[j - 1] = seq[i - 1] /\ i - 1 \in 1 .. Len(seq)
      BY <1>2, <2>1, <2>2, <2>3, <3>1
    <3>3. j - 1 = i - 1
      BY <1>1, <3>2 DEF Creates, Distinct
    <3> QED
      BY <2>3, <3>3
  <2> QED
    BY <2>1, <2>2, <2>3 DEF Before
<1>6. ASSUME NEW t \in Children(c.type)
      PROVE  \E i \in 3 .. Len(Program(c)) : Program(c)[i] = InsertRows(t)
  <2>1. PICK j \in 2 .. Len(seq) : seq[j] = InsertRows(t)
    BY <1>1 DEF Creates
  <2>2. j + 1 \in 3 .. Len(Program(c)) /\ Program(c)[j + 1] = InsertRows(t)
    BY <1>2, <2>1
  <2> QED
    BY <2>2
<1> QED
  BY <1>2, <1>3, <1>4, <1>5, <1>6

\* A mutator updates the row, and then replaces the rows of each child table.
LEMMA UpdateOrder ==
  ASSUME NEW c \in Calls, Check(c) = "ok", c.op = "update"
  PROVE  /\ Len(Program(c)) \in Nat /\ Len(Program(c)) >= 2
         /\ Program(c)[1].do = "ensureHas" /\ Program(c)[2].do = "update"
         /\ \A i \in 3 .. Len(Program(c)) : \E t \in Children(c.type) :
              /\ ~Before(c, i, InsertRows(t))
              /\ \/ Program(c)[i] = DeleteRows(t)
                 \/ Program(c)[i] = InsertRows(t) /\ Before(c, i, DeleteRows(t))
         /\ \A t \in Children(c.type) : \E i \in 3 .. Len(Program(c)) :
              Program(c)[i] = InsertRows(t)
<1> DEFINE seq == objectMutator[c.type]
<1>1. /\ Checks(c, Stmt("ensureHas", c.type), seq) /\ Mutates(c.type, seq)
  BY Checked, Programs, ObjectStatements
<1> HIDE DEF seq
<1>2. /\ Len(seq) \in Nat /\ Len(seq) > 0 /\ Len(Program(c)) = Len(seq) + 1
      /\ Program(c)[1] = Stmt("ensureHas", c.type)
      /\ \A i \in 2 .. Len(Program(c)) : Program(c)[i] = seq[i - 1]
  BY <1>1 DEF Checks, Mutates
<1>3. Program(c)[1].do = "ensureHas"
  BY <1>2 DEF Stmt
<1>4. Program(c)[2].do = "update"
  <2>1. Program(c)[2] = seq[1]
    BY <1>2
  <2> QED
    BY <1>1, <2>1 DEF Mutates, UpdateRow, Stmt
<1>5. ASSUME NEW i \in 3 .. Len(Program(c))
      PROVE  \E t \in Children(c.type) :
               /\ ~Before(c, i, InsertRows(t))
               /\ \/ Program(c)[i] = DeleteRows(t)
                  \/ Program(c)[i] = InsertRows(t) /\ Before(c, i, DeleteRows(t))
  <2>1. i - 1 \in 2 .. Len(seq) /\ Program(c)[i] = seq[i - 1]
    BY <1>2
  <2>2. PICK t \in Children(c.type) :
          \/ seq[i - 1] = DeleteRows(t)
          \/ seq[i - 1] = InsertRows(t) /\ i - 1 > 2 /\ seq[(i - 1) - 1] = DeleteRows(t)
    BY <1>1, <2>1 DEF Mutates
  <2>3. ASSUME NEW j \in 1 .. Len(Program(c)), j < i, Program(c)[j] = InsertRows(t)
        PROVE  FALSE
    <3>1. j # 1
      BY <1>2, <2>3 DEF Stmt, InsertRows
    <3>2. j - 1 \in 1 .. Len(seq) /\ seq[j - 1] = InsertRows(t)
      BY <1>2, <2>3, <3>1
    <3>3. CASE seq[i - 1] = InsertRows(t)
      <4>1. i - 1 \in 1 .. Len(seq) /\ seq[i - 1] = seq[j - 1]
        BY <2>1, <3>2, <3>3
      <4>2. i - 1 = j - 1
        BY <1>1, <3>2, <4>1 DEF Mutates, Distinct
      <4> QED
        BY <2>3, <4>2
    <3>4. CASE seq[i - 1] = DeleteRows(t)
      <4>1. j - 1 # 1
        <5>1. seq[1] # InsertRows(t)
          BY <1>1 DEF Mutates, UpdateRow, InsertRows, Stmt
        <5> QED
          BY <3>2, <5>1
      <4>2. j - 1 \in 2 .. Len(seq)
        BY <3>2, <4>1
      <4>3. PICK u \in Children(c.type) :
              \/ seq[j - 1] = DeleteRows(u)
              \/ seq[j - 1] = InsertRows(u) /\ j - 1 > 2 /\ seq[(j - 1) - 1] = DeleteRows(u)
        BY <1>1, <4>2 DEF Mutates
      <4>4. u = t /\ j - 1 > 2 /\ seq[(j - 1) - 1] = DeleteRows(t)
        BY <3>2, <4>3 DEF InsertRows, DeleteRows, Stmt
      <4>5. (j - 1) - 1 \in 1 .. Len(seq) /\ i - 1 \in 1 .. Len(seq)
        BY <2>1, <3>2, <4>4
      <4>6. (j - 1) - 1 = i - 1
        BY <1>1, <3>4, <4>4, <4>5 DEF Mutates, Distinct
      <4> QED
        BY <2>3, <4>6
    <3> QED
      BY <2>2, <3>3, <3>4
  <2>4. ASSUME seq[i - 1] = InsertRows(t), i - 1 > 2, seq[(i - 1) - 1] = DeleteRows(t)
        PROVE  Before(c, i, DeleteRows(t))
    <3>1. i - 1 \in 1 .. Len(Program(c)) /\ i - 1 < i /\ i - 1 \in 2 .. Len(Program(c))
      BY <2>1, <2>4
    <3>2. Program(c)[i - 1] = DeleteRows(t)
      BY <1>2, <2>4, <3>1
    <3> QED
      BY <3>1, <3>2 DEF Before
  <2>5. ~Before(c, i, InsertRows(t))
    BY <2>3 DEF Before
  <2> QED
    BY <2>1, <2>2, <2>4, <2>5
<1>6. ASSUME NEW t \in Children(c.type)
      PROVE  \E i \in 3 .. Len(Program(c)) : Program(c)[i] = InsertRows(t)
  <2>1. PICK j \in 2 .. Len(seq) : seq[j] = InsertRows(t)
    BY <1>1 DEF Mutates
  <2>2. j + 1 \in 3 .. Len(Program(c)) /\ Program(c)[j + 1] = InsertRows(t)
    BY <1>2, <2>1
  <2> QED
    BY <2>2
<1> QED
  BY <1>2, <1>3, <1>4, <1>5, <1>6

\* A reader selects the rows, and then those of each child table.
First(c) == IF c.op = "get" THEN 2 ELSE 1

LEMMA ReadOrder ==
  ASSUME NEW c \in Calls, Check(c) = "ok", c.op \in {"get", "list"}
  PROVE  /\ Len(Program(c)) \in Nat /\ Len(Program(c)) >= First(c)
         /\ c.op = "get" => Program(c)[1].do = "ensureHas"
         /\ c.type \notin mainTable =>
              c.op = "list" /\ Len(Program(c)) = 1 /\ Program(c)[1].do = "unknown"
         /\ c.type \in mainTable =>
              /\ Program(c)[First(c)].do = "select"
              /\ \A i \in First(c) + 1 .. Len(Program(c)) : \E t \in Children(c.type) :
                   Program(c)[i] = SelectRows(t)
              /\ \A t \in Children(c.type) : \E i \in First(c) + 1 .. Len(Program(c)) :
                   Program(c)[i] = SelectRows(t)
<1> DEFINE seq == objectReader(c.type)
<1>1. CASE c.type \notin mainTable
  <2>1. c.op = "list"
    BY <1>1, Checked
  <2>2. seq = <<Stmt("unknown", c.type)>>
    <3>1. /\ c.type # "Users" /\ c.type # "StudentGroups" /\ c.type # "Organisations"
          /\ c.type # "SchoolUnitGroups" /\ c.type # "SchoolUnits"
          /\ c.type # "Employments" /\ c.type # "Activities"
      BY <1>1 DEF mainTable
    <3> QED
      BY <3>1, Zenon DEF objectReader
  <2>3. Program(c) = seq
    BY <2>1, Programs
  <2> HIDE DEF seq
  <2>4. Len(Program(c)) = 1 /\ Program(c)[1].do = "unknown"
    BY <2>2, <2>3 DEF Stmt
  <2> QED
    BY <1>1, <2>1, <2>4 DEF First
<1>2. CASE c.type \in mainTable /\ c.op = "get"
  <2>1. Checks(c, Stmt("ensureHas", c.type), seq) /\ Reads(c.type, seq)
    BY <1>2, Programs, ObjectStatements
  <2> HIDE DEF seq
  <2>2. /\ Len(seq) \in Nat /\ Len(seq) > 0 /\ Len(Program(c)) = Len(seq) + 1
        /\ Program(c)[1] = Stmt("ensureHas", c.type)
        /\ \A i \in 2 .. Len(Program(c)) : Program(c)[i] = seq[i - 1]
    BY <2>1 DEF Checks, Reads
  <2>3. Program(c)[1].do = "ensureHas" /\ First(c) = 2
    BY <1>2, <2>2 DEF Stmt, First
  <2>4. Program(c)[2].do = "select"
    <3>1. Program(c)[2] = seq[1]
      BY <2>2
    <3> QED
      BY <2>1, <3>1 DEF Reads, Select, Stmt
  <2>5. ASSUME NEW i \in 3 .. Len(Program(c))
        PROVE  \E t \in Children(c.type) : Program(c)[i] = SelectRows(t)
    <3>1. i - 1 \in 2 .. Len(seq) /\ Program(c)[i] = seq[i - 1]
      BY <2>2
    <3> QED
      BY <2>1, <3>1 DEF Reads
  <2>6. ASSUME NEW t \in Children(c.type)
        PROVE  \E i \in 3 .. Len(Program(c)) : Program(c)[i] = SelectRows(t)
    <3>1. PICK j \in 2 .. Len(seq) : seq[j] = SelectRows(t)
      BY <2>1 DEF Reads
    <3>2. j + 1 \in 3 .. Len(Program(c)) /\ Program(c)[j + 1] = SelectRows(t)
      BY <2>2, <3>1
    <3> QED
      BY <3>2
  <2> QED
    BY <1>2, <2>2, <2>3, <2>4, <2>5, <2>6
<1>3. CASE c.type \in mainTable /\ c.op = "list"
  <2>1. Program(c) = seq /\ Reads(c.type, seq) /\ First(c) = 1
    BY <1>3, Programs, ObjectStatements DEF First
  <2> HIDE DEF seq
  <2>2. Len(seq) \in Nat /\ Len(seq) > 0
    BY <2>1 DEF Reads
  <2>3. Program(c)[1].do = "select"
    BY <2>1 DEF Reads, Select, Stmt
  <2>4. /\ \A i \in 2 .. Len(seq) : \E t \in Children(c.type) : seq[i] = SelectRows(t)
        /\ \A t \in Children(c.type) : \E i \in 2 .. Len(seq) : seq[i] = SelectRows(t)
    BY <2>1 DEF Reads
  <2> QED
    BY <1>3, <2>1, <2>2, <2>3, <2>4
<1> QED
  BY <1>1, <1>2, <1>3, Checked
-----------------------------------------------------------------------------
(* What is committed is whole, at an isolation level above read committed. *)

Ran(p, st) == Before(call[p], step[p], st)

\* What one request says of the resource s, or nothing.
Complete(s, r) == r = Nothing \/ Whole(s[1], s[2], s[3], r)

Committed == \A s \in Slots : Complete(s, db[s])

\* What a create or an update has made so far of what is under its key. A row
\* that an update has not found is not there.
Partial(p, r) ==
  \/ call[p].op = "update" /\ r = Nothing
  \/ /\ r.row = Row(p)
     /\ \A t \in ChildTables :
          /\ Ran(p, InsertRows(t)) => r.sub[t] = Sub(p, t)
          /\ ~Ran(p, InsertRows(t)) =>
               \/ r.sub[t] = {}
               \/ /\ call[p].op = "update" /\ t \in Children(call[p].type)
                  /\ ~Ran(p, DeleteRows(t))

\* The key of an update may be without a lock, if there was nothing under it;
\* then a serializable transaction keeps others from committing anything there.
Writing(p) ==
  /\ call[p].op \in {"create", "update"} =>
       \/ step[p] <= 2 /\ held[p] = {}
       \/ step[p] > 2 /\ held[p] = {BodyKey(p)} /\ Partial(p, latest[BodyKey(p)])
       \/ /\ step[p] > 2 /\ held[p] = {} /\ call[p].op = "update"
          /\ Isolation = "serializable" /\ db[BodyKey(p)] = Nothing
  /\ call[p].op \in {"delete", "clear"} => \A s \in held[p] : latest[s] = Nothing
  /\ call[p].op \in {"get", "list"} => held[p] = {}

Isolated == AllConnsEnforce /\ Isolation \in {"serializable", "repeatableRead"}

AllWriting == \A p \in Callers : pc[p] = "running" => Writing(p)

WholeInv == Isolated => Committed /\ AllWriting

\* The statements that have run, after one more.
LEMMA RanMoves ==
  ASSUME Inv, NEW p \in Callers, Moves(p), NEW st
  PROVE  /\ Ran(p, st)' <=> Ran(p, st) \/ st = Current(p)
         /\ step'[p] = step[p] + 1 /\ call' = call
         /\ step[p] \in 1 .. Len(Program(call[p]))
         /\ BodyKey(p)' = BodyKey(p) /\ Row(p)' = Row(p)
         /\ \A t : Sub(p, t)' = Sub(p, t)
<1>1. /\ call' = call /\ step' = [step EXCEPT ![p] = @ + 1]
      /\ pc[p] = "running" /\ ~Done(p)
  BY DEF Moves, Advance
<1>2. step'[p] = step[p] + 1
  BY <1>1 DEF Inv, TypeOK
<1>3. step[p] \in 1 .. Len(Program(call[p]))
  BY <1>1, Running DEF Done
<1>4. Program(call[p])' = Program(call[p])
  BY <1>1
<1>5. Len(Program(call[p])) \in Nat
  BY <1>1, Running
<1>6. Ran(p, st)' <=> Ran(p, st) \/ st = Current(p)
  <2>1. Ran(p, st)' <=> \E i \in 1 .. Len(Program(call[p])) :
                          i < step[p] + 1 /\ Program(call[p])[i] = st
    BY <1>1, <1>2 DEF Ran, Before
  <2>2. Ran(p, st) <=> \E i \in 1 .. Len(Program(call[p])) :
                         i < step[p] /\ Program(call[p])[i] = st
    BY DEF Ran, Before
  <2>3. \A i \in 1 .. Len(Program(call[p])) : i < step[p] + 1 <=> i < step[p] \/ i = step[p]
    BY <1>3
  <2> QED
    BY <1>3, <2>1, <2>2, <2>3 DEF Current
<1>7. BodyKey(p)' = BodyKey(p) /\ Row(p)' = Row(p) /\ \A t : Sub(p, t)' = Sub(p, t)
  BY <1>1 DEF BodyKey, Row, Sub
<1> QED
  BY <1>1, <1>2, <1>3, <1>6, <1>7

\* Where a create or an update is: the check is the first statement, the main
\* table the second, and then comes each child table.
LEMMA WhereWriting ==
  ASSUME Inv, NEW p \in Callers, pc[p] = "running", call[p].op \in {"create", "update"}
  PROVE  /\ ~Done(p) /\ Current(p).do \in {"ensureHas", "ensureDoesntHave"} => step[p] = 1
         /\ ~Done(p) /\ Current(p).do \in {"insert", "update"} => step[p] = 2
         /\ ~Done(p) /\ Current(p).do \in {"insertRows", "deleteRows"} =>
              /\ step[p] > 2
              /\ ~Ran(p, InsertRows(Current(p).table))
              /\ \/ call[p].op = "update" /\ Current(p) = DeleteRows(Current(p).table)
                 \/ Current(p) = InsertRows(Current(p).table)
                    /\ (call[p].op = "update" => Ran(p, DeleteRows(Current(p).table)))
         /\ step[p] <= 2 => \A t : ~Ran(p, InsertRows(t))
         /\ \A t : Ran(p, InsertRows(t)) => t \in Children(call[p].type)
         /\ Done(p) => step[p] > 2 /\ \A t \in Children(call[p].type) : Ran(p, InsertRows(t))
<1> DEFINE c == call[p]
<1>1. c \in Calls /\ Check(c) = "ok" /\ step[p] \in Nat \ {0}
  BY Running
<1>2. /\ Len(Program(c)) \in Nat /\ Len(Program(c)) >= 2
      /\ Program(c)[1].do \in {"ensureHas", "ensureDoesntHave"}
      /\ Program(c)[2].do \in {"insert", "update"}
      /\ \A i \in 3 .. Len(Program(c)) : \E t \in Children(c.type) :
           /\ ~Before(c, i, InsertRows(t))
           /\ \/ c.op = "update" /\ Program(c)[i] = DeleteRows(t)
              \/ Program(c)[i] = InsertRows(t) /\ (c.op = "update" => Before(c, i, DeleteRows(t)))
      /\ \A t \in Children(c.type) : \E i \in 3 .. Len(Program(c)) : Program(c)[i] = InsertRows(t)
  <2>1. CASE c.op = "create"
    <3>1. ASSUME NEW i \in 3 .. Len(Program(c))
          PROVE  \E t \in Children(c.type) :
                   /\ ~Before(c, i, InsertRows(t))
                   /\ \/ c.op = "update" /\ Program(c)[i] = DeleteRows(t)
                      \/ Program(c)[i] = InsertRows(t)
                         /\ (c.op = "update" => Before(c, i, DeleteRows(t)))
      <4>1. PICK t \in Children(c.type) :
              Program(c)[i] = InsertRows(t) /\ ~Before(c, i, InsertRows(t))
        BY <1>1, <2>1, CreateOrder
      <4> QED
        BY <2>1, <4>1
    <3> QED
      BY <1>1, <2>1, <3>1, CreateOrder
  <2>2. CASE c.op = "update"
    <3>1. ASSUME NEW i \in 3 .. Len(Program(c))
          PROVE  \E t \in Children(c.type) :
                   /\ ~Before(c, i, InsertRows(t))
                   /\ \/ c.op = "update" /\ Program(c)[i] = DeleteRows(t)
                      \/ Program(c)[i] = InsertRows(t)
                         /\ (c.op = "update" => Before(c, i, DeleteRows(t)))
      <4>1. PICK t \in Children(c.type) :
              /\ ~Before(c, i, InsertRows(t))
              /\ \/ Program(c)[i] = DeleteRows(t)
                 \/ Program(c)[i] = InsertRows(t) /\ Before(c, i, DeleteRows(t))
        BY <1>1, <2>2, UpdateOrder
      <4> QED
        BY <2>2, <4>1
    <3> QED
      BY <1>1, <2>2, <3>1, UpdateOrder
  <2> QED
    BY <2>1, <2>2
<1>3. ASSUME NEW i \in 3 .. Len(Program(c))
      PROVE  /\ Program(c)[i].do \in {"insertRows", "deleteRows"}
             /\ Program(c)[i].table \in Children(c.type)
             /\ ~Before(c, i, InsertRows(Program(c)[i].table))
             /\ \/ c.op = "update" /\ Program(c)[i] = DeleteRows(Program(c)[i].table)
                \/ /\ Program(c)[i] = InsertRows(Program(c)[i].table)
                   /\ c.op = "update" => Before(c, i, DeleteRows(Program(c)[i].table))
  <2>1. PICK t \in Children(c.type) :
           /\ ~Before(c, i, InsertRows(t))
           /\ \/ c.op = "update" /\ Program(c)[i] = DeleteRows(t)
              \/ Program(c)[i] = InsertRows(t) /\ (c.op = "update" => Before(c, i, DeleteRows(t)))
    BY <1>2
  <2>2. Program(c)[i].table = t /\ Program(c)[i].do \in {"insertRows", "deleteRows"}
    BY <2>1 DEF InsertRows, DeleteRows, Stmt
  <2> QED
    BY <2>1, <2>2
<1>4. ASSUME ~Done(p)
      PROVE  step[p] \in {1, 2} \cup (3 .. Len(Program(c))) /\ Current(p) = Program(c)[step[p]]
  BY <1>1, <1>2, <1>4 DEF Done, Current
<1>5. ASSUME NEW t, Ran(p, InsertRows(t))
      PROVE  step[p] > 2 /\ t \in Children(c.type)
  <2>1. PICK i \in 1 .. Len(Program(c)) : i < step[p] /\ Program(c)[i] = InsertRows(t)
    BY <1>5 DEF Ran, Before
  <2>2. Program(c)[i].do = "insertRows" /\ Program(c)[i].table = t
    BY <2>1 DEF InsertRows, Stmt
  <2>3. i \in 3 .. Len(Program(c))
    <3>1. i # 1 /\ i # 2
      BY <1>2, <2>2
    <3> QED
      BY <1>2, <3>1
  <2> QED
    BY <1>1, <1>3, <2>1, <2>2, <2>3
<1>6. ASSUME Done(p)
      PROVE  step[p] > 2 /\ \A t \in Children(c.type) : Ran(p, InsertRows(t))
  <2>1. step[p] > Len(Program(c))
    BY <1>6 DEF Done
  <2>2. ASSUME NEW t \in Children(c.type)
        PROVE  Ran(p, InsertRows(t))
    <3>1. PICK i \in 3 .. Len(Program(c)) : Program(c)[i] = InsertRows(t)
      BY <1>2
    <3>2. i \in 1 .. Len(Program(c)) /\ i < step[p]
      BY <1>1, <1>2, <2>1
    <3> QED
      BY <3>1, <3>2 DEF Ran, Before
  <2> QED
    BY <1>1, <1>2, <2>1, <2>2
<1>7. ASSUME ~Done(p), Current(p).do \in {"ensureHas", "ensureDoesntHave"}
      PROVE  step[p] = 1
  BY <1>2, <1>3, <1>4, <1>7
<1>8. ASSUME ~Done(p), Current(p).do \in {"insert", "update"}
      PROVE  step[p] = 2
  BY <1>2, <1>3, <1>4, <1>8
<1>9. ASSUME ~Done(p), Current(p).do \in {"insertRows", "deleteRows"}
      PROVE  /\ step[p] > 2
             /\ ~Ran(p, InsertRows(Current(p).table))
             /\ \/ call[p].op = "update" /\ Current(p) = DeleteRows(Current(p).table)
                \/ Current(p) = InsertRows(Current(p).table)
                   /\ (call[p].op = "update" => Ran(p, DeleteRows(Current(p).table)))
  <2>1. step[p] \in 3 .. Len(Program(c)) /\ Current(p) = Program(c)[step[p]]
    BY <1>2, <1>4, <1>9
  <2> QED
    BY <1>3, <2>1 DEF Ran
<1> QED
  BY <1>1, <1>5, <1>6, <1>7, <1>8, <1>9
LEMMA WholeInit == Init => WholeInv
<1> SUFFICES ASSUME Init PROVE Committed /\ AllWriting
  BY DEF WholeInv
<1>1. Committed
  BY DEF Init, Committed, Complete
<1>2. AllWriting
  BY DEF Init, AllWriting
<1> QED
  BY <1>1, <1>2

\* What a request says of a resource, child rows of other types aside.
LEMMA WholeContent ==
  ASSUME NEW s \in Slots, NEW r, Whole(s[1], s[2], s[3], r)
  PROVE  /\ r.row \in Rows
         /\ \A t \in ChildTables : t \notin Children(s[2]) => r.sub[t] = {}
<1>1. PICK c \in Requests : c.type = s[2] /\ r = Content(c.type, c.body.data)
  BY DEF Whole
<1>2. c.body.data \in Data
  BY <1>1, SQLAssumption DEF Calls, Bodies
<1> QED
  BY <1>1, <1>2, SQLAssumption DEF Content

\* A finished create or update has made what its request said.
LEMMA FinishedContent ==
  ASSUME Inv, NEW p \in Callers, pc[p] = "running", Done(p),
         call[p].op \in {"create", "update"}, BodyKey(p) \in Slots,
         Partial(p, latest[BodyKey(p)]), latest[BodyKey(p)] # Nothing
  PROVE  latest[BodyKey(p)] = Content(call[p].type, call[p].body.data)
<1> DEFINE r == latest[BodyKey(p)]
<1>1. /\ \A t \in Children(call[p].type) : Ran(p, InsertRows(t))
      /\ \A t : Ran(p, InsertRows(t)) => t \in Children(call[p].type)
  BY WhereWriting
<1>2. r \in Stored
  BY DEF Inv, TypeOK
<1>3. /\ r.row = Row(p)
      /\ \A t \in ChildTables :
           r.sub[t] = IF t \in Children(call[p].type) THEN Sub(p, t) ELSE {}
  BY <1>1 DEF Partial
<1> QED
  BY <1>2, <1>3 DEF Stored, Content, Row, Sub

LEMMA FinishedIsWhole ==
  ASSUME Inv, NEW p \in Callers, pc[p] = "running", Done(p),
         call[p].op \in {"create", "update"}, BodyKey(p) \in Slots,
         Partial(p, latest[BodyKey(p)])
  PROVE  Complete(BodyKey(p), latest[BodyKey(p)])
<1> DEFINE k == BodyKey(p)
<1>1. latest[k] # Nothing => latest[k] = Content(call[p].type, call[p].body.data)
  BY FinishedContent
<1>2. call[p] \in Requests
  BY DEF Inv, InTransaction
<1>3. k[1] = call[p].tenant /\ k[2] = call[p].type /\ k[3] = call[p].body.id
  BY DEF BodyKey
<1> QED
  BY <1>1, <1>2, <1>3 DEF Complete, Whole

\* The keys of a write that nobody else has locked hold what is committed.
LEMMA Unlocked ==
  ASSUME Inv, Isolated, NEW p \in Callers, NEW k \in Slots, Writers(p, {k}) = {},
         k \notin held[p]
  PROVE  latest[k] = db[k]
<1>1. ASSUME NEW q \in Callers, k \in held[q]
      PROVE  FALSE
  BY <1>1 DEF Writers
<1> QED
  BY <1>1 DEF Inv, UncommittedIsPrivate

-----------------------------------------------------------------------------
(* A transaction that goes on.                                             *)

LEMMA InsertMainWriting ==
  ASSUME Inv, Isolated, RowsOwned, NEW p \in Callers, Writing(p),
         InsertMain(p), ~Rollback(p, "error")
  PROVE  Writing(p)'
<1> DEFINE k == BodyKey(p)
           r == [latest[k] EXCEPT !.row = Row(p)]
<1>1. /\ pc[p] = "running" /\ ~Done(p) /\ Current(p).do = "insert"
      /\ latest[k].row = Absent /\ Stores(p, k, r)
  BY InsertMainStores
<1>2. call[p].op = "create" /\ Row(p) \in Rows
  BY <1>1, Keys
<1>3. step[p] = 2 /\ \A t : ~Ran(p, InsertRows(t))
  BY <1>1, <1>2, WhereWriting
<1>4. held[p] = {}
  BY <1>2, <1>3 DEF Writing
<1>5. k \in Slots /\ latest[k] = Nothing
  BY <1>1 DEF RowsOwned, Stores
<1>6. r.row = Row(p) /\ \A t \in ChildTables : r.sub[t] = {}
  BY <1>5 DEF Nothing
<1>7. r # Nothing
  BY <1>2, <1>6, SQLAssumption DEF Nothing
<1>8. held'[p] = {k}
  BY <1>1, <1>4, <1>7 DEF Stores
<1>9. latest \in [Slots -> Stored]
  BY DEF Inv, TypeOK
<1>10. latest'[k] = r /\ Moves(p)
  BY <1>1, <1>5, <1>9 DEF Stores
<1> HIDE DEF r
<1>11. ASSUME NEW t
       PROVE  ~Ran(p, InsertRows(t))'
  <2>1. InsertRows(t) # Current(p)
    BY <1>1 DEF InsertRows, Stmt
  <2> QED
    BY <1>3, <1>10, <2>1, RanMoves
<1>12. step'[p] = 3 /\ call' = call /\ BodyKey(p)' = k /\ Row(p)' = Row(p)
  BY <1>3, <1>10, RanMoves
<1>13. Partial(p, latest[k])'
  BY <1>6, <1>10, <1>11, <1>12 DEF Partial
<1>14. step'[p] > 2 /\ held'[p] = {BodyKey(p)'}
  BY <1>8, <1>12
<1>15. Partial(p, latest[BodyKey(p)])'
  BY <1>12, <1>13
<1> QED
  BY <1>2, <1>12, <1>14, <1>15 DEF Writing

LEMMA InsertChildrenWriting ==
  ASSUME Inv, Isolated, Enforced, RowsOwned, NEW p \in Callers, Writing(p),
         InsertChildren(p), ~Rollback(p, "error")
  PROVE  Writing(p)'
<1> DEFINE k == BodyKey(p)
           t == Current(p).table
           r == [latest[k] EXCEPT !.sub[t] = @ \cup Sub(p, t)]
<1>1. /\ pc[p] = "running" /\ ~Done(p) /\ Current(p).do = "insertRows"
      /\ \/ Sub(p, t) = {} /\ Moves(p) /\ UNCHANGED <<latest, held, buf>>
         \/ latest[k].row # Absent /\ Stores(p, k, r)
  BY InsertChildrenStores, EnforcedHere
<1>2. /\ call[p].op \in {"create", "update"} /\ k \in Slots /\ t \in ChildTables
      /\ Row(p) # Absent
  BY <1>1, Keys, SQLAssumption
<1>3. /\ step[p] > 2 /\ ~Ran(p, InsertRows(t))
      /\ Current(p) = InsertRows(t) /\ (call[p].op = "update" => Ran(p, DeleteRows(t)))
  <2>1. Current(p) # DeleteRows(t)
    BY <1>1 DEF DeleteRows, Stmt
  <2> QED
    BY <1>1, <1>2, <2>1, WhereWriting
<1>4. Moves(p) /\ db' = db
  BY <1>1 DEF Stores, Moves, Advance
<1>5. step'[p] = step[p] + 1 /\ call' = call /\ BodyKey(p)' = k /\ Row(p)' = Row(p)
      /\ step[p] \in Nat /\ \A u : Sub(p, u)' = Sub(p, u)
  BY <1>1, <1>4, RanMoves, Running
<1>6. step'[p] > 2
  BY <1>3, <1>5
<1>7. ASSUME NEW u, NEW v \in Stored, Partial(p, v), u \in ChildTables, v # Nothing
      PROVE  /\ v.row = Row(p)
             /\ Ran(p, InsertRows(u)) => v.sub[u] = Sub(p, u)
             /\ ~Ran(p, InsertRows(u)) =>
                  \/ v.sub[u] = {}
                  \/ /\ call[p].op = "update" /\ u \in Children(call[p].type)
                     /\ ~Ran(p, DeleteRows(u))
             /\ v.sub[t] = {}
  BY <1>2, <1>3, <1>7 DEF Partial
<1>8. ASSUME NEW u
      PROVE  /\ Ran(p, InsertRows(u))' <=> Ran(p, InsertRows(u)) \/ u = t
             /\ Ran(p, DeleteRows(u))' <=> Ran(p, DeleteRows(u))
  <2>1. /\ InsertRows(u) = Current(p) <=> u = t
        /\ DeleteRows(u) # Current(p)
    BY <1>3 DEF InsertRows, DeleteRows, Stmt
  <2> QED
    BY <1>4, <2>1, RanMoves
<1>9. latest[k] \in Stored /\ latest \in [Slots -> Stored]
  BY <1>2 DEF Inv, TypeOK
<1>10. CASE held[p] = {k} /\ Partial(p, latest[k])
  <2>1. held'[p] = {k}
    BY <1>1, <1>10 DEF Stores
  <2>2. Partial(p, latest[k])'
    <3>1. CASE latest[k] = Nothing
      <4>1. latest' = latest /\ call[p].op = "update"
        <5>1. latest[k].row = Absent
          BY <3>1 DEF Nothing
        <5> QED
          BY <1>1, <1>2, <1>10, <5>1 DEF Partial
      <4>2. call'[p].op = "update" /\ latest'[k'] = Nothing
        BY <1>5, <3>1, <4>1
      <4> QED
        BY <4>2 DEF Partial
    <3>2. CASE latest[k] # Nothing
      <4>1. /\ latest[k].row = Row(p) /\ latest[k].sub[t] = {}
            /\ \A u \in ChildTables :
                 /\ Ran(p, InsertRows(u)) => latest[k].sub[u] = Sub(p, u)
                 /\ ~Ran(p, InsertRows(u)) =>
                      \/ latest[k].sub[u] = {}
                      \/ /\ call[p].op = "update" /\ u \in Children(call[p].type)
                         /\ ~Ran(p, DeleteRows(u))
        BY <1>2, <1>7, <1>9, <1>10, <3>2
      <4>2. /\ latest'[k].row = Row(p) /\ latest'[k].sub[t] = Sub(p, t)
            /\ \A u \in ChildTables \ {t} : latest'[k].sub[u] = latest[k].sub[u]
        <5>1. CASE Sub(p, t) = {} /\ latest' = latest
          BY <4>1, <5>1
        <5>2. CASE Stores(p, k, r)
          <6>1. latest'[k] = r
            BY <1>2, <1>9, <5>2 DEF Stores
          <6>2. r.row = latest[k].row /\ r.sub = [latest[k].sub EXCEPT ![t] = @ \cup Sub(p, t)]
            BY <1>9 DEF Stored
          <6>3. latest[k].sub \in [ChildTables -> SUBSET Items]
            BY <1>9 DEF Stored
          <6> HIDE DEF r, t, k
          <6> QED
            BY <1>2, <4>1, <6>1, <6>2, <6>3
        <5> QED
          BY <1>1, <5>1, <5>2
      <4>3. k' = k /\ call' = call
        BY <1>5
      <4> HIDE DEF r, t, k
      <4> QED
        BY <1>5, <1>8, <4>1, <4>2, <4>3 DEF Partial
    <3> QED
      BY <3>1, <3>2
  <2>3. Partial(p, latest[BodyKey(p)])' /\ held'[p] = {BodyKey(p)'}
    BY <1>5, <2>1, <2>2
  <2> QED
    BY <1>2, <1>5, <1>6, <2>3 DEF Writing
<1>11. CASE /\ held[p] = {} /\ call[p].op = "update"
            /\ Isolation = "serializable" /\ db[k] = Nothing
  <2>1. ~Stores(p, k, r) \/ latest[k].row = Absent
    <3>1. Stores(p, k, r) => latest[k] = db[k]
      BY <1>2, <1>11, Unlocked DEF Stores
    <3> QED
      BY <1>11, <3>1 DEF Nothing
  <2>2. held'[p] = {} /\ db'[BodyKey(p)'] = Nothing
    BY <1>1, <1>4, <1>5, <1>11, <2>1
  <2> QED
    BY <1>2, <1>5, <1>6, <1>11, <2>2 DEF Writing
<1>12. ~(step[p] <= 2)
  BY <1>3, <1>5
<1> QED
  BY <1>2, <1>10, <1>11, <1>12 DEF Writing
LEMMA UpdateMainWriting ==
  ASSUME Inv, Isolated, RowsOwned, Committed, NEW p \in Callers, Writing(p), UpdateMain(p)
  PROVE  Writing(p)'
<1> DEFINE k == BodyKey(p)
           r == IF latest[k].row = Absent THEN latest[k] ELSE [latest[k] EXCEPT !.row = Row(p)]
<1>1. /\ pc[p] = "running" /\ ~Done(p) /\ Current(p).do = "update"
      /\ Stores(p, k, r)
  BY UpdateMainStores
<1>2. call[p].op = "update" /\ k \in Slots /\ Row(p) # Absent
  BY <1>1, Keys, SQLAssumption
<1>3. step[p] = 2 /\ \A t : ~Ran(p, InsertRows(t))
  BY <1>1, <1>2, WhereWriting
<1>4. held[p] = {}
  BY <1>2, <1>3 DEF Writing
<1>5. /\ Moves(p) /\ db' = db
      /\ step'[p] = 3 /\ call' = call /\ BodyKey(p)' = k /\ Row(p)' = Row(p)
  <2>1. Moves(p) /\ db' = db
    BY <1>1 DEF Stores, Moves, Advance
  <2>2. step'[p] = step[p] + 1 /\ call' = call /\ BodyKey(p)' = k /\ Row(p)' = Row(p)
    BY <2>1, RanMoves
  <2> QED
    BY <1>3, <2>1, <2>2
<1>6. latest[k] = db[k]
  BY <1>1, <1>2, <1>4, Unlocked DEF Stores
<1>7. latest \in [Slots -> Stored] /\ latest'[k] = r
  <2>1. latest \in [Slots -> Stored] /\ latest' = [latest EXCEPT ![k] = r]
    BY <1>1 DEF Inv, TypeOK, Stores
  <2> HIDE DEF r, k
  <2> QED
    BY <1>2, <2>1
<1>8. CASE latest[k] = Nothing
  <2>1. r = Nothing
    BY <1>8 DEF Nothing
  <2>2. held'[p] = IF Isolation = "repeatableRead" THEN {k} ELSE {}
    BY <1>1, <1>4, <1>8, <2>1 DEF Stores
  <2>3. Partial(p, latest[BodyKey(p)])' /\ db'[BodyKey(p)'] = Nothing
    BY <1>2, <1>5, <1>6, <1>7, <1>8, <2>1 DEF Partial
  <2>4. Isolation \in {"serializable", "repeatableRead"}
    BY DEF Isolated
  <2> QED
    BY <1>2, <1>5, <2>2, <2>3, <2>4 DEF Writing
<1>9. CASE latest[k] # Nothing
  <2>1. Whole(k[1], k[2], k[3], db[k])
    BY <1>2, <1>6, <1>9 DEF Committed, Complete
  <2>2. latest[k].row # Absent /\ \A t \in ChildTables : t \notin Children(k[2]) => latest[k].sub[t] = {}
    BY <1>2, <1>6, <2>1, WholeContent, SQLAssumption
  <2>3. k[2] = call[p].type
    BY DEF BodyKey
  <2>4. latest[k] \in Stored
    BY <1>2, <1>7
  <2>5. r.row = Row(p) /\ \A t \in ChildTables : t \notin Children(call[p].type) => r.sub[t] = {}
    BY <2>2, <2>3, <2>4 DEF Stored
  <2>6. held'[p] = {k}
    BY <1>1, <1>4, <1>9 DEF Stores
  <2>7. ASSUME NEW t
        PROVE  ~Ran(p, InsertRows(t))' /\ ~Ran(p, DeleteRows(t))'
    <3>1. ~Ran(p, DeleteRows(t))
      <4>1. Program(call[p])[1].do = "ensureHas" /\ call[p] \in Calls
        BY <1>1, <1>2, Running, UpdateOrder
      <4>2. DeleteRows(t).do = "deleteRows"
        BY DEF DeleteRows, Stmt
      <4>3. \A i \in 1 .. Len(Program(call[p])) : i < 2 => i = 1
        OBVIOUS
      <4> QED
        BY <1>3, <4>1, <4>2, <4>3 DEF Ran, Before
    <3>2. InsertRows(t) # Current(p) /\ DeleteRows(t) # Current(p)
      BY <1>1 DEF InsertRows, DeleteRows, Stmt
    <3> QED
      BY <1>3, <1>5, <3>1, <3>2, RanMoves
  <2> HIDE DEF r, k
  <2>8. k' = k
    BY <1>5 DEF k
  <2>9. Partial(p, latest[k])'
    BY <1>2, <1>5, <1>7, <2>5, <2>7, <2>8 DEF Partial
  <2> QED
    BY <1>2, <1>5, <2>6, <2>8, <2>9 DEF Writing, k
<1> QED
  BY <1>8, <1>9

LEMMA DeleteChildrenWriting ==
  ASSUME Inv, Isolated, NEW p \in Callers, Writing(p), DeleteChildren(p)
  PROVE  Writing(p)'
<1> DEFINE k == BodyKey(p)
           t == Current(p).table
           r == [latest[k] EXCEPT !.sub[t] = {}]
<1>1. /\ pc[p] = "running" /\ ~Done(p) /\ Current(p).do = "deleteRows"
      /\ Stores(p, k, r)
  BY DeleteChildrenStores
<1>2. /\ call[p].op = "update" /\ k \in Slots /\ t \in ChildTables
      /\ t \in Children(call[p].type)
  BY <1>1, Keys
<1>3. /\ step[p] > 2 /\ ~Ran(p, InsertRows(t)) /\ Current(p) = DeleteRows(t)
  <2>1. Current(p) # InsertRows(t)
    BY <1>1 DEF InsertRows, Stmt
  <2> QED
    BY <1>1, <1>2, <2>1, WhereWriting
<1>4. Moves(p) /\ db' = db
  BY <1>1 DEF Stores, Moves, Advance
<1>5. step'[p] = step[p] + 1 /\ call' = call /\ BodyKey(p)' = k /\ Row(p)' = Row(p)
      /\ step[p] \in Nat /\ \A u : Sub(p, u)' = Sub(p, u)
  BY <1>1, <1>4, RanMoves, Running
<1>6. step'[p] > 2 /\ ~(step[p] <= 2)
  BY <1>3, <1>5
<1>7. ASSUME NEW u
      PROVE  /\ Ran(p, InsertRows(u))' <=> Ran(p, InsertRows(u))
             /\ Ran(p, DeleteRows(u))' <=> Ran(p, DeleteRows(u)) \/ u = t
  <2>1. /\ DeleteRows(u) = Current(p) <=> u = t
        /\ InsertRows(u) # Current(p)
    BY <1>3 DEF InsertRows, DeleteRows, Stmt
  <2> QED
    BY <1>4, <2>1, RanMoves
<1>8. latest[k] \in Stored /\ latest \in [Slots -> Stored] /\ latest'[k] = r
  BY <1>1, <1>2 DEF Inv, TypeOK, Stores
<1>9. CASE held[p] = {k} /\ Partial(p, latest[k])
  <2>1. held'[p] = {k}
    BY <1>1, <1>9 DEF Stores
  <2>2. Partial(p, latest[k])'
    <3>1. CASE latest[k] = Nothing
      <4>1. r = Nothing
        BY <3>1, NothingCleared
      <4> QED
        BY <1>2, <1>5, <1>8, <4>1 DEF Partial
    <3>2. CASE latest[k] # Nothing
      <4>1. /\ latest[k].row = Row(p)
            /\ \A u \in ChildTables :
                 /\ Ran(p, InsertRows(u)) => latest[k].sub[u] = Sub(p, u)
                 /\ ~Ran(p, InsertRows(u)) =>
                      \/ latest[k].sub[u] = {}
                      \/ /\ call[p].op = "update" /\ u \in Children(call[p].type)
                         /\ ~Ran(p, DeleteRows(u))
        BY <1>9, <3>2 DEF Partial
      <4>2. /\ latest'[k].row = Row(p) /\ latest'[k].sub[t] = {}
            /\ \A u \in ChildTables \ {t} : latest'[k].sub[u] = latest[k].sub[u]
        <5>1. r.row = latest[k].row /\ r.sub = [latest[k].sub EXCEPT ![t] = {}]
          BY <1>8 DEF Stored
        <5>2. latest[k].sub \in [ChildTables -> SUBSET Items]
          BY <1>8 DEF Stored
        <5> HIDE DEF r, t, k
        <5> QED
          BY <1>2, <1>8, <4>1, <5>1, <5>2
      <4>3. k' = k /\ call' = call
        BY <1>5
      <4> HIDE DEF r, t, k
      <4> QED
        BY <1>2, <1>3, <1>5, <1>7, <4>1, <4>2, <4>3 DEF Partial
    <3> QED
      BY <3>1, <3>2
  <2>3. Partial(p, latest[BodyKey(p)])' /\ held'[p] = {BodyKey(p)'}
    BY <1>5, <2>1, <2>2
  <2> QED
    BY <1>2, <1>5, <1>6, <2>3 DEF Writing
<1>10. CASE held[p] = {} /\ Isolation = "serializable" /\ db[k] = Nothing
  <2>1. latest[k] = Nothing
    BY <1>1, <1>2, <1>10, Unlocked DEF Stores
  <2>2. r = Nothing
    BY <2>1, NothingCleared
  <2>3. held'[p] = {} /\ db'[BodyKey(p)'] = Nothing
    BY <1>1, <1>4, <1>5, <1>10, <2>1, <2>2 DEF Stores
  <2> QED
    BY <1>2, <1>5, <1>6, <1>10, <2>3 DEF Writing
<1> QED
  BY <1>2, <1>6, <1>9, <1>10 DEF Writing

LEMMA DeletesWriting ==
  ASSUME Inv, Isolated, Enforced, RowsOwned, NEW p \in Callers, Writing(p),
         DeleteMain(p) \/ ClearTable(p)
  PROVE  Writing(p)'
<1>1. latest \in [Slots -> Stored] /\ held \in [Callers -> SUBSET Slots]
  BY DEF Inv, TypeOK
<1>2. CASE DeleteMain(p)
  <2> DEFINE k == UrlKey(p)
  <2>1. /\ pc[p] = "running" /\ ~Done(p) /\ Current(p).do = "delete"
        /\ Stores(p, k, Deleted(p, latest[k])) /\ k \in Slots
    BY <1>2, DeleteMainStores DEF Stores
  <2>2. call[p].op = "delete" /\ call' = call
    BY <2>1, Keys, RanMoves DEF Stores
  <2>3. Deleted(p, latest[k]) = Nothing
    BY <2>1, DeletedWhole
  <2>4. latest' = [latest EXCEPT ![k] = Nothing] /\ held'[p] \subseteq held[p] \cup {k}
    BY <2>1, <2>3 DEF Stores
  <2>5. \A s \in held[p] : latest[s] = Nothing
    BY <2>2 DEF Writing
  <2>6. \A s \in held'[p] : latest'[s] = Nothing
    BY <1>1, <2>1, <2>4, <2>5
  <2> QED
    BY <2>2, <2>6 DEF Writing
<1>3. CASE ClearTable(p)
  <2>1. /\ pc[p] = "running" /\ ~Done(p) /\ Current(p).do = "clear" /\ Moves(p)
        /\ \A s \in Slots : latest'[s] = latest[s] \/ latest'[s] = Deleted(p, latest[s])
        /\ \A s \in held'[p] : s \in held[p] \/ latest'[s] = Deleted(p, latest[s])
    BY <1>3, ClearTableStores
  <2>2. call[p].op = "clear" /\ call' = call
    BY <2>1, Keys, RanMoves
  <2>3. \A s \in held[p] : latest[s] = Nothing
    BY <2>2 DEF Writing
  <2>4. held'[p] \subseteq Slots
    BY <2>1 DEF Moves
  <2>5. \A s \in held'[p] : latest'[s] = Nothing
    BY <2>1, <2>3, <2>4, DeletedWhole
  <2> QED
    BY <2>2, <2>5 DEF Writing
<1> QED
  BY <1>2, <1>3

LEMMA ReadsWriting ==
  ASSUME Inv, Isolated, NEW p \in Callers, Writing(p),
         \/ EnsureHasRecord(p) \/ EnsureDoesntHaveRecord(p)
         \/ SelectMain(p) \/ SelectChildren(p),
         Moves(p), UNCHANGED <<latest, held>>
  PROVE  Writing(p)'
<1>1. /\ pc[p] = "running" /\ ~Done(p)
      /\ Current(p).do \in {"ensureHas", "ensureDoesntHave", "select", "selectRows"}
  BY DEF EnsureHasRecord, EnsureDoesntHaveRecord, SelectMain, SelectChildren, Executing
<1>2. step'[p] = step[p] + 1 /\ call' = call
  BY RanMoves
<1>3. CASE call[p].op \in {"create", "update"}
  <2>1. Current(p).do \in {"ensureHas", "ensureDoesntHave"}
    BY <1>1, <1>3, Running DEF Allowed
  <2>2. step[p] = 1
    BY <1>1, <1>3, <2>1, WhereWriting
  <2>3. step'[p] <= 2 /\ held'[p] = {}
    BY <1>2, <1>3, <2>2 DEF Writing
  <2> QED
    BY <1>2, <1>3, <2>3 DEF Writing
<1>4. CASE call[p].op \notin {"create", "update"}
  BY <1>2, <1>4 DEF Writing
<1> QED
  BY <1>3, <1>4

\* The other transactions, while p takes a step.
LEMMA OthersWriting ==
  ASSUME Inv, Isolated, NEW q \in Callers, pc[q] = "running", Writing(q),
         step'[q] = step[q], call'[q] = call[q], held'[q] = held[q],
         \A s \in held[q] : latest'[s] = latest[s],
         Isolation = "serializable" /\ step[q] > 1 => db' = db
  PROVE  Writing(q)'
<1>1. step[q] \in Nat
  BY Running
<1>2. BodyKey(q)' = BodyKey(q) /\ Row(q)' = Row(q) /\ \A t : Sub(q, t)' = Sub(q, t)
  BY DEF BodyKey, Row, Sub
<1>3. \A st : Ran(q, st)' <=> Ran(q, st)
  BY DEF Ran, Before
<1>4. CASE call[q].op \in {"create", "update"}
  <2>1. CASE step[q] <= 2 /\ held[q] = {}
    BY <1>4, <2>1 DEF Writing
  <2>2. CASE step[q] > 2 /\ held[q] = {BodyKey(q)} /\ Partial(q, latest[BodyKey(q)])
    <3>1. latest'[BodyKey(q)'] = latest[BodyKey(q)]
      BY <1>2, <2>2
    <3>2. Partial(q, latest[BodyKey(q)])'
      BY <1>2, <1>3, <2>2, <3>1 DEF Partial
    <3> QED
      BY <1>2, <1>4, <2>2, <3>2 DEF Writing
  <2>3. CASE /\ step[q] > 2 /\ held[q] = {} /\ call[q].op = "update"
             /\ Isolation = "serializable" /\ db[BodyKey(q)] = Nothing
    BY <1>1, <1>2, <1>4, <2>3 DEF Writing
  <2> QED
    BY <1>4, <2>1, <2>2, <2>3 DEF Writing
<1>5. CASE call[q].op \notin {"create", "update"}
  BY <1>5 DEF Writing
<1> QED
  BY <1>4, <1>5
-----------------------------------------------------------------------------
(* A transaction that ends.                                                *)

\* Who is reading keeps a serializable transaction from committing.
LEMMA CommitsAlone ==
  ASSUME Inv, NEW p \in Callers, Commit(p), Isolation = "serializable",
         NEW q \in Callers \ {p}, pc[q] = "running", step[q] > 1
  PROVE  db' = db
<1>1. held[p] = {}
  BY DEF Commit, Readers
<1>2. db \in [Slots -> Stored] /\ db' = [s \in Slots |-> IF s \in held[p] THEN latest[s] ELSE db[s]]
  BY DEF Commit, Inv, TypeOK
<1> QED
  BY <1>1, <1>2

LEMMA CommitCommitted ==
  ASSUME Inv, Committed, NEW p \in Callers, Writing(p), Commit(p)
  PROVE  Committed'
<1>1. /\ db' = [s \in Slots |-> IF s \in held[p] THEN latest[s] ELSE db[s]]
      /\ pc[p] = "running" /\ Done(p)
  BY DEF Commit
<1>2. held[p] \subseteq Slots /\ call[p] \in Calls
  BY <1>1, Running DEF Inv, TypeOK
<1>3. ASSUME NEW s \in held[p]
      PROVE  Complete(s, latest[s])
  <2>1. CASE call[p].op \in {"create", "update"}
    <3>1. s = BodyKey(p) /\ Partial(p, latest[s])
      BY <1>3, <2>1 DEF Writing
    <3> QED
      BY <1>1, <1>2, <2>1, <3>1, FinishedIsWhole
  <2>2. CASE call[p].op \in {"delete", "clear"}
    BY <1>3, <2>2 DEF Writing, Complete
  <2>3. CASE call[p].op \in {"get", "list"}
    BY <1>3, <2>3 DEF Writing
  <2> QED
    BY <1>2, <2>1, <2>2, <2>3 DEF Calls, Ops
<1>4. ASSUME NEW s \in Slots
      PROVE  Complete(s, db'[s])
  BY <1>1, <1>3 DEF Committed
<1> QED
  BY <1>4 DEF Committed, Complete, Whole

LEMMA StatementWhole ==
  ASSUME Inv, Isolated, Enforced, RowsOwned, Committed, AllWriting,
         NEW p \in Callers, Statement(p) \/ Fail(p)
  PROVE  Committed' /\ AllWriting'
<1>1. pc[p] = "running" /\ Writing(p)
  BY TransactionStep DEF AllWriting
<1>2. ASSUME db' = db
      PROVE  Committed'
  BY <1>2 DEF Committed, Complete, Whole
<1>3. held \in [Callers -> SUBSET Slots]
  BY DEF Inv, TypeOK
<1>4. ASSUME NEW kind, Rollback(p, kind)
      PROVE  Committed' /\ AllWriting'
  <2>1. /\ pc' = [pc EXCEPT ![p] = "returned"] /\ step' = [step EXCEPT ![p] = 1]
        /\ held' = [held EXCEPT ![p] = {}] /\ call' = call /\ db' = db
        /\ latest' = [s \in Slots |-> IF s \in held[p] THEN db[s] ELSE latest[s]]
    BY <1>4 DEF Rollback, Finish
  <2>2. ASSUME NEW q \in Callers, pc'[q] = "running"
        PROVE  Writing(q)'
    <3>1. q # p /\ pc[q] = "running"
      BY <2>1, <2>2 DEF Inv, TypeOK
    <3>2. step'[q] = step[q] /\ call'[q] = call[q] /\ held'[q] = held[q]
      BY <2>1, <3>1 DEF Inv, TypeOK
    <3>3. \A s \in held[q] : latest'[s] = latest[s]
      BY <1>3, <2>1, <3>1 DEF Inv, UncommittedIsPrivate
    <3> QED
      BY <2>1, <3>1, <3>2, <3>3, OthersWriting DEF AllWriting
  <2> QED
    BY <1>2, <2>1, <2>2 DEF AllWriting
<1>5. CASE Commit(p)
  <2>1. /\ pc' = [pc EXCEPT ![p] = "returned"] /\ step' = [step EXCEPT ![p] = 1]
        /\ held' = [held EXCEPT ![p] = {}] /\ call' = call /\ latest' = latest
    BY <1>5 DEF Commit, Finish
  <2>2. ASSUME NEW q \in Callers, pc'[q] = "running"
        PROVE  Writing(q)'
    <3>1. q # p /\ pc[q] = "running"
      BY <2>1, <2>2 DEF Inv, TypeOK
    <3>2. step'[q] = step[q] /\ call'[q] = call[q] /\ held'[q] = held[q]
      BY <2>1, <3>1 DEF Inv, TypeOK
    <3>3. Isolation = "serializable" /\ step[q] > 1 => db' = db
      BY <1>5, <3>1, CommitsAlone
    <3> QED
      BY <2>1, <3>1, <3>2, <3>3, OthersWriting DEF AllWriting
  <2> QED
    BY <1>1, <1>5, <2>2, CommitCommitted DEF AllWriting
<1>6. ASSUME Moves(p), Writing(p)'
      PROVE  Committed' /\ AllWriting'
  <2>1. /\ step' = [step EXCEPT ![p] = @ + 1] /\ call' = call /\ db' = db /\ pc' = pc
        /\ held' = [held EXCEPT ![p] = held'[p]]
        /\ \A q \in Callers \ {p} : held'[p] \cap held[q] = {}
        /\ \A s \in Slots : latest'[s] # latest[s] => s \in held'[p]
    BY <1>6 DEF Moves, Advance
  <2>2. ASSUME NEW q \in Callers, pc'[q] = "running", q # p
        PROVE  Writing(q)'
    <3>1. step'[q] = step[q] /\ call'[q] = call[q] /\ held'[q] = held[q] /\ pc[q] = "running"
      BY <2>1, <2>2, <1>3 DEF Inv, TypeOK
    <3>2. \A s \in held[q] : latest'[s] = latest[s]
      BY <1>3, <2>1, <2>2
    <3> QED
      BY <2>1, <3>1, <3>2, OthersWriting DEF AllWriting
  <2> QED
    BY <1>2, <1>6, <2>1, <2>2 DEF AllWriting
<1>7. CASE ~Rollback(p, "error") /\ (InsertMain(p) \/ InsertChildren(p))
  <2>1. CASE InsertMain(p)
    BY <1>1, <1>6, <1>7, <2>1, InsertMainStores, InsertMainWriting DEF Stores
  <2>2. CASE InsertChildren(p)
    <3>1. Moves(p)
      BY <1>7, <2>2, InsertChildrenStores DEF Stores
    <3> QED
      BY <1>1, <1>6, <1>7, <2>2, <3>1, InsertChildrenWriting
  <2> QED
    BY <1>7, <2>1, <2>2
<1>8. CASE UpdateMain(p)
  BY <1>1, <1>6, <1>8, UpdateMainMoves, UpdateMainWriting
<1>9. CASE DeleteChildren(p)
  BY <1>1, <1>6, <1>9, DeleteChildrenMoves, DeleteChildrenWriting
<1>10. CASE DeleteMain(p) \/ ClearTable(p)
  BY <1>1, <1>6, <1>10, DeleteMainMoves, ClearTableMoves, DeletesWriting
<1>11. CASE \/ EnsureHasRecord(p) \/ EnsureDoesntHaveRecord(p)
            \/ SelectMain(p) \/ SelectChildren(p)
  BY <1>1, <1>4, <1>6, <1>11, OtherStatements, ReadsWriting
<1> QED
  BY <1>4, <1>5, <1>7, <1>8, <1>9, <1>10, <1>11, StatementCases

LEMMA WholeNext == Inv /\ OrphanInv /\ WholeInv /\ [Next]_vars => WholeInv'
<1> SUFFICES ASSUME Inv, OrphanInv, WholeInv, [Next]_vars, Isolated
             PROVE  Committed' /\ AllWriting'
  BY DEF WholeInv, Isolated
<1>1. Committed /\ AllWriting /\ Enforced /\ RowsOwned
  BY DEF WholeInv, OrphanInv, Isolated
<1>2. ASSUME NEW p \in Callers, Statement(p) \/ Fail(p)
      PROVE  Committed' /\ AllWriting'
  BY <1>1, <1>2, StatementWhole
<1>3. ASSUME UNCHANGED <<db, latest, held, step>>,
             \A q \in Callers : pc'[q] = "running" =>
               \/ pc[q] = "running" /\ call'[q] = call[q]
               \/ step[q] = 1 /\ held[q] = {}
      PROVE  Committed' /\ AllWriting'
  <2>1. Committed'
    BY <1>1, <1>3 DEF Committed, Complete, Whole
  <2>2. ASSUME NEW q \in Callers, pc'[q] = "running"
        PROVE  Writing(q)'
    <3>1. CASE pc[q] = "running" /\ call'[q] = call[q]
      BY <1>1, <1>3, <3>1, OthersWriting DEF AllWriting
    <3>2. CASE step[q] = 1 /\ held[q] = {}
      BY <1>3, <3>2 DEF Writing
    <3> QED
      BY <1>3, <2>2, <3>1, <3>2
  <2> QED
    BY <2>1, <2>2 DEF AllWriting
<1>4. CASE Expire \/ UNCHANGED vars
  <2>1. UNCHANGED <<db, latest, held, step, pc, call>>
    BY <1>4 DEF Expire, vars, txVars
  <2> QED
    BY <1>3, <2>1
<1>5. ASSUME NEW p \in Callers, Invoke(p) \/ Reject(p) \/ Begin(p) \/ Return(p)
      PROVE  Committed' /\ AllWriting'
  <2>1. /\ UNCHANGED <<db, latest, held, step>>
        /\ pc[p] # "running"
        /\ \E x : pc' = [pc EXCEPT ![p] = x]
        /\ call' = call \/ \E y : call' = [call EXCEPT ![p] = y]
    BY <1>5 DEF Invoke, Reject, Begin, Return, txVars
  <2>2. step[p] = 1 /\ held[p] = {}
    BY <2>1 DEF Inv, InTransaction, UncommittedIsPrivate
  <2>3. \A q \in Callers \ {p} : pc'[q] = pc[q] /\ call'[q] = call[q]
    BY <2>1 DEF Inv, TypeOK
  <2> QED
    BY <1>3, <2>1, <2>2, <2>3
<1> QED
  BY <1>2, <1>4, <1>5 DEF Next

\* At an isolation level above read committed, and with foreign keys, what is
\* committed of a resource is what one request said of it in all its tables, as
\* if its up to five statements had run alone.
THEOREM WholeResources == Spec => [](Isolated => ResourcesAreWhole)
<1>1. Init => Inv /\ OrphanInv /\ WholeInv
  BY InitInv, OrphanInit, WholeInit
<1>2. Inv /\ OrphanInv /\ WholeInv /\ [Next]_vars => (Inv /\ OrphanInv /\ WholeInv)'
  BY NextInv, OrphanNext, WholeNext
<1>3. Inv /\ OrphanInv /\ WholeInv => (Isolated => ResourcesAreWhole)
  BY DEF WholeInv, Committed, Complete, ResourcesAreWhole, Nothing
<1> QED
  BY <1>1, <1>2, <1>3, PTL DEF Spec
-----------------------------------------------------------------------------
(* What readers collect, at an isolation level above read committed.       *)

Slot(p, id) == <<call[p].tenant, call[p].type, id>>

\* A snapshot is of what was committed.
SnapWhole(p) ==
  Isolation = "repeatableRead" /\ step[p] > 1 => \A s \in Slots : Complete(s, snap[p][s])

\* A reader has of each object what it sees in the tables it has read.
ReadSoFar(p, id) ==
  /\ buf[p].objs[id].row =
       IF Slot(p, id) \in Scope(call[p]) THEN View(p)[Slot(p, id)].row ELSE Absent
  /\ \A t \in ChildTables : buf[p].objs[id].sub[t] =
       IF Slot(p, id) \in Scope(call[p]) /\ Ran(p, SelectRows(t))
       THEN View(p)[Slot(p, id)].sub[t] ELSE {}

Reading(p) ==
  call[p].op \in {"get", "list"} /\ step[p] > First(call[p]) =>
    /\ call[p].type \in mainTable
    /\ \A id \in IDs : ReadSoFar(p, id)
    /\ buf[p].first = Nil => \A s \in Scope(call[p]) : View(p)[s].row = Absent

AllReading == \A p \in Callers : pc[p] = "running" => SnapWhole(p) /\ Reading(p)

ReadInv ==
  /\ DOMAIN result = Callers
  /\ Isolated => AllReading /\ ReadsAreWhole /\ ReadsDoNotPanic

LEMMA ReadInit == Init => ReadInv
BY DEF Init, ReadInv, AllReading, ReadsAreWhole, ReadsDoNotPanic

\* What a transaction sees is whole,
LEMMA ViewWhole ==
  ASSUME Inv, Committed, NEW p \in Callers, pc[p] = "running", SnapWhole(p), NEW s \in Slots
  PROVE  Complete(s, View(p)[s])
<1>1. step[p] \in Nat \ {0}
  BY Running
<1> QED
  BY <1>1 DEF View, SnapWhole, Committed

\* and stays the same when it goes on,
LEMMA ViewMoves ==
  ASSUME Inv, Isolated, NEW p \in Callers, Moves(p)
  PROVE  View(p)' = View(p)
<1>1. /\ snap' = [snap EXCEPT ![p] = IF Isolation = "repeatableRead" THEN View(p) ELSE Nil]
      /\ db' = db
  BY DEF Moves, Advance
<1>2. step[p] \in Nat \ {0} /\ step'[p] = step[p] + 1
  BY Running, RanMoves DEF Moves
<1>3. CASE Isolation = "repeatableRead"
  <2>1. snap'[p] = View(p)
    BY <1>1, <1>3 DEF Inv, TypeOK
  <2>2. step'[p] # 1
    BY <1>2
  <2>3. View(p)' = snap'[p]
    BY <1>3, <2>2 DEF View
  <2> QED
    BY <2>1, <2>3
<1>4. CASE Isolation # "repeatableRead"
  BY <1>1, <1>4 DEF View
<1> QED
  BY <1>3, <1>4

\* or when others do.
LEMMA OthersReading ==
  ASSUME Inv, Isolated, NEW q \in Callers, pc[q] = "running", SnapWhole(q), Reading(q),
         step'[q] = step[q], call'[q] = call[q], snap'[q] = snap[q], buf'[q] = buf[q],
         Isolation = "serializable" /\ step[q] > 1 => db' = db
  PROVE  SnapWhole(q)' /\ Reading(q)'
<1>1. SnapWhole(q)'
  BY DEF SnapWhole, Complete, Whole
<1>2. ASSUME call[q].op \in {"get", "list"}, step[q] > First(call[q])
      PROVE  /\ call[q].type \in mainTable
             /\ \A id \in IDs : ReadSoFar(q, id)'
             /\ buf[q].first = Nil => \A s \in Scope(call[q]) : View(q)'[s].row = Absent
  <2>1. step[q] > 1
    BY <1>2, Running DEF First
  <2>2. View(q)' = View(q)
    BY <2>1 DEF View, Isolated
  <2>3. \A st : Ran(q, st)' <=> Ran(q, st)
    BY DEF Ran, Before
  <2> QED
    BY <1>2, <2>2, <2>3 DEF Reading, ReadSoFar, Slot
<1> QED
  BY <1>1, <1>2 DEF Reading

\* Where a reader is.
LEMMA WhereReading ==
  ASSUME Inv, NEW p \in Callers, pc[p] = "running", call[p].op \in {"get", "list"}
  PROVE  /\ ~Done(p) /\ Current(p).do = "ensureHas" => step[p] < First(call[p])
         /\ ~Done(p) /\ Current(p).do = "select" =>
              step[p] = First(call[p]) /\ call[p].type \in mainTable
         /\ ~Done(p) /\ Current(p).do = "selectRows" =>
              step[p] > First(call[p]) /\ Current(p) = SelectRows(Current(p).table)
         /\ step[p] <= First(call[p]) => \A t : ~Ran(p, SelectRows(t))
         /\ Done(p) => /\ step[p] > First(call[p])
                       /\ call[p].type \in mainTable =>
                            \A t \in Children(call[p].type) : Ran(p, SelectRows(t))
<1> DEFINE c == call[p]
<1>1. c \in Calls /\ Check(c) = "ok" /\ step[p] \in Nat \ {0}
  BY Running
<1>2. Len(Program(c)) \in Nat /\ Len(Program(c)) >= First(c) /\ First(c) \in {1, 2}
  BY <1>1, ReadOrder DEF First
<1>3. ASSUME NEW i \in 1 .. Len(Program(c))
      PROVE  /\ i < First(c) => Program(c)[i].do = "ensureHas"
             /\ i = First(c) /\ c.type \in mainTable => Program(c)[i].do = "select"
             /\ i = First(c) /\ c.type \notin mainTable => Program(c)[i].do = "unknown"
             /\ i > First(c) => /\ c.type \in mainTable
                                /\ Program(c)[i] = SelectRows(Program(c)[i].table)
                                /\ Program(c)[i].do = "selectRows"
  <2>1. CASE i < First(c)
    <3>1. i = 1 /\ c.op = "get"
      BY <1>2, <2>1 DEF First
    <3>2. ~(i = First(c)) /\ ~(i > First(c)) /\ Program(c)[1].do = "ensureHas"
      BY <1>1, <1>2, <2>1, <3>1, ReadOrder
    <3> QED
      BY <3>1, <3>2
  <2>2. CASE i = First(c)
    <3>1. c.type \notin mainTable => First(c) = 1
      BY <1>1, ReadOrder DEF First
    <3> QED
      BY <1>1, <1>2, <2>2, <3>1, ReadOrder
  <2>3. CASE i > First(c)
    <3>1. c.type \in mainTable
      <4> SUFFICES ASSUME c.type \notin mainTable PROVE FALSE
        OBVIOUS
      <4>1. Len(Program(c)) = 1
        BY <1>1, ReadOrder
      <4>2. First(c) >= 1
        BY <1>2
      <4> QED
        BY <2>3, <4>1, <4>2, <1>2
    <3>2. i \in First(c) + 1 .. Len(Program(c))
      BY <1>2, <2>3
    <3>3. PICK t \in Children(c.type) : Program(c)[i] = SelectRows(t)
      BY <1>1, <3>1, <3>2, ReadOrder
    <3> QED
      BY <1>2, <2>3, <3>1, <3>3 DEF SelectRows, Stmt
  <2> QED
    BY <1>2, <2>1, <2>2, <2>3
<1>4. ASSUME ~Done(p)
      PROVE  step[p] \in 1 .. Len(Program(c)) /\ Current(p) = Program(c)[step[p]]
  BY <1>1, <1>2, <1>4 DEF Done, Current
<1>5. ASSUME ~Done(p), Current(p).do = "ensureHas"
      PROVE  step[p] < First(c)
  <2>1. ~(step[p] = First(c)) /\ ~(step[p] > First(c))
    BY <1>3, <1>4, <1>5
  <2> QED
    BY <1>1, <1>2, <2>1
<1>6. ASSUME ~Done(p), Current(p).do = "select"
      PROVE  step[p] = First(c) /\ c.type \in mainTable
  <2>1. ~(step[p] < First(c)) /\ ~(step[p] > First(c))
    BY <1>3, <1>4, <1>6
  <2>2. step[p] = First(c)
    BY <1>1, <1>2, <2>1
  <2> QED
    BY <1>3, <1>4, <1>6, <2>2
<1>7. ASSUME ~Done(p), Current(p).do = "selectRows"
      PROVE  step[p] > First(c) /\ Current(p) = SelectRows(Current(p).table)
  <2>1. ~(step[p] < First(c)) /\ ~(step[p] = First(c))
    BY <1>3, <1>4, <1>7
  <2>2. step[p] > First(c)
    BY <1>1, <1>2, <2>1
  <2>3. Program(c)[step[p]] = SelectRows(Program(c)[step[p]].table)
    BY <1>3, <1>4, <1>7, <2>2
  <2> QED
    BY <1>4, <1>7, <2>2, <2>3
<1>8. ASSUME step[p] <= First(c), NEW t, Ran(p, SelectRows(t))
      PROVE  FALSE
  <2>1. PICK i \in 1 .. Len(Program(c)) : i < step[p] /\ Program(c)[i] = SelectRows(t)
    BY <1>8 DEF Ran, Before
  <2>2. i < First(c)
    BY <1>1, <1>2, <1>8, <2>1
  <2> QED
    BY <1>3, <2>1, <2>2 DEF SelectRows, Stmt
<1>9. ASSUME Done(p)
      PROVE  /\ step[p] > First(c)
             /\ c.type \in mainTable => \A t \in Children(c.type) : Ran(p, SelectRows(t))
  <2>1. step[p] > Len(Program(c))
    BY <1>9 DEF Done
  <2>2. ASSUME c.type \in mainTable, NEW t \in Children(c.type)
        PROVE  Ran(p, SelectRows(t))
    <3>1. PICK i \in First(c) + 1 .. Len(Program(c)) : Program(c)[i] = SelectRows(t)
      BY <1>1, <2>2, ReadOrder
    <3>2. i \in 1 .. Len(Program(c)) /\ i < step[p]
      BY <1>1, <1>2, <2>1, <3>1
    <3> QED
      BY <3>1, <3>2 DEF Ran, Before
  <2> QED
    BY <1>1, <1>2, <2>1, <2>2
<1> QED
  BY <1>5, <1>6, <1>7, <1>8, <1>9
LEMMA ScopeSlots ==
  ASSUME NEW p \in Callers, NEW s \in Scope(call[p])
  PROVE  s \in Slots /\ s[3] \in IDs /\ s = Slot(p, s[3])
BY DEF Scope, Slots, Slot

\* The SELECT of the main table takes each row that the reader sees.
LEMMA SelectMainReading ==
  ASSUME Inv, Isolated, NEW p \in Callers, SelectMain(p)
  PROVE  Reading(p)'
<1> DEFINE found == {s \in Scope(call[p]) : View(p)[s].row # Absent}
           Object(id) == IF \E s \in found : s[3] = id
                         THEN [Nothing EXCEPT !.row = View(p)[Slot(p, id)].row]
                         ELSE Nothing
<1>1. pc[p] = "running" /\ ~Done(p) /\ Current(p).do = "select" /\ Moves(p)
  BY SelectMainMoves DEF SelectMain, Executing
<1>2. call[p].op \in {"get", "list"} /\ View(p) \in [Slots -> Stored]
  BY <1>1, Running DEF Allowed
<1>3. /\ step[p] = First(call[p]) /\ call[p].type \in mainTable
      /\ \A t : ~Ran(p, SelectRows(t))
  <2>1. step[p] = First(call[p]) /\ call[p].type \in mainTable
    BY <1>1, <1>2, WhereReading
  <2>2. step[p] <= First(call[p])
    BY <1>1, <2>1, Running
  <2> QED
    BY <1>1, <1>2, <2>1, <2>2, WhereReading
<1>4. step'[p] = step[p] + 1 /\ call' = call /\ View(p)' = View(p)
  BY <1>1, RanMoves, ViewMoves
<1>5. ASSUME NEW t
      PROVE  ~Ran(p, SelectRows(t))'
  <2>1. SelectRows(t) # Current(p)
    BY <1>1 DEF SelectRows, Stmt
  <2> QED
    BY <1>1, <1>3, <2>1, RanMoves
<1>6. PICK first \in IF found = {} THEN {Nil} ELSE {s[3] : s \in found} :
        buf'[p] = [objs |-> [id \in IDs |-> Object(id)], first |-> first]
  <2>1. PICK first \in IF found = {} THEN {Nil} ELSE {s[3] : s \in found} :
          buf' = [buf EXCEPT ![p] = [objs |-> [id \in IDs |-> Object(id)], first |-> first]]
    BY DEF SelectMain, Slot
  <2>2. buf \in [Callers -> [objs : [IDs -> Stored], first : IDs \cup {Nil}]]
    BY DEF Inv, TypeOK
  <2> HIDE DEF found, Object
  <2> QED
    BY <2>1, <2>2
<1>7. ASSUME NEW id \in IDs
      PROVE  /\ Object(id).row = IF Slot(p, id) \in Scope(call[p])
                                 THEN View(p)[Slot(p, id)].row ELSE Absent
             /\ \A t \in ChildTables : Object(id).sub[t] = {}
  <2>1. (\E s \in found : s[3] = id) <=> Slot(p, id) \in found
    <3>1. Slot(p, id)[3] = id
      BY DEF Slot
    <3> QED
      BY <3>1, ScopeSlots
  <2>2. Nothing.row = Absent /\ \A t \in ChildTables : Nothing.sub[t] = {}
    BY DEF Nothing
  <2>3. ASSUME NEW v
        PROVE  /\ [Nothing EXCEPT !.row = v].row = v
               /\ [Nothing EXCEPT !.row = v].sub = Nothing.sub
    BY DEF Nothing
  <2>4. CASE Slot(p, id) \in found
    <3>1. Object(id) = [Nothing EXCEPT !.row = View(p)[Slot(p, id)].row]
      BY <2>1, <2>4
    <3>2. Slot(p, id) \in Scope(call[p])
      BY <2>4
    <3> HIDE DEF Object, found
    <3> QED
      BY <2>2, <2>3, <3>1, <3>2
  <2>5. CASE Slot(p, id) \notin found
    BY <2>1, <2>2, <2>5
  <2> QED
    BY <2>4, <2>5
<1>8. ASSUME first = Nil, NEW s \in Scope(call[p])
      PROVE  View(p)[s].row = Absent
  <2>1. CASE found = {}
    BY <2>1
  <2>2. CASE found # {}
    BY <1>6, <1>8, <2>2, ScopeSlots, SQLAssumption
  <2> QED
    BY <2>1, <2>2
<1> HIDE DEF Object
<1>9. ASSUME NEW id \in IDs
      PROVE  ReadSoFar(p, id)'
  <2>1. buf'[p].objs[id] = Object(id) /\ Slot(p, id)' = Slot(p, id)
    BY <1>4, <1>6 DEF Slot
  <2> QED
    BY <1>4, <1>5, <1>7, <2>1 DEF ReadSoFar
<1>10. buf'[p].first = first
  BY <1>6
<1> QED
  BY <1>3, <1>4, <1>8, <1>9, <1>10 DEF Reading

\* Each child row that the reader sees finds its object.
LEMMA SelectChildrenReading ==
  ASSUME Inv, Isolated, Committed, NEW p \in Callers, SnapWhole(p), Reading(p),
         SelectChildren(p)
  PROVE  Moves(p) /\ Reading(p)'
<1> DEFINE t == Current(p).table
           found == {s \in Scope(call[p]) : View(p)[s].sub[t] # {}}
           items(id) == UNION {View(p)[s].sub[t] : s \in {x \in found : Owner(p, x[3]) = id}}
<1>1. pc[p] = "running" /\ ~Done(p) /\ Current(p).do = "selectRows"
  BY DEF SelectChildren, Executing
<1>2. /\ call[p].op \in {"get", "list"} /\ View(p) \in [Slots -> Stored]
      /\ t \in ChildTables
  BY <1>1, Running, ChildrenAreTables DEF Allowed
<1>3. step[p] > First(call[p]) /\ Current(p) = SelectRows(t)
  BY <1>1, <1>2, WhereReading
<1>4. /\ call[p].type \in mainTable
      /\ \A id \in IDs : ReadSoFar(p, id)
      /\ buf[p].first = Nil => \A s \in Scope(call[p]) : View(p)[s].row = Absent
  BY <1>2, <1>3 DEF Reading
<1>5. ASSUME NEW s \in found
      PROVE  View(p)[s].row # Absent
  <2>1. s \in Slots /\ View(p)[s].sub[t] # {}
    BY ScopeSlots
  <2>2. View(p)[s] # Nothing
    BY <1>2, <2>1 DEF Nothing
  <2>3. Whole(s[1], s[2], s[3], View(p)[s])
    BY <1>1, <2>1, <2>2, ViewWhole DEF Complete
  <2> QED
    BY <2>1, <2>3, WholeContent, SQLAssumption
<1>6. ASSUME NEW s \in found
      PROVE  Owner(p, s[3]) = s[3]
  <2>1. s[3] \in IDs /\ s = Slot(p, s[3]) /\ s \in Scope(call[p])
    BY ScopeSlots
  <2>2. buf[p].objs[s[3]].row = View(p)[s].row
    BY <1>4, <2>1 DEF ReadSoFar
  <2> QED
    BY <1>5, <2>2 DEF Owner
<1>7. found # {} => buf[p].first # Nil
  BY <1>4, <1>5
<1>8. /\ buf' = [buf EXCEPT ![p].objs = [id \in IDs |-> [@[id] EXCEPT !.sub[t] = items(id)]]]
      /\ Advance(p) /\ UNCHANGED <<latest, held>>
  BY <1>7 DEF SelectChildren
<1>9. Moves(p)
  <2>1. Rollback(p, "panic") => step'[p] = 1
    BY DEF Rollback, Finish, Inv, TypeOK
  <2>2. step'[p] = step[p] + 1 /\ step[p] \in Nat \ {0}
    BY <1>1, <1>8, Running DEF Advance, Inv, TypeOK
  <2> QED
    BY <2>1, <2>2, SelectChildrenMoves
<1>10. step'[p] = step[p] + 1 /\ call' = call /\ View(p)' = View(p)
  BY <1>9, RanMoves, ViewMoves
<1>11. ASSUME NEW u
       PROVE  Ran(p, SelectRows(u))' <=> Ran(p, SelectRows(u)) \/ u = t
  <2>1. SelectRows(u) = Current(p) <=> u = t
    BY <1>3 DEF SelectRows, Stmt
  <2> QED
    BY <1>9, <2>1, RanMoves
<1>12. ASSUME NEW id \in IDs
       PROVE  items(id) = IF Slot(p, id) \in Scope(call[p])
                          THEN View(p)[Slot(p, id)].sub[t] ELSE {}
  <2> DEFINE mine == {x \in found : Owner(p, x[3]) = id}
  <2>1. mine = {x \in found : x[3] = id}
    BY <1>6
  <2>2. \A x \in found : x[3] = id <=> x = Slot(p, id)
    <3>1. Slot(p, id)[3] = id
      BY DEF Slot
    <3> QED
      BY <3>1, ScopeSlots
  <2>3. CASE Slot(p, id) \in found
    <3>1. mine = {Slot(p, id)}
      BY <2>1, <2>2, <2>3
    <3>2. items(id) = View(p)[Slot(p, id)].sub[t]
      BY <3>1
    <3> QED
      BY <2>3, <3>2
  <2>4. CASE Slot(p, id) \notin found
    <3>1. mine = {}
      BY <2>1, <2>2, <2>4
    <3>2. items(id) = {}
      BY <3>1
    <3> QED
      BY <2>4, <3>2
  <2> QED
    BY <2>3, <2>4
<1> HIDE DEF items, found
<1>13. /\ buf'[p].first = buf[p].first
       /\ buf'[p].objs = [id \in IDs |-> [buf[p].objs[id] EXCEPT !.sub[t] = items(id)]]
  <2> DEFINE objs == [id \in IDs |-> [buf[p].objs[id] EXCEPT !.sub[t] = items(id)]]
  <2>1. buf \in [Callers -> [objs : [IDs -> Stored], first : IDs \cup {Nil}]]
    BY DEF Inv, TypeOK
  <2>2. buf' = [buf EXCEPT ![p].objs = objs]
    BY <1>8
  <2> HIDE DEF objs
  <2>3. buf'[p].first = buf[p].first /\ buf'[p].objs = objs
    BY <2>1, <2>2
  <2> QED
    BY <2>3 DEF objs
<1>14. ASSUME NEW id \in IDs
       PROVE  /\ buf'[p].objs[id].row = buf[p].objs[id].row
              /\ buf'[p].objs[id].sub[t] = items(id)
              /\ \A u \in ChildTables \ {t} : buf'[p].objs[id].sub[u] = buf[p].objs[id].sub[u]
  <2> DEFINE r == buf[p].objs[id]
  <2>1. r \in Stored
    BY DEF Inv, TypeOK
  <2>2. buf'[p].objs[id] = [r EXCEPT !.sub = [r.sub EXCEPT ![t] = items(id)]]
    BY <1>13
  <2> HIDE DEF r
  <2>3. /\ buf'[p].objs[id].row = r.row
        /\ buf'[p].objs[id].sub = [r.sub EXCEPT ![t] = items(id)]
        /\ r.sub \in [ChildTables -> SUBSET Items]
    BY <2>1, <2>2 DEF Stored
  <2> HIDE DEF t
  <2>4. /\ buf'[p].objs[id].sub[t] = items(id)
        /\ \A u \in ChildTables \ {t} : buf'[p].objs[id].sub[u] = r.sub[u]
    BY <1>2, <2>3
  <2> QED
    BY <2>3, <2>4 DEF r
<1>15. ASSUME NEW id \in IDs
       PROVE  ReadSoFar(p, id)'
  <2>1. Slot(p, id)' = Slot(p, id)
    BY <1>10 DEF Slot
  <2>2. ReadSoFar(p, id)
    BY <1>4
  <2> DEFINE seen == Slot(p, id) \in Scope(call[p])
  <2>3. buf'[p].objs[id].row = IF seen THEN View(p)[Slot(p, id)].row ELSE Absent
    BY <1>14, <2>2 DEF ReadSoFar
  <2>4. ASSUME NEW u \in ChildTables
        PROVE  buf'[p].objs[id].sub[u] = IF seen /\ Ran(p, SelectRows(u))'
                                         THEN View(p)[Slot(p, id)].sub[u] ELSE {}
    <3> HIDE DEF t
    <3>1. CASE u = t
      <4>1. Ran(p, SelectRows(u))'
        BY <1>11, <3>1
      <4> QED
        BY <1>12, <1>14, <3>1, <4>1
    <3>2. CASE u # t
      <4>1. buf'[p].objs[id].sub[u] = buf[p].objs[id].sub[u]
        BY <1>14, <3>2
      <4>2. Ran(p, SelectRows(u))' <=> Ran(p, SelectRows(u))
        BY <1>11, <3>2
      <4> QED
        BY <2>2, <4>1, <4>2 DEF ReadSoFar
    <3> QED
      BY <3>1, <3>2
  <2> QED
    BY <1>10, <2>1, <2>3, <2>4 DEF ReadSoFar
<1> QED
  BY <1>4, <1>9, <1>10, <1>13, <1>15 DEF Reading

\* A reader that has read all tables has each object as it sees it,
LEMMA ReadAll ==
  ASSUME Inv, Committed, NEW p \in Callers, pc[p] = "running", SnapWhole(p), Reading(p),
         Done(p), call[p].op \in {"get", "list"}, NEW id \in IDs
  PROVE  /\ buf[p].objs[id].row =
              IF Slot(p, id) \in Scope(call[p]) THEN View(p)[Slot(p, id)].row ELSE Absent
         /\ buf[p].objs[id].row # Absent =>
              Slot(p, id) \in Scope(call[p]) /\ buf[p].objs[id] = View(p)[Slot(p, id)]
<1> DEFINE s == Slot(p, id)
           r == buf[p].objs[id]
           v == View(p)[s]
<1>1. call[p].type \in mainTable /\ ReadSoFar(p, id)
  BY WhereReading DEF Reading
<1>2. \A t \in Children(call[p].type) : Ran(p, SelectRows(t))
  BY <1>1, WhereReading
<1>3. r.row = IF s \in Scope(call[p]) THEN v.row ELSE Absent
  BY <1>1 DEF ReadSoFar
<1> SUFFICES ASSUME r.row # Absent
             PROVE  r = v
  BY <1>3
<1>4. s \in Slots /\ s[2] = call[p].type /\ s \in Scope(call[p])
  BY <1>3, ScopeSlots DEF Slot
<1>5. Whole(s[1], s[2], s[3], v)
  <2>1. v # Nothing
    BY <1>3 DEF Nothing
  <2> QED
    BY <1>4, <2>1, ViewWhole DEF Complete
<1>6. \A t \in ChildTables : t \notin Children(call[p].type) => v.sub[t] = {}
  BY <1>4, <1>5, WholeContent
<1>7. \A t \in ChildTables : r.sub[t] = v.sub[t]
  BY <1>1, <1>2, <1>4, <1>6 DEF ReadSoFar
<1>8. r \in Stored /\ v \in Stored
  BY <1>4, Running DEF Inv, TypeOK
<1> HIDE DEF r, v
<1> QED
  BY <1>3, <1>4, <1>7, <1>8 DEF Stored

\* and so as a request said it.
LEMMA ReadWhole ==
  ASSUME Inv, Committed, NEW p \in Callers, pc[p] = "running", SnapWhole(p), Reading(p),
         Done(p), call[p].op \in {"get", "list"},
         NEW id \in IDs, buf[p].objs[id].row # Absent
  PROVE  Whole(call[p].tenant, call[p].type, id, buf[p].objs[id])
<1> DEFINE s == Slot(p, id)
<1>1. s \in Scope(call[p]) /\ buf[p].objs[id] = View(p)[s]
  BY ReadAll
<1>2. s \in Slots /\ s[1] = call[p].tenant /\ s[2] = call[p].type /\ s[3] = id
  BY <1>1, ScopeSlots DEF Slot
<1>3. View(p)[s] # Nothing
  BY <1>1 DEF Nothing
<1> QED
  BY <1>1, <1>2, <1>3, ViewWhole DEF Complete

\* What a get or a list returns.
LEMMA CommitReads ==
  ASSUME Inv, Committed, NEW p \in Callers, SnapWhole(p), Reading(p), Commit(p)
  PROVE  /\ call[p].op = "get" =>
              Whole(call[p].tenant, call[p].type, call[p].id, Answer(p))
         /\ call[p].op = "list" => \A id \in IDs : Answer(p)[id] # Absent =>
              Whole(call[p].tenant, call[p].type, id, Answer(p)[id])
<1>1. pc[p] = "running" /\ Done(p) /\ Answer(p) # Absent
  BY DEF Commit
<1>2. call[p].id \in IDs
  BY <1>1, Running DEF Calls
<1>3. CASE call[p].op = "get"
  <2>1. /\ buf[p].objs[call[p].id].row # Absent
        /\ Answer(p) = buf[p].objs[call[p].id]
    BY <1>1, <1>3 DEF Answer
  <2> QED
    BY <1>1, <1>2, <1>3, <2>1, ReadWhole
<1>4. CASE call[p].op = "list"
  <2>1. Answer(p) = [id \in IDs |-> IF buf[p].objs[id].row = Absent THEN Absent
                                                                   ELSE buf[p].objs[id]]
    BY <1>4 DEF Answer
  <2>2. ASSUME NEW id \in IDs, Answer(p)[id] # Absent
        PROVE  Whole(call[p].tenant, call[p].type, id, Answer(p)[id])
    <3>1. buf[p].objs[id].row # Absent /\ Answer(p)[id] = buf[p].objs[id]
      BY <2>1, <2>2
    <3> QED
      BY <1>1, <1>4, <3>1, ReadWhole
  <2> QED
    BY <1>4, <2>2
<1> QED
  BY <1>3, <1>4

\* What p's call returns, and what it may not.
Returns(p) ==
  /\ call[p].op \in {"get", "list"} => result[p].kind # "panic"
  /\ result[p].kind = "ok" =>
       /\ call[p].op = "get" =>
            Whole(call[p].tenant, call[p].type, call[p].id, result[p].val)
       /\ call[p].op = "list" => \A id \in IDs : result[p].val[id] # Absent =>
            Whole(call[p].tenant, call[p].type, id, result[p].val[id])

LEMMA ReturnsSuffice ==
  (\A p \in Callers : pc[p] = "returned" => Returns(p)) <=> ReadsAreWhole /\ ReadsDoNotPanic
BY DEF Returns, ReadsAreWhole, ReadsDoNotPanic

\* The step of a running transaction.
LEMMA StatementReads ==
  ASSUME Inv, Isolated, Committed, AllReading, DOMAIN result = Callers,
         NEW p \in Callers, Statement(p) \/ Fail(p)
  PROVE  /\ pc'[p] = "running" => SnapWhole(p)' /\ Reading(p)'
         /\ pc'[p] = "returned" => Returns(p)'
         /\ Isolation = "serializable" => \A q \in Callers \ {p} :
              pc[q] = "running" /\ step[q] > 1 => db' = db
<1>1. pc[p] = "running" /\ SnapWhole(p) /\ Reading(p)
  BY TransactionStep DEF AllReading
<1>2. ASSUME NEW kind \in {"missing", "conflict", "error"}, Rollback(p, kind)
      PROVE  /\ pc'[p] = "returned" /\ Returns(p)' /\ db' = db
  <2>1. /\ result' = [result EXCEPT ![p] = Result(kind, Nil)] /\ call' = call /\ db' = db
        /\ pc' = [pc EXCEPT ![p] = "returned"]
    BY <1>2 DEF Rollback, Finish
  <2>2. result'[p].kind = kind
    BY <2>1 DEF Result
  <2>3. kind # "panic" /\ kind # "ok"
    BY <1>2
  <2>4. pc'[p] = "returned"
    BY <2>1 DEF Inv, TypeOK
  <2> QED
    BY <2>1, <2>2, <2>3, <2>4 DEF Returns
<1>3. CASE Commit(p)
  <2>1. /\ result' = [result EXCEPT ![p] = Result("ok", Answer(p))] /\ call' = call
        /\ pc' = [pc EXCEPT ![p] = "returned"]
    BY <1>3 DEF Commit, Finish
  <2>2. result'[p].kind = "ok" /\ result'[p].val = Answer(p)
    BY <2>1 DEF Result
  <2>3. pc'[p] = "returned"
    BY <2>1 DEF Inv, TypeOK
  <2>4. Returns(p)'
    BY <1>1, <1>3, <2>1, <2>2, CommitReads DEF Returns, Whole
  <2> QED
    BY <1>3, <2>3, <2>4, CommitsAlone
<1>4. ASSUME Moves(p)
      PROVE  pc'[p] = "running" /\ SnapWhole(p)' /\ db' = db
  <2>1. /\ snap' = [snap EXCEPT ![p] = IF Isolation = "repeatableRead" THEN View(p) ELSE Nil]
        /\ pc' = pc /\ db' = db
    BY <1>4 DEF Moves, Advance
  <2>2. Isolation = "repeatableRead" => snap'[p] = View(p)
    BY <2>1 DEF Inv, TypeOK
  <2>3. \A s \in Slots : Complete(s, View(p)[s])
    BY <1>1, ViewWhole
  <2>4. SnapWhole(p)'
    BY <2>2, <2>3 DEF SnapWhole, Complete, Whole
  <2> QED
    BY <1>1, <2>1, <2>4
<1>5. ASSUME Moves(p), call[p].op \notin {"get", "list"}
      PROVE  Reading(p)'
  BY <1>5, RanMoves DEF Reading
<1>6. CASE \/ ~Rollback(p, "error") /\ InsertMain(p)
           \/ ~Rollback(p, "error") /\ InsertChildren(p)
           \/ UpdateMain(p) \/ DeleteChildren(p) \/ DeleteMain(p) \/ ClearTable(p)
  <2>1. Moves(p)
    BY <1>6, InsertMainMoves, InsertChildrenMoves, UpdateMainMoves, DeleteChildrenMoves,
       DeleteMainMoves, ClearTableMoves
  <2>2. ~Done(p) /\ Current(p).do \in {"insert", "insertRows", "update", "deleteRows",
                                       "delete", "clear"}
    BY <1>6 DEF InsertMain, InsertChildren, UpdateMain, DeleteChildren, DeleteMain, ClearTable,
                Executing
  <2>3. call[p].op \notin {"get", "list"}
    BY <1>1, <2>2, Keys
  <2> QED
    BY <1>4, <1>5, <2>1, <2>3
<1>7. CASE EnsureHasRecord(p) \/ EnsureDoesntHaveRecord(p)
  <2>1. ~Done(p) /\ Current(p).do \in {"ensureHas", "ensureDoesntHave"}
    BY <1>7 DEF EnsureHasRecord, EnsureDoesntHaveRecord, Executing
  <2>2. \/ Rollback(p, "missing") \/ Rollback(p, "conflict")
        \/ Advance(p) /\ UNCHANGED <<latest, held, buf>>
    BY <1>7 DEF EnsureHasRecord, EnsureDoesntHaveRecord
  <2>3. CASE Moves(p)
    <3>1. CASE call[p].op \in {"get", "list"}
      <4>1. Current(p).do = "ensureHas"
        BY <1>1, <2>1, <3>1, Running DEF Allowed
      <4>2. step[p] < First(call[p]) /\ step[p] \in Nat \ {0}
        BY <1>1, <2>1, <3>1, <4>1, WhereReading, Running
      <4>3. step'[p] = step[p] + 1 /\ call' = call
        BY <2>3, RanMoves
      <4>4. ~(step'[p] > First(call[p]))
        BY <4>2, <4>3 DEF First
      <4> QED
        BY <1>4, <2>3, <4>3, <4>4 DEF Reading
    <3>2. CASE call[p].op \notin {"get", "list"}
      BY <1>4, <1>5, <2>3, <3>2
    <3> QED
      BY <3>1, <3>2
  <2> QED
    BY <1>1, <1>2, <2>1, <2>2, <2>3, StayMoves
<1>8. CASE SelectMain(p)
  BY <1>4, <1>8, SelectMainMoves, SelectMainReading
<1>9. CASE SelectChildren(p)
  BY <1>1, <1>4, <1>9, SelectChildrenReading
<1> QED
  BY <1>2, <1>3, <1>6, <1>7, <1>8, <1>9, StatementCases

\* A statement only adds to the objects of its own transaction.
LEMMA MovesBuf ==
  ASSUME Inv, NEW p \in Callers, Statement(p) \/ Fail(p)
  PROVE  \E b : buf' = [buf EXCEPT ![p] = b]
<1>1. ASSUME buf' = buf
      PROVE  \E b : buf' = [buf EXCEPT ![p] = b]
  <2>1. buf' = [buf EXCEPT ![p] = buf[p]]
    BY <1>1 DEF Inv, TypeOK
  <2> QED
    BY <2>1
<1>2. CASE \E kind \in {"missing", "conflict", "error"} : Rollback(p, kind)
  BY <1>2 DEF Rollback, Finish
<1>3. CASE Commit(p)
  BY <1>3 DEF Commit, Finish
<1>4. CASE ~Rollback(p, "error") /\ (InsertMain(p) \/ InsertChildren(p))
  BY <1>1, <1>4, InsertMainStores, InsertChildrenStores DEF Stores
<1>5. CASE UpdateMain(p) \/ DeleteChildren(p) \/ DeleteMain(p) \/ ClearTable(p)
  BY <1>1, <1>5 DEF UpdateMain, DeleteChildren, DeleteMain, ClearTable, Write
<1>6. CASE EnsureHasRecord(p) \/ EnsureDoesntHaveRecord(p)
  <2>1. \/ Rollback(p, "missing") \/ Rollback(p, "conflict")
        \/ buf' = buf
    BY <1>6 DEF EnsureHasRecord, EnsureDoesntHaveRecord
  <2> QED
    BY <1>1, <1>2, <2>1
<1>7. CASE SelectMain(p)
  BY <1>7 DEF SelectMain
<1>8. CASE SelectChildren(p)
  <2>1. CASE Rollback(p, "panic")
    BY <2>1 DEF Rollback, Finish
  <2>2. CASE ~Rollback(p, "panic")
    BY <1>8, <2>2 DEF SelectChildren
  <2> QED
    BY <2>1, <2>2
<1> QED
  BY <1>2, <1>3, <1>4, <1>5, <1>6, <1>7, <1>8, StatementCases

LEMMA ReadNext == Inv /\ WholeInv /\ ReadInv /\ [Next]_vars => ReadInv'
<1> SUFFICES ASSUME Inv, WholeInv, ReadInv, [Next]_vars
             PROVE  ReadInv'
  OBVIOUS
<1>1. DOMAIN result = Callers
  BY DEF ReadInv
<1>2. DOMAIN result' = Callers
  <2>1. ASSUME NEW p \in Callers, Statement(p) \/ Fail(p)
        PROVE  result' = result \/ \E r : result' = [result EXCEPT ![p] = r]
    <3>1. \/ Moves(p)
          \/ \E kind \in {"missing", "conflict", "error", "panic"} : Rollback(p, kind)
          \/ Commit(p)
      BY <2>1, TransactionStep
    <3> QED
      BY <3>1 DEF Moves, Advance, Rollback, Commit, Finish
  <2>2. ASSUME NEW p \in Callers, Invoke(p) \/ Reject(p) \/ Begin(p) \/ Return(p)
        PROVE  result' = result \/ \E r : result' = [result EXCEPT ![p] = r]
    BY <2>2 DEF Invoke, Reject, Begin, Return
  <2>3. Expire \/ UNCHANGED vars => result' = result
    BY DEF Expire, vars
  <2> QED
    BY <1>1, <2>1, <2>2, <2>3 DEF Next
<1> SUFFICES ASSUME Isolated
             PROVE  AllReading' /\ ReadsAreWhole' /\ ReadsDoNotPanic'
  BY <1>2 DEF ReadInv
<1>3. Committed /\ AllReading /\ \A q \in Callers : pc[q] = "returned" => Returns(q)
  BY ReturnsSuffice DEF WholeInv, ReadInv
<1>4. (\A q \in Callers : pc'[q] = "returned" => Returns(q)')
        <=> ReadsAreWhole' /\ ReadsDoNotPanic'
  BY DEF Returns, ReadsAreWhole, ReadsDoNotPanic
<1>5. ASSUME NEW q \in Callers, pc[q] = "returned", call'[q] = call[q], result'[q] = result[q]
      PROVE  Returns(q)'
  BY <1>3, <1>5 DEF Returns, Whole
<1>6. ASSUME NEW p \in Callers, Statement(p) \/ Fail(p)
      PROVE  AllReading' /\ ReadsAreWhole' /\ ReadsDoNotPanic'
  <2>1. /\ pc'[p] = "running" => SnapWhole(p)' /\ Reading(p)'
        /\ pc'[p] = "returned" => Returns(p)'
        /\ Isolation = "serializable" => \A q \in Callers \ {p} :
             pc[q] = "running" /\ step[q] > 1 => db' = db
    BY <1>1, <1>3, <1>6, StatementReads
  <2>2. ASSUME NEW q \in Callers \ {p}
        PROVE  /\ pc'[q] = pc[q] /\ step'[q] = step[q] /\ call'[q] = call[q]
               /\ snap'[q] = snap[q] /\ buf'[q] = buf[q] /\ result'[q] = result[q]
    <3>1. CASE Moves(p)
      <4>1. \E b : buf' = [buf EXCEPT ![p] = b]
        BY <1>6, <3>1, MovesBuf
      <4> QED
        BY <1>1, <3>1, <4>1 DEF Moves, Advance, Inv, TypeOK
    <3>2. CASE \E kind \in {"missing", "conflict", "error", "panic"} : Rollback(p, kind)
      BY <1>1, <3>2 DEF Rollback, Finish, Inv, TypeOK
    <3>3. CASE Commit(p)
      BY <1>1, <3>3 DEF Commit, Finish, Inv, TypeOK
    <3> QED
      BY <1>6, <3>1, <3>2, <3>3, TransactionStep
  <2>3. ASSUME NEW q \in Callers, pc'[q] = "running"
        PROVE  SnapWhole(q)' /\ Reading(q)'
    <3>1. CASE q = p
      BY <2>1, <2>3, <3>1
    <3>2. CASE q # p
      <4>1. pc[q] = "running" /\ SnapWhole(q) /\ Reading(q)
        BY <1>3, <2>2, <2>3, <3>2 DEF AllReading
      <4> QED
        BY <2>1, <2>2, <3>2, <4>1, OthersReading
    <3> QED
      BY <3>1, <3>2
  <2>4. ASSUME NEW q \in Callers, pc'[q] = "returned"
        PROVE  Returns(q)'
    BY <1>5, <2>1, <2>2, <2>4
  <2> QED
    BY <1>4, <2>3, <2>4 DEF AllReading
<1>7. ASSUME UNCHANGED <<db, step, snap, buf>>,
             \A q \in Callers : pc'[q] = "running" =>
               \/ pc[q] = "running" /\ call'[q] = call[q]
               \/ step[q] = 1
      PROVE  AllReading'
  <2>1. ASSUME NEW q \in Callers, pc'[q] = "running"
        PROVE  SnapWhole(q)' /\ Reading(q)'
    <3>1. CASE pc[q] = "running" /\ call'[q] = call[q]
      BY <1>3, <1>7, <3>1, OthersReading DEF AllReading
    <3>2. CASE step[q] = 1
      BY <1>7, <3>2 DEF SnapWhole, Reading, First
    <3> QED
      BY <1>7, <2>1, <3>1, <3>2
  <2> QED
    BY <2>1 DEF AllReading
<1>8. CASE Expire \/ UNCHANGED vars
  <2>1. UNCHANGED <<db, step, snap, buf, pc, call, result>>
    BY <1>8 DEF Expire, vars, txVars
  <2> QED
    BY <1>4, <1>5, <1>7, <2>1
<1>9. ASSUME NEW p \in Callers, Invoke(p) \/ Reject(p) \/ Begin(p) \/ Return(p)
      PROVE  AllReading' /\ ReadsAreWhole' /\ ReadsDoNotPanic'
  <2>1. /\ UNCHANGED <<db, step, snap, buf>> /\ pc[p] # "running"
        /\ \E x : pc' = [pc EXCEPT ![p] = x]
        /\ call' = call \/ \E y : call' = [call EXCEPT ![p] = y]
        /\ result' = result \/ \E y : result' = [result EXCEPT ![p] = y]
    BY <1>9 DEF Invoke, Reject, Begin, Return, txVars
  <2>2. step[p] = 1
    BY <2>1 DEF Inv, InTransaction
  <2>3. \A q \in Callers \ {p} : /\ pc'[q] = pc[q] /\ call'[q] = call[q]
                                 /\ result'[q] = result[q]
    BY <1>1, <2>1 DEF Inv, TypeOK
  <2>4. pc'[p] = "returned" => Returns(p)'
    <3>1. CASE Reject(p)
      <4>1. /\ call' = call /\ result' = [result EXCEPT ![p] = Result(Check(call[p]), Nil)]
            /\ Check(call[p]) # "ok"
        BY <3>1 DEF Reject
      <4>2. result'[p].kind = Check(call[p])
        BY <1>1, <4>1 DEF Result
      <4>3. call[p].op \in {"get", "list"} => Check(call[p]) # "panic"
        BY DEF Check
      <4> QED
        BY <4>1, <4>2, <4>3 DEF Returns
    <3>2. CASE Invoke(p) \/ Begin(p) \/ Return(p)
      BY <3>2 DEF Invoke, Begin, Return, Inv, TypeOK
    <3> QED
      BY <1>9, <3>1, <3>2
  <2> QED
    BY <1>4, <1>5, <1>7, <2>1, <2>2, <2>3, <2>4
<1> QED
  BY <1>6, <1>8, <1>9 DEF Next

\* At an isolation level above read committed, and with foreign keys, each
\* object that a get or a list returns is what one request said of it, although
\* it is collected by up to three SELECTs.
THEOREM WholeReads == Spec => [](Isolated => ReadsAreWhole)
<1>1. Init => Inv /\ OrphanInv /\ WholeInv /\ ReadInv
  BY InitInv, OrphanInit, WholeInit, ReadInit
<1>2. Inv /\ OrphanInv /\ WholeInv /\ ReadInv /\ [Next]_vars
        => (Inv /\ OrphanInv /\ WholeInv /\ ReadInv)'
  BY NextInv, OrphanNext, WholeNext, ReadNext
<1>3. Inv /\ OrphanInv /\ WholeInv /\ ReadInv => (Isolated => ReadsAreWhole)
  BY DEF ReadInv
<1> QED
  BY <1>1, <1>2, <1>3, PTL DEF Spec

\* No get or list meets a child row without its object there (users[0] of an
\* empty slice).
THEOREM NoReadPanics == Spec => [](Isolated => ReadsDoNotPanic)
<1>1. Init => Inv /\ OrphanInv /\ WholeInv /\ ReadInv
  BY InitInv, OrphanInit, WholeInit, ReadInit
<1>2. Inv /\ OrphanInv /\ WholeInv /\ ReadInv /\ [Next]_vars
        => (Inv /\ OrphanInv /\ WholeInv /\ ReadInv)'
  BY NextInv, OrphanNext, WholeNext, ReadNext
<1>3. Inv /\ OrphanInv /\ WholeInv /\ ReadInv => (Isolated => ReadsDoNotPanic)
  BY DEF ReadInv
<1> QED
  BY <1>1, <1>2, <1>3, PTL DEF Spec
=============================================================================
