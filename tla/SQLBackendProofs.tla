-------------------------- MODULE SQLBackendProofs --------------------------
(***************************************************************************)
(* Proofs about SQLBackend, for any goroutines, calls, tables' contents,   *)
(* number of connections and isolation level: the inductive invariant of   *)
(* its transactions, and what follows from it.                             *)
(***************************************************************************)
EXTENDS SQLBackend, FiniteSetTheorems, SequenceTheorems, TLAPS

USE DEF Result

-----------------------------------------------------------------------------
(* What the methods have checked, and the statements that they execute.    *)

\* A method that begins a transaction knows its table, and a body that it is
\* going to store has been parsed.
LEMMA Checked ==
  ASSUME NEW c \in Calls, Check(c) = "ok"
  PROVE  /\ c.op \in {"create", "update", "delete", "get"} => c.type \in mainTable
         /\ c.op \in {"create", "update"} => c.body.id \in IDs
         /\ c.op = "delete" \/ c.op = "get" => c.id \in IDs
         /\ c.body.data \in Data
         /\ c.tenant \in Tenants /\ c.type \in Types
<1>1. c.body \in Bodies /\ c.tenant \in Tenants /\ c.type \in Types /\ c.id \in IDs
  BY DEF Calls
<1>2. c.op \in {"create", "update", "delete", "get"} => c.type \in mainTable
  BY DEF Check
<1>3. ASSUME c.op \in {"create", "update"}
      PROVE  c.body.id \in IDs
  <2>1. c.type \in mainTable /\ validatingObjectParser(c.type, c.body).kind = "ok"
    BY <1>2, <1>3 DEF Check
  <2>2. c.type \in ResourceTypes
    BY <2>1 DEF mainTable, ResourceTypes, Required
  <2>3. objectParser(c.type, c.body).kind = "ok"
    BY <2>1 DEF validatingObjectParser, objectParser, Err, Ok, Panic
  <2>4. c.body.id # NotString
    BY <2>2, <2>3 DEF objectParser, Err
  <2> QED
    BY <1>1, <2>4 DEF Bodies
<1> QED
  BY <1>1, <1>2, <1>3 DEF Bodies

-----------------------------------------------------------------------------
(* The statements of each type of resource.                                *)

USE DEF Stmt, Insert, InsertRows, UpdateRow, DeleteRows, Select, SelectRows

TableStatements ==
  [do : {"insert", "insertRows", "update", "deleteRows", "select", "selectRows"},
   table : mainTable \cup ChildTables]

Distinct(seq) == \A i, j \in 1 .. Len(seq) : seq[i] = seq[j] => i = j

\* An object is created in its main table first, and then in each child table;
Creates(ty, seq) ==
  /\ seq \in Seq(TableStatements) /\ Len(seq) > 0 /\ Distinct(seq)
  /\ seq[1] = Insert(ty)
  /\ \A i \in 2 .. Len(seq) : \E t \in Children(ty) : seq[i] = InsertRows(t)
  /\ \A t \in Children(ty) : \E i \in 2 .. Len(seq) : seq[i] = InsertRows(t)

\* it is updated in the same order, and the old rows of each child table are
\* deleted just before the new ones are inserted;
Mutates(ty, seq) ==
  /\ seq \in Seq(TableStatements) /\ Len(seq) > 0 /\ Distinct(seq)
  /\ seq[1] = UpdateRow(ty)
  /\ \A i \in 2 .. Len(seq) : \E t \in Children(ty) :
       \/ seq[i] = DeleteRows(t)
       \/ seq[i] = InsertRows(t) /\ i > 2 /\ seq[i - 1] = DeleteRows(t)
  /\ \A t \in Children(ty) : \E i \in 2 .. Len(seq) : seq[i] = InsertRows(t)

\* and it is read in the same order.
Reads(ty, seq) ==
  /\ seq \in Seq(TableStatements) /\ Len(seq) > 0 /\ Distinct(seq)
  /\ seq[1] = Select(ty)
  /\ \A i \in 2 .. Len(seq) : \E t \in Children(ty) : seq[i] = SelectRows(t)
  /\ \A t \in Children(ty) : \E i \in 2 .. Len(seq) : seq[i] = SelectRows(t)

LEMMA StatementTypes ==
  /\ \A ty \in mainTable :
       {Insert(ty), UpdateRow(ty), Select(ty)} \subseteq TableStatements
  /\ \A t \in ChildTables :
       {InsertRows(t), DeleteRows(t), SelectRows(t)} \subseteq TableStatements
BY DEF TableStatements

\* A type without child tables,
LEMMA NoChildren ==
  ASSUME NEW ty \in mainTable, Children(ty) = {}
  PROVE  /\ Creates(ty, <<Insert(ty)>>)
         /\ Mutates(ty, <<UpdateRow(ty)>>)
         /\ Reads(ty, <<Select(ty)>>)
<1>1. /\ <<Insert(ty)>> \in Seq(TableStatements)
      /\ <<UpdateRow(ty)>> \in Seq(TableStatements)
      /\ <<Select(ty)>> \in Seq(TableStatements)
  BY StatementTypes
<1> QED
  BY <1>1 DEF Creates, Mutates, Reads, Distinct

\* with one of them,
LEMMA OneChild ==
  ASSUME NEW ty \in mainTable, NEW t \in ChildTables, Children(ty) = {t}
  PROVE  /\ Creates(ty, <<Insert(ty), InsertRows(t)>>)
         /\ Mutates(ty, <<UpdateRow(ty), DeleteRows(t), InsertRows(t)>>)
         /\ Reads(ty, <<Select(ty), SelectRows(t)>>)
<1>1. /\ <<Insert(ty), InsertRows(t)>> \in Seq(TableStatements)
      /\ <<UpdateRow(ty), DeleteRows(t), InsertRows(t)>> \in Seq(TableStatements)
      /\ <<Select(ty), SelectRows(t)>> \in Seq(TableStatements)
  BY StatementTypes
<1>2. Creates(ty, <<Insert(ty), InsertRows(t)>>)
  BY <1>1 DEF Creates, Distinct
<1>3. Reads(ty, <<Select(ty), SelectRows(t)>>)
  <2> DEFINE seq == <<Select(ty), SelectRows(t)>>
  <2>1. /\ Len(seq) = 2
        /\ seq[1] = Select(ty)
        /\ seq[2] = SelectRows(t)
    OBVIOUS
  <2>2. seq \in Seq(TableStatements)
    BY <1>1
  <2> HIDE DEF seq
  <2>3. Distinct(seq)
    BY <2>1 DEF Distinct
  <2>4. \A i \in 2 .. Len(seq) : \E x \in Children(ty) : seq[i] = SelectRows(x)
    BY <2>1
  <2>5. \A x \in Children(ty) : \E i \in 2 .. Len(seq) : seq[i] = SelectRows(x)
    BY <2>1
  <2> QED
    BY <2>1, <2>2, <2>3, <2>4, <2>5 DEF Reads, seq
<1>4. Mutates(ty, <<UpdateRow(ty), DeleteRows(t), InsertRows(t)>>)
  <2> DEFINE seq == <<UpdateRow(ty), DeleteRows(t), InsertRows(t)>>
  <2>1. /\ Len(seq) = 3 /\ seq[1] = UpdateRow(ty)
        /\ seq[2] = DeleteRows(t) /\ seq[3] = InsertRows(t)
    OBVIOUS
  <2>2. seq \in Seq(TableStatements)
    BY <1>1
  <2> HIDE DEF seq
  <2>3. Distinct(seq)
    BY <2>1 DEF Distinct
  <2>4. \A i \in 2 .. Len(seq) : \E x \in Children(ty) :
          \/ seq[i] = DeleteRows(x)
          \/ seq[i] = InsertRows(x) /\ i > 2 /\ seq[i - 1] = DeleteRows(x)
    BY <2>1
  <2>5. \A x \in Children(ty) : \E i \in 2 .. Len(seq) : seq[i] = InsertRows(x)
    BY <2>1
  <2> QED
    BY <2>1, <2>2, <2>3, <2>4, <2>5 DEF Mutates, seq
<1> QED
  BY <1>2, <1>3, <1>4

\* and with two.
LEMMA TwoChildren ==
  ASSUME NEW ty \in mainTable, NEW t \in ChildTables, NEW u \in ChildTables,
         t # u, Children(ty) = {t, u}
  PROVE  /\ Creates(ty, <<Insert(ty), InsertRows(t), InsertRows(u)>>)
         /\ Mutates(ty, <<UpdateRow(ty), DeleteRows(t), InsertRows(t),
                          DeleteRows(u), InsertRows(u)>>)
         /\ Reads(ty, <<Select(ty), SelectRows(t), SelectRows(u)>>)
<1>1. /\ <<Insert(ty), InsertRows(t), InsertRows(u)>> \in Seq(TableStatements)
      /\ <<UpdateRow(ty), DeleteRows(t), InsertRows(t), DeleteRows(u), InsertRows(u)>>
           \in Seq(TableStatements)
      /\ <<Select(ty), SelectRows(t), SelectRows(u)>> \in Seq(TableStatements)
  BY StatementTypes
<1>2. Creates(ty, <<Insert(ty), InsertRows(t), InsertRows(u)>>)
  <2> DEFINE seq == <<Insert(ty), InsertRows(t), InsertRows(u)>>
  <2>1. /\ Len(seq) = 3
        /\ seq[1] = Insert(ty)
        /\ seq[2] = InsertRows(t)
        /\ seq[3] = InsertRows(u)
    OBVIOUS
  <2>2. seq \in Seq(TableStatements)
    BY <1>1
  <2> HIDE DEF seq
  <2>3. Distinct(seq)
    BY <2>1 DEF Distinct
  <2>4. \A i \in 2 .. Len(seq) : \E x \in Children(ty) : seq[i] = InsertRows(x)
    BY <2>1
  <2>5. \A x \in Children(ty) : \E i \in 2 .. Len(seq) : seq[i] = InsertRows(x)
    BY <2>1
  <2> QED
    BY <2>1, <2>2, <2>3, <2>4, <2>5 DEF Creates, seq
<1>3. Reads(ty, <<Select(ty), SelectRows(t), SelectRows(u)>>)
  <2> DEFINE seq == <<Select(ty), SelectRows(t), SelectRows(u)>>
  <2>1. /\ Len(seq) = 3
        /\ seq[1] = Select(ty)
        /\ seq[2] = SelectRows(t)
        /\ seq[3] = SelectRows(u)
    OBVIOUS
  <2>2. seq \in Seq(TableStatements)
    BY <1>1
  <2> HIDE DEF seq
  <2>3. Distinct(seq)
    BY <2>1 DEF Distinct
  <2>4. \A i \in 2 .. Len(seq) : \E x \in Children(ty) : seq[i] = SelectRows(x)
    BY <2>1
  <2>5. \A x \in Children(ty) : \E i \in 2 .. Len(seq) : seq[i] = SelectRows(x)
    BY <2>1
  <2> QED
    BY <2>1, <2>2, <2>3, <2>4, <2>5 DEF Reads, seq
<1>4. Mutates(ty, <<UpdateRow(ty), DeleteRows(t), InsertRows(t),
                    DeleteRows(u), InsertRows(u)>>)
  <2> DEFINE seq == <<UpdateRow(ty), DeleteRows(t), InsertRows(t),
                      DeleteRows(u), InsertRows(u)>>
  <2>1. /\ Len(seq) = 5 /\ seq[1] = UpdateRow(ty)
        /\ seq[2] = DeleteRows(t) /\ seq[3] = InsertRows(t)
        /\ seq[4] = DeleteRows(u) /\ seq[5] = InsertRows(u)
    OBVIOUS
  <2>2. seq \in Seq(TableStatements)
    BY <1>1
  <2> HIDE DEF seq
  <2>3. Distinct(seq)
    BY <2>1 DEF Distinct
  <2>4. \A i \in 2 .. Len(seq) : \E x \in Children(ty) :
          \/ seq[i] = DeleteRows(x)
          \/ seq[i] = InsertRows(x) /\ i > 2 /\ seq[i - 1] = DeleteRows(x)
    BY <2>1
  <2>5. \A x \in Children(ty) : \E i \in 2 .. Len(seq) : seq[i] = InsertRows(x)
    BY <2>1
  <2> QED
    BY <2>1, <2>2, <2>3, <2>4, <2>5 DEF Mutates, seq
<1> QED
  BY <1>2, <1>3, <1>4

LEMMA ObjectStatements ==
  ASSUME NEW ty \in mainTable
  PROVE  /\ Creates(ty, objectCreator[ty])
         /\ Mutates(ty, objectMutator[ty])
         /\ Reads(ty, objectReader(ty))
<1> USE DEF objectCreator, objectMutator, objectReader, Children, ChildTables
<1>1. CASE ty = "Users"
  BY <1>1, TwoChildren DEF userCreator, userMutator, userReader
<1>2. CASE ty = "StudentGroups"
  BY <1>2, OneChild DEF studentGroupCreator, studentGroupMutator, studentGroupReader
<1>3. CASE ty = "SchoolUnits"
  BY <1>3, OneChild DEF schoolUnitCreator, schoolUnitMutator, schoolUnitReader
<1>4. CASE ty = "Activities"
  BY <1>4, TwoChildren DEF activityCreator, activityMutator, activityReader
<1>5. CASE ty = "Organisations"
  BY <1>5, NoChildren DEF organisationCreator, organisationMutator, organisationReader
<1>6. CASE ty = "SchoolUnitGroups"
  BY <1>6, NoChildren
  DEF schoolUnitGroupCreator, schoolUnitGroupMutator, schoolUnitGroupReader
<1>7. CASE ty = "Employments"
  BY <1>7, NoChildren DEF employmentCreator, employmentMutator, employmentReader
<1> QED
  BY <1>1, <1>2, <1>3, <1>4, <1>5, <1>6, <1>7 DEF mainTable

\* The check of whether the record exists comes before them.
LEMMA CheckFirst ==
  ASSUME NEW S, NEW x, NEW seq \in Seq(S)
  PROVE  /\ Len(<<x>> \o seq) = Len(seq) + 1 /\ Len(seq) \in Nat
         /\ (<<x>> \o seq)[1] = x
         /\ \A i \in 2 .. Len(seq) + 1 : (<<x>> \o seq)[i] = seq[i - 1]
<1>1. <<x>> \in Seq(S \cup {x}) /\ seq \in Seq(S \cup {x}) /\ Len(<<x>>) = 1 /\ <<x>>[1] = x
  BY SeqMonotonic
<1> QED
  BY <1>1, ConcatProperties

\* The program of a call is a check followed by a sequence of statements.
Checks(c, st, seq) ==
  /\ Len(Program(c)) = Len(seq) + 1 /\ Len(seq) \in Nat
  /\ Program(c)[1] = st
  /\ \A i \in 2 .. Len(Program(c)) : Program(c)[i] = seq[i - 1]

LEMMA Programs ==
  ASSUME NEW c \in Calls, Check(c) = "ok"
  PROVE  /\ c.op = "create" =>
              Checks(c, Stmt("ensureDoesntHave", c.type), objectCreator[c.type])
         /\ c.op = "update" => Checks(c, Stmt("ensureHas", c.type), objectMutator[c.type])
         /\ c.op = "delete" => Checks(c, Stmt("ensureHas", c.type), <<Stmt("delete", c.type)>>)
         /\ c.op = "get" => Checks(c, Stmt("ensureHas", c.type), objectReader(c.type))
         /\ c.op = "list" => Program(c) = objectReader(c.type)
         /\ c.op = "clear" =>
              /\ Len(Program(c)) = 7
              /\ \A i \in 1 .. 7 : Program(c)[i] = Stmt("clear", tablesForClearTenant[i])
<1> USE DEF ensureHasRecord, ensureDoesntHaveRecord, Checks
<1>1. c.op \in {"create", "update", "delete", "get"} => c.type \in mainTable
  BY Checked
<1>2. CASE c.op = "create"
  <2>1. Program(c) = <<Stmt("ensureDoesntHave", c.type)>> \o objectCreator[c.type]
    BY <1>2 DEF Program
  <2>2. objectCreator[c.type] \in Seq(TableStatements)
    BY <1>1, <1>2, ObjectStatements DEF Creates
  <2> QED
    BY <1>2, <2>1, <2>2, CheckFirst
<1>3. CASE c.op = "update"
  <2>1. Program(c) = <<Stmt("ensureHas", c.type)>> \o objectMutator[c.type]
    BY <1>3 DEF Program
  <2>2. objectMutator[c.type] \in Seq(TableStatements)
    BY <1>1, <1>3, ObjectStatements DEF Mutates
  <2> QED
    BY <1>3, <2>1, <2>2, CheckFirst
<1>4. CASE c.op = "delete"
  <2>1. Program(c) = <<Stmt("ensureHas", c.type)>> \o <<Stmt("delete", c.type)>>
    BY <1>4 DEF Program
  <2>2. <<Stmt("delete", c.type)>> \in Seq({Stmt("delete", c.type)})
    OBVIOUS
  <2> QED
    BY <1>4, <2>1, <2>2, CheckFirst
<1>5. CASE c.op = "get"
  <2>1. Program(c) = <<Stmt("ensureHas", c.type)>> \o objectReader(c.type)
    BY <1>5 DEF Program
  <2>2. objectReader(c.type) \in Seq(TableStatements)
    BY <1>1, <1>5, ObjectStatements DEF Reads
  <2> QED
    BY <1>5, <2>1, <2>2, CheckFirst
<1>6. CASE c.op = "list"
  BY <1>6 DEF Program
<1>7. CASE c.op = "clear"
  <2>1. Program(c) = [i \in 1 .. Len(tablesForClearTenant) |->
                        Stmt("clear", tablesForClearTenant[i])]
    BY <1>7 DEF Program
  <2>2. Len(tablesForClearTenant) = 7
    BY DEF tablesForClearTenant
  <2> QED
    BY <1>7, <2>1, <2>2
<1> QED
  BY <1>2, <1>3, <1>4, <1>5, <1>6, <1>7 DEF Calls, Ops

\* What a statement of a call can be.
Allowed(c, st) ==
  \/ st.do = "ensureHas" /\ c.op \in {"update", "delete", "get"}
  \/ st.do \in {"ensureDoesntHave", "insert"} /\ c.op = "create"
  \/ st.do = "update" /\ c.op = "update"
  \/ st.do = "insertRows" /\ c.op \in {"create", "update"} /\ st.table \in Children(c.type)
  \/ st.do = "deleteRows" /\ c.op = "update" /\ st.table \in Children(c.type)
  \/ st.do = "delete" /\ c.op = "delete"
  \/ st.do = "clear" /\ c.op = "clear"
  \/ st.do \in {"select", "unknown"} /\ c.op \in {"get", "list"}
  \/ st.do = "selectRows" /\ c.op \in {"get", "list"} /\ st.table \in Children(c.type)

LEMMA Statements ==
  ASSUME NEW c \in Calls, Check(c) = "ok"
  PROVE  /\ Len(Program(c)) \in Nat
         /\ \A i \in 1 .. Len(Program(c)) : Allowed(c, Program(c)[i])
<1>1. c.op \in {"create", "update", "delete", "get"} => c.type \in mainTable
  BY Checked
<1>2. CASE c.op = "create"
  <2> DEFINE seq == objectCreator[c.type]
  <2>1. Checks(c, Stmt("ensureDoesntHave", c.type), seq) /\ Creates(c.type, seq)
    BY <1>1, <1>2, Programs, ObjectStatements
  <2> HIDE DEF seq
  <2>2. ASSUME NEW i \in 1 .. Len(Program(c))
        PROVE  Allowed(c, Program(c)[i])
    <3>1. CASE i = 1
      BY <1>2, <2>1, <3>1 DEF Checks, Allowed
    <3>2. CASE i = 2
      BY <1>2, <2>1, <3>2 DEF Checks, Allowed, Creates
    <3>3. CASE i > 2
      <4>1. i - 1 \in 2 .. Len(seq) /\ Program(c)[i] = seq[i - 1]
        BY <2>1, <3>3 DEF Checks
      <4>2. PICK t \in Children(c.type) : seq[i - 1] = InsertRows(t)
        BY <2>1, <4>1 DEF Creates
      <4> QED
        BY <1>2, <4>1, <4>2 DEF Allowed
    <3> QED
      BY <2>1, <3>1, <3>2, <3>3 DEF Checks
  <2> QED
    BY <2>1, <2>2 DEF Checks
<1>3. CASE c.op = "update"
  <2> DEFINE seq == objectMutator[c.type]
  <2>1. Checks(c, Stmt("ensureHas", c.type), seq) /\ Mutates(c.type, seq)
    BY <1>1, <1>3, Programs, ObjectStatements
  <2> HIDE DEF seq
  <2>2. ASSUME NEW i \in 1 .. Len(Program(c))
        PROVE  Allowed(c, Program(c)[i])
    <3>1. CASE i = 1
      BY <1>3, <2>1, <3>1 DEF Checks, Allowed
    <3>2. CASE i = 2
      BY <1>3, <2>1, <3>2 DEF Checks, Allowed, Mutates
    <3>3. CASE i > 2
      <4>1. i - 1 \in 2 .. Len(seq) /\ Program(c)[i] = seq[i - 1]
        BY <2>1, <3>3 DEF Checks
      <4>2. PICK t \in Children(c.type) :
              seq[i - 1] = DeleteRows(t) \/ seq[i - 1] = InsertRows(t)
        BY <2>1, <4>1 DEF Mutates
      <4> QED
        BY <1>3, <4>1, <4>2 DEF Allowed
    <3> QED
      BY <2>1, <3>1, <3>2, <3>3 DEF Checks
  <2> QED
    BY <2>1, <2>2 DEF Checks
<1>4. CASE c.op = "delete"
  <2>1. Checks(c, Stmt("ensureHas", c.type), <<Stmt("delete", c.type)>>)
    BY <1>4, Programs
  <2>2. Len(Program(c)) = 2 /\ Program(c)[1] = Stmt("ensureHas", c.type)
        /\ Program(c)[2] = Stmt("delete", c.type)
    BY <2>1 DEF Checks
  <2> QED
    BY <1>4, <2>2 DEF Allowed
<1>5. CASE c.op = "get"
  <2> DEFINE seq == objectReader(c.type)
  <2>1. Checks(c, Stmt("ensureHas", c.type), seq) /\ Reads(c.type, seq)
    BY <1>1, <1>5, Programs, ObjectStatements
  <2> HIDE DEF seq
  <2>2. ASSUME NEW i \in 1 .. Len(Program(c))
        PROVE  Allowed(c, Program(c)[i])
    <3>1. CASE i = 1
      BY <1>5, <2>1, <3>1 DEF Checks, Allowed
    <3>2. CASE i = 2
      BY <1>5, <2>1, <3>2 DEF Checks, Allowed, Reads
    <3>3. CASE i > 2
      <4>1. i - 1 \in 2 .. Len(seq) /\ Program(c)[i] = seq[i - 1]
        BY <2>1, <3>3 DEF Checks
      <4>2. PICK t \in Children(c.type) : seq[i - 1] = SelectRows(t)
        BY <2>1, <4>1 DEF Reads
      <4> QED
        BY <1>5, <4>1, <4>2 DEF Allowed
    <3> QED
      BY <2>1, <3>1, <3>2, <3>3 DEF Checks
  <2> QED
    BY <2>1, <2>2 DEF Checks
<1>6. CASE c.op = "list"
  <2> DEFINE seq == objectReader(c.type)
  <2>1. CASE c.type \in mainTable
    <3>1. Program(c) = seq /\ Reads(c.type, seq)
      BY <1>6, <2>1, Programs, ObjectStatements
    <3> HIDE DEF seq
    <3>2. ASSUME NEW i \in 1 .. Len(seq)
          PROVE  Allowed(c, seq[i])
      <4>1. CASE i = 1
        BY <1>6, <3>1, <4>1 DEF Allowed, Reads
      <4>2. CASE i > 1
        <5>1. i \in 2 .. Len(seq)
          BY <3>1, <4>2 DEF Reads
        <5>2. PICK t \in Children(c.type) : seq[i] = SelectRows(t)
          BY <3>1, <5>1 DEF Reads
        <5> QED
          BY <1>6, <5>2 DEF Allowed
      <4> QED
        BY <3>1, <4>1, <4>2 DEF Reads
    <3>3. Len(seq) \in Nat
      BY <3>1 DEF Reads
    <3> QED
      BY <3>1, <3>2, <3>3
  <2>2. CASE c.type \notin mainTable
    <3>1. seq = <<Stmt("unknown", c.type)>>
      <4>1. /\ c.type # "Users" /\ c.type # "StudentGroups" /\ c.type # "Organisations"
            /\ c.type # "SchoolUnitGroups" /\ c.type # "SchoolUnits"
            /\ c.type # "Employments" /\ c.type # "Activities"
        BY <2>2 DEF mainTable
      <4> QED
        BY <4>1, Zenon DEF objectReader
    <3> HIDE DEF seq
    <3>2. Len(seq) = 1 /\ seq[1] = Stmt("unknown", c.type)
      BY <3>1
    <3>3. Program(c) = seq
      BY <1>6, Programs DEF seq
    <3>4. Allowed(c, seq[1])
      BY <1>6, <3>2 DEF Allowed
    <3>5. Len(Program(c)) = 1 /\ \A i \in 1 .. 1 : i = 1
      BY <3>2, <3>3
    <3>6. ASSUME NEW i \in 1 .. Len(Program(c))
          PROVE  Allowed(c, Program(c)[i])
      BY <3>3, <3>4, <3>5
    <3> QED
      BY <3>5, <3>6
  <2> QED
    BY <2>1, <2>2
<1>7. CASE c.op = "clear"
  <2>1. /\ Len(Program(c)) = 7
        /\ \A i \in 1 .. 7 : Program(c)[i] = Stmt("clear", tablesForClearTenant[i])
    BY <1>7, Programs
  <2> QED
    BY <1>7, <2>1 DEF Allowed
<1> QED
  BY <1>2, <1>3, <1>4, <1>5, <1>6, <1>7 DEF Calls, Ops

HIDE DEF Stmt, Insert, InsertRows, UpdateRow, DeleteRows, Select, SelectRows

-----------------------------------------------------------------------------
(* The inductive invariant of the transactions.                            *)

\* A transaction belongs to a call that has passed the checks, and one that has
\* begun at repeatable read has its snapshot.
InTransaction ==
  \A p \in Callers :
    /\ pc[p] # "idle" => call[p] \in Requests
    /\ pc[p] = "running" => Check(call[p]) = "ok"
    /\ pc[p] # "running" => step[p] = 1
    /\ Isolation = "repeatableRead" /\ step[p] > 1 => snap[p] \in [Slots -> Stored]

\* The callers in a transaction and the connections in use belong together.
OwnConnection ==
  /\ \A c \in Conns : conns[c].user # Free => conns[c].open
  /\ \A c, d \in Conns : conns[c].user = conns[d].user /\ conns[c].user # Free => c = d
  /\ \A p \in Callers : pc[p] = "running" <=> \E c \in Conns : conns[c].user = p

Inv == TypeOK /\ InTransaction /\ OwnConnection /\ UncommittedIsPrivate

LEMMA NothingStored == Nothing \in Stored
BY DEF Nothing, Stored

LEMMA InitInv == Init => Inv
<1> SUFFICES ASSUME Init PROVE Inv
  OBVIOUS
<1>1. 1 \in Conns
  BY SQLAssumption DEF Conns
<1>2. TypeOK
  <2>1. db \in [Slots -> Stored] /\ latest \in [Slots -> Stored]
    BY NothingStored DEF Init
  <2>2. conns \in [Conns -> [open : BOOLEAN, fk : BOOLEAN, user : Callers \cup {Free}]]
    BY DEF Init, Closed
  <2>3. buf \in [Callers -> [objs : [IDs -> Stored], first : IDs \cup {Nil}]]
    BY NothingStored DEF Init, NoObjects
  <2> QED
    BY <2>1, <2>2, <2>3 DEF Init, TypeOK
<1>3. InTransaction
  BY DEF Init, InTransaction
<1>4. OwnConnection
  BY SQLAssumption DEF Init, OwnConnection, Closed
<1>5. UncommittedIsPrivate
  BY DEF Init, UncommittedIsPrivate
<1> QED
  BY <1>2, <1>3, <1>4, <1>5 DEF Inv

-----------------------------------------------------------------------------
(* Every step keeps it.                                                    *)

\* The call of a running transaction.
LEMMA Running ==
  ASSUME Inv, NEW p \in Callers, pc[p] = "running"
  PROVE  /\ call[p] \in Calls /\ Check(call[p]) = "ok"
         /\ step[p] \in Nat \ {0} /\ Len(Program(call[p])) \in Nat
         /\ View(p) \in [Slots -> Stored]
         /\ ~Done(p) => Allowed(call[p], Current(p))
<1>1. call[p] \in Calls /\ Check(call[p]) = "ok" /\ step[p] \in Nat \ {0}
  BY SQLAssumption DEF Inv, InTransaction, TypeOK
<1>2. Len(Program(call[p])) \in Nat
  BY <1>1, Statements
<1>3. View(p) \in [Slots -> Stored]
  <2>1. db \in [Slots -> Stored]
    BY DEF Inv, TypeOK
  <2>2. Isolation = "repeatableRead" /\ step[p] > 1 => snap[p] \in [Slots -> Stored]
    BY DEF Inv, InTransaction
  <2>3. step[p] = 1 \/ step[p] > 1
    BY <1>1
  <2> QED
    BY <2>1, <2>2, <2>3 DEF View
<1>4. ~Done(p) => Allowed(call[p], Current(p))
  BY <1>1, <1>2, Statements DEF Done, Current
<1> QED
  BY <1>1, <1>2, <1>3, <1>4

\* A transaction that ends, having left nothing that is not committed.
LEMMA FinishInv ==
  ASSUME Inv, NEW p \in Callers, NEW r, pc[p] = "running", Finish(p, r),
         db' \in [Slots -> Stored], latest' \in [Slots -> Stored],
         \A s \in Slots : s \notin held[p] => db'[s] = db[s] /\ latest'[s] = latest[s],
         \A s \in Slots : s \in held[p] => latest'[s] = db'[s]
  PROVE  Inv'
<1>1. /\ held' = [held EXCEPT ![p] = {}] /\ snap' = [snap EXCEPT ![p] = Nil]
      /\ step' = [step EXCEPT ![p] = 1] /\ buf' = [buf EXCEPT ![p] = NoObjects]
      /\ pc' = [pc EXCEPT ![p] = "returned"] /\ UNCHANGED call
  BY DEF Finish
<1>2. conns' = [c \in Conns |-> IF conns[c].user = p THEN [conns[c] EXCEPT !.user = Free]
                                                      ELSE conns[c]]
  BY DEF Finish
<1>3. TypeOK'
  <2>1. NoObjects \in [objs : [IDs -> Stored], first : IDs \cup {Nil}]
    BY NothingStored DEF NoObjects
  <2>2. buf' \in [Callers -> [objs : [IDs -> Stored], first : IDs \cup {Nil}]]
    BY <1>1, <2>1 DEF Inv, TypeOK
  <2>3. conns' \in [Conns -> [open : BOOLEAN, fk : BOOLEAN, user : Callers \cup {Free}]]
    <3> DEFINE Pool == [open : BOOLEAN, fk : BOOLEAN, user : Callers \cup {Free}]
    <3>1. conns \in [Conns -> Pool]
      BY DEF Inv, TypeOK
    <3>2. \A x \in Pool : [x EXCEPT !.user = Free] \in Pool
      OBVIOUS
    <3> HIDE DEF Pool
    <3>3. conns' \in [Conns -> Pool]
      BY <1>2, <3>1, <3>2
    <3> QED
      BY <3>3 DEF Pool
  <2> QED
    BY <1>1, <2>2, <2>3 DEF Inv, TypeOK
<1>4. InTransaction'
  BY <1>1 DEF Inv, TypeOK, InTransaction
<1>5. OwnConnection'
  <2>1. \A c \in Conns : /\ conns'[c].open = conns[c].open
                         /\ conns'[c].user = IF conns[c].user = p THEN Free ELSE conns[c].user
    BY <1>2 DEF Inv, TypeOK
  <2>2. p # Free /\ Free \notin Callers
    BY SQLAssumption
  <2>3. \A q \in Callers : pc'[q] = "running" <=> pc[q] = "running" /\ q # p
    BY <1>1 DEF Inv, TypeOK
  <2>4. \A c \in Conns : conns'[c].user # Free => conns'[c].open
    BY <2>1 DEF Inv, OwnConnection
  <2>5. \A c, d \in Conns :
          conns'[c].user = conns'[d].user /\ conns'[c].user # Free => c = d
    BY <2>1 DEF Inv, OwnConnection
  <2>6. \A q \in Callers : pc'[q] = "running" <=> \E c \in Conns : conns'[c].user = q
    <3> SUFFICES ASSUME NEW q \in Callers
                 PROVE  pc'[q] = "running" <=> \E c \in Conns : conns'[c].user = q
      OBVIOUS
    <3>1. pc[q] = "running" <=> \E c \in Conns : conns[c].user = q
      BY DEF Inv, OwnConnection
    <3> QED
      BY <2>1, <2>2, <2>3, <3>1
  <2> QED
    BY <2>4, <2>5, <2>6 DEF OwnConnection
<1>6. UncommittedIsPrivate'
  BY <1>1 DEF Inv, TypeOK, UncommittedIsPrivate
<1> QED
  BY <1>3, <1>4, <1>5, <1>6 DEF Inv

LEMMA RollbackInv ==
  ASSUME Inv, NEW p \in Callers, NEW kind, pc[p] = "running", Rollback(p, kind)
  PROVE  Inv'
<1>1. db \in [Slots -> Stored] /\ latest \in [Slots -> Stored]
  BY DEF Inv, TypeOK
<1>2. /\ latest' = [s \in Slots |-> IF s \in held[p] THEN db[s] ELSE latest[s]]
      /\ db' = db
      /\ Finish(p, Result(kind, Nil))
  BY DEF Rollback
<1>3. latest' \in [Slots -> Stored]
  BY <1>1, <1>2
<1> QED
  BY <1>1, <1>2, <1>3, FinishInv

LEMMA CommitInv ==
  ASSUME Inv, NEW p \in Callers, Commit(p)
  PROVE  Inv'
<1>1. db \in [Slots -> Stored] /\ latest \in [Slots -> Stored]
  BY DEF Inv, TypeOK
<1>2. /\ db' = [s \in Slots |-> IF s \in held[p] THEN latest[s] ELSE db[s]]
      /\ latest' = latest /\ pc[p] = "running"
      /\ Finish(p, Result("ok", Answer(p)))
  BY DEF Commit
<1>3. db' \in [Slots -> Stored]
  BY <1>1, <1>2
<1> QED
  BY <1>1, <1>2, <1>3, FinishInv

\* A transaction that goes on, having written only what it has locked.
Moves(p) ==
  /\ pc[p] = "running" /\ ~Done(p) /\ Advance(p)
  /\ latest' \in [Slots -> Stored]
  /\ buf' \in [Callers -> [objs : [IDs -> Stored], first : IDs \cup {Nil}]]
  /\ held' = [held EXCEPT ![p] = held'[p]]
  /\ held[p] \subseteq held'[p] /\ held'[p] \subseteq Slots
  /\ \A q \in Callers \ {p} : held'[p] \cap held[q] = {}
  /\ \A s \in Slots : latest'[s] # latest[s] => s \in held'[p]

LEMMA MovesInv ==
  ASSUME Inv, NEW p \in Callers, Moves(p)
  PROVE  Inv'
<1>1. /\ step' = [step EXCEPT ![p] = @ + 1]
      /\ snap' = [snap EXCEPT ![p] = IF Isolation = "repeatableRead" THEN View(p) ELSE Nil]
      /\ UNCHANGED <<db, conns, pc, call>>
  BY DEF Moves, Advance
<1>2. View(p) \in [Slots -> Stored]
  BY Running DEF Moves
<1>3. TypeOK'
  <2>1. snap' \in [Callers -> [Slots -> Stored] \cup {Nil}]
    BY <1>1, <1>2 DEF Inv, TypeOK
  <2>2. held' \in [Callers -> SUBSET Slots]
    BY DEF Inv, TypeOK, Moves
  <2>3. step' \in [Callers -> Nat \ {0}]
    BY <1>1 DEF Inv, TypeOK
  <2> QED
    BY <1>1, <2>1, <2>2, <2>3 DEF Inv, TypeOK, Moves
<1>4. InTransaction'
  BY <1>1, <1>2 DEF Inv, TypeOK, InTransaction, Moves
<1>5. OwnConnection'
  BY <1>1 DEF Inv, OwnConnection
<1>6. UncommittedIsPrivate'
  <2>1. \A q \in Callers : q # p => held'[q] = held[q]
    BY DEF Inv, TypeOK, Moves
  <2>2. \A q \in Callers : pc'[q] # "running" => held'[q] = {}
    BY <1>1, <2>1 DEF Inv, UncommittedIsPrivate, Moves
  <2>3. \A q, r \in Callers : q # r => held'[q] \cap held'[r] = {}
    BY <2>1 DEF Inv, UncommittedIsPrivate, Moves
  <2>4. \A s \in Slots : latest'[s] # db'[s] => \E q \in Callers : s \in held'[q]
    <3> SUFFICES ASSUME NEW s \in Slots, latest'[s] # db'[s]
                 PROVE  \E q \in Callers : s \in held'[q]
      OBVIOUS
    <3>1. CASE latest'[s] # latest[s]
      BY <3>1 DEF Moves
    <3>2. CASE latest'[s] = latest[s]
      <4>1. PICK q \in Callers : s \in held[q]
        BY <1>1, <3>2 DEF Inv, UncommittedIsPrivate
      <4> QED
        BY <2>1, <4>1 DEF Moves
    <3> QED
      BY <3>1, <3>2
  <2> QED
    BY <2>2, <2>3, <2>4 DEF UncommittedIsPrivate
<1> QED
  BY <1>3, <1>4, <1>5, <1>6 DEF Inv

\* A write only locks and changes keys that no other transaction has locked.
LEMMA WriteMoves ==
  ASSUME Inv, NEW p \in Callers, pc[p] = "running", ~Done(p),
         NEW ks \in SUBSET Slots, NEW new, \A s \in ks : new[s] \in Stored,
         Write(p, ks, new)
  PROVE  Moves(p)
<1>1. /\ latest' = [s \in Slots |-> IF s \in ks THEN new[s] ELSE latest[s]]
      /\ held' = [held EXCEPT ![p] =
                    @ \cup {s \in ks : \/ Isolation = "repeatableRead"
                                      \/ latest[s] # Nothing \/ new[s] # Nothing}]
      /\ Writers(p, ks) = {} /\ Advance(p) /\ buf' = buf
  BY DEF Write
<1>2. latest \in [Slots -> Stored] /\ held \in [Callers -> SUBSET Slots]
  BY DEF Inv, TypeOK
<1>3. latest' \in [Slots -> Stored]
  BY <1>1, <1>2
<1>4. \A q \in Callers \ {p} : held[q] \cap ks = {}
  BY <1>1 DEF Writers
<1>5. \A q \in Callers \ {p} : held[p] \cap held[q] = {}
  BY DEF Inv, UncommittedIsPrivate
<1>6. \A q \in Callers \ {p} : held'[p] \cap held[q] = {}
  BY <1>1, <1>2, <1>4, <1>5
<1>7. \A s \in Slots : latest'[s] # latest[s] => s \in held'[p]
  BY <1>1, <1>2
<1>8. /\ held' = [held EXCEPT ![p] = held'[p]]
      /\ held[p] \subseteq held'[p] /\ held'[p] \subseteq Slots
  BY <1>1, <1>2
<1>9. buf' \in [Callers -> [objs : [IDs -> Stored], first : IDs \cup {Nil}]]
  BY <1>1 DEF Inv, TypeOK
<1> QED
  BY <1>1, <1>3, <1>6, <1>7, <1>8, <1>9 DEF Moves

\* A statement that writes nothing.
LEMMA ReadMoves ==
  ASSUME Inv, NEW p \in Callers, pc[p] = "running", ~Done(p), Advance(p),
         UNCHANGED <<latest, held>>,
         buf' \in [Callers -> [objs : [IDs -> Stored], first : IDs \cup {Nil}]]
  PROVE  Moves(p)
BY DEF Inv, TypeOK, UncommittedIsPrivate, Moves

\* A statement that only checks, or that has nothing to insert.
LEMMA StayMoves ==
  ASSUME Inv, NEW p \in Callers, pc[p] = "running", ~Done(p), Advance(p),
         UNCHANGED <<latest, held, buf>>
  PROVE  Moves(p)
<1>1. buf' \in [Callers -> [objs : [IDs -> Stored], first : IDs \cup {Nil}]]
  BY DEF Inv, TypeOK
<1> QED
  BY <1>1, ReadMoves

\* A write to a single key.
LEMMA WriteOneMoves ==
  ASSUME Inv, NEW p \in Callers, pc[p] = "running", ~Done(p),
         NEW k \in Slots, NEW new, new[k] \in Stored, Write(p, {k}, new)
  PROVE  Moves(p)
BY WriteMoves

\* The key of a statement, and what it writes there.
LEMMA KeyType ==
  ASSUME Inv, NEW p \in Callers, pc[p] = "running",
         call[p].op \in {"create", "update", "delete", "get"}, NEW st,
         st.do \notin {"ensureHas", "delete", "select", "selectRows"}
           => call[p].op \in {"create", "update"}
  PROVE  /\ Key(call[p], st) \in Slots
         /\ RowOf[call[p].body.data] \in Rows
         /\ \A t \in ChildTables : ItemsOf[call[p].body.data][t] \subseteq Items
<1>1. call[p] \in Calls /\ Check(call[p]) = "ok"
  BY Running
<1>2. /\ call[p].op \in {"create", "update"} => call[p].body.id \in IDs
      /\ call[p].body.data \in Data
      /\ call[p].tenant \in Tenants /\ call[p].type \in Types
      /\ call[p].id \in IDs
  BY <1>1, Checked DEF Calls
<1>3. Key(call[p], st) \in Slots
  BY <1>2 DEF Key, Slots
<1> QED
  BY <1>2, <1>3, SQLAssumption

LEMMA ChildrenAreTables ==
  ASSUME NEW ty
  PROVE  Children(ty) \subseteq ChildTables
BY DEF Children, ChildTables

LEMMA InsertMainMoves ==
  ASSUME Inv, NEW p \in Callers, InsertMain(p)
  PROVE  Moves(p) \/ Rollback(p, "error")
<1> DEFINE k == Key(call[p], Current(p))
           new == [latest EXCEPT ![k].row = RowOf[call[p].body.data]]
<1>1. pc[p] = "running" /\ ~Done(p) /\ Current(p).do = "insert"
  BY DEF InsertMain, Executing
<1>2. call[p].op = "create"
  BY <1>1, Running DEF Allowed
<1>3. k \in Slots /\ RowOf[call[p].body.data] \in Rows
  BY <1>1, <1>2, KeyType
<1>4. new[k] \in Stored
  BY <1>3 DEF Inv, TypeOK, Stored
<1>5. Rollback(p, "error") \/ Write(p, {k}, new)
  BY DEF InsertMain
<1> HIDE DEF k, new
<1> QED
  BY <1>1, <1>3, <1>4, <1>5, WriteOneMoves

LEMMA InsertChildrenMoves ==
  ASSUME Inv, NEW p \in Callers, InsertChildren(p)
  PROVE  Moves(p) \/ Rollback(p, "error")
<1> DEFINE k == Key(call[p], Current(p))
           t == Current(p).table
           is == ItemsOf[call[p].body.data][t]
           new == [latest EXCEPT ![k].sub[t] = @ \cup is]
<1>1. pc[p] = "running" /\ ~Done(p) /\ Current(p).do = "insertRows"
  BY DEF InsertChildren, Executing
<1>2. call[p].op \in {"create", "update"} /\ t \in Children(call[p].type)
  BY <1>1, Running DEF Allowed
<1>3. k \in Slots /\ t \in ChildTables /\ is \subseteq Items
  BY <1>1, <1>2, KeyType, ChildrenAreTables
<1>4. new[k] \in Stored
  <2>1. latest \in [Slots -> Stored]
    BY DEF Inv, TypeOK
  <2>2. latest[k] \in Stored /\ new[k] = [latest[k] EXCEPT !.sub[t] = @ \cup is]
    BY <1>3, <2>1
  <2> HIDE DEF k, t, is, new
  <2> QED
    BY <1>3, <2>2 DEF Stored
<1>5. \/ Rollback(p, "error")
      \/ Write(p, {k}, new)
      \/ Advance(p) /\ UNCHANGED <<latest, held, buf>>
  BY DEF InsertChildren
<1>6. ASSUME Advance(p) /\ UNCHANGED <<latest, held, buf>>
      PROVE  Moves(p)
  BY <1>1, <1>6, StayMoves
<1> HIDE DEF k, new
<1> QED
  BY <1>1, <1>3, <1>4, <1>5, <1>6, WriteOneMoves

LEMMA UpdateMainMoves ==
  ASSUME Inv, NEW p \in Callers, UpdateMain(p)
  PROVE  Moves(p)
<1> DEFINE k == Key(call[p], Current(p))
           new == IF latest[k].row = Absent THEN latest
                  ELSE [latest EXCEPT ![k].row = RowOf[call[p].body.data]]
<1>1. pc[p] = "running" /\ ~Done(p) /\ Current(p).do = "update"
  BY DEF UpdateMain, Executing
<1>2. call[p].op = "update"
  BY <1>1, Running DEF Allowed
<1>3. k \in Slots /\ RowOf[call[p].body.data] \in Rows
  BY <1>1, <1>2, KeyType
<1>4. new[k] \in Stored
  BY <1>3 DEF Inv, TypeOK, Stored
<1>5. Write(p, {k}, new)
  BY DEF UpdateMain
<1> HIDE DEF k, new
<1> QED
  BY <1>1, <1>3, <1>4, <1>5, WriteOneMoves

LEMMA DeleteChildrenMoves ==
  ASSUME Inv, NEW p \in Callers, DeleteChildren(p)
  PROVE  Moves(p)
<1> DEFINE k == Key(call[p], Current(p))
           t == Current(p).table
           new == [latest EXCEPT ![k].sub[t] = {}]
<1>1. pc[p] = "running" /\ ~Done(p) /\ Current(p).do = "deleteRows"
  BY DEF DeleteChildren, Executing
<1>2. call[p].op = "update" /\ t \in Children(call[p].type)
  BY <1>1, Running DEF Allowed
<1>3. k \in Slots /\ t \in ChildTables
  BY <1>1, <1>2, KeyType, ChildrenAreTables
<1>4. new[k] \in Stored
  BY <1>3 DEF Inv, TypeOK, Stored
<1>5. Write(p, {k}, new)
  BY DEF DeleteChildren
<1> HIDE DEF k, new
<1> QED
  BY <1>1, <1>3, <1>4, <1>5, WriteOneMoves

LEMMA DeletedType ==
  ASSUME NEW p \in Callers, NEW r \in Stored
  PROVE  Deleted(p, r) \in Stored
BY NothingStored DEF Deleted, Stored

LEMMA DeleteMainMoves ==
  ASSUME Inv, NEW p \in Callers, DeleteMain(p)
  PROVE  Moves(p)
<1> DEFINE k == Key(call[p], Current(p))
           new == [latest EXCEPT ![k] = Deleted(p, @)]
<1>1. pc[p] = "running" /\ ~Done(p) /\ Current(p).do = "delete"
  BY DEF DeleteMain, Executing
<1>2. call[p].op = "delete"
  BY <1>1, Running DEF Allowed
<1>3. k \in Slots
  BY <1>1, <1>2, KeyType
<1>4. new[k] \in Stored
  BY <1>3, DeletedType DEF Inv, TypeOK
<1>5. Write(p, {k}, new)
  BY DEF DeleteMain
<1> HIDE DEF k, new
<1> QED
  BY <1>1, <1>3, <1>4, <1>5, WriteOneMoves

LEMMA ClearTableMoves ==
  ASSUME Inv, NEW p \in Callers, ClearTable(p)
  PROVE  Moves(p)
<1> DEFINE ks == {s \in Slots : s[1] = call[p].tenant /\ s[2] = Current(p).table}
           new == [s \in Slots |-> Deleted(p, latest[s])]
<1>1. pc[p] = "running" /\ ~Done(p)
  BY DEF ClearTable, Executing
<1>2. new \in [Slots -> Stored]
  BY DeletedType DEF Inv, TypeOK
<1>3. Write(p, ks, new)
  BY DEF ClearTable
<1> QED
  BY <1>1, <1>2, <1>3, WriteMoves

LEMMA SelectMainMoves ==
  ASSUME Inv, NEW p \in Callers, SelectMain(p)
  PROVE  Moves(p)
<1> DEFINE found == {s \in Scope(call[p]) : View(p)[s].row # Absent}
           Object(id) ==
             IF \E s \in found : s[3] = id
             THEN [Nothing EXCEPT !.row = View(p)[<<call[p].tenant, call[p].type, id>>].row]
             ELSE Nothing
<1>1. pc[p] = "running" /\ ~Done(p) /\ Advance(p) /\ UNCHANGED <<latest, held>>
  BY DEF SelectMain, Executing
<1>2. PICK first \in IF found = {} THEN {Nil} ELSE {s[3] : s \in found} :
        buf' = [buf EXCEPT ![p] = [objs |-> [id \in IDs |-> Object(id)], first |-> first]]
  BY DEF SelectMain
<1>3. first \in IDs \cup {Nil}
  BY DEF Scope, Slots
<1>4. ASSUME NEW id \in IDs
      PROVE  Object(id) \in Stored
  <2>1. <<call[p].tenant, call[p].type, id>> \in Slots
    BY <1>1, Running, Checked DEF Slots
  <2>2. View(p)[<<call[p].tenant, call[p].type, id>>] \in Stored
    BY <1>1, <2>1, Running
  <2> QED
    BY <2>2 DEF Stored, Nothing
<1>5. [objs |-> [id \in IDs |-> Object(id)], first |-> first]
        \in [objs : [IDs -> Stored], first : IDs \cup {Nil}]
  BY <1>3, <1>4
<1>6. buf' \in [Callers -> [objs : [IDs -> Stored], first : IDs \cup {Nil}]]
  BY <1>2, <1>5 DEF Inv, TypeOK
<1> QED
  BY <1>1, <1>6, ReadMoves

LEMMA SelectChildrenMoves ==
  ASSUME Inv, NEW p \in Callers, SelectChildren(p)
  PROVE  Moves(p) \/ Rollback(p, "panic")
<1> DEFINE t == Current(p).table
           found == {s \in Scope(call[p]) : View(p)[s].sub[t] # {}}
           items(id) == UNION {View(p)[s].sub[t] : s \in {x \in found : Owner(p, x[3]) = id}}
           new(id) == [buf[p].objs[id] EXCEPT !.sub[t] = items(id)]
<1>1. pc[p] = "running" /\ ~Done(p) /\ Current(p).do = "selectRows"
  BY DEF SelectChildren, Executing
<1>2. t \in ChildTables
  BY <1>1, Running, ChildrenAreTables DEF Allowed
<1>3. \/ Rollback(p, "panic")
      \/ /\ buf' = [buf EXCEPT ![p].objs = [id \in IDs |-> [@[id] EXCEPT !.sub[t] = items(id)]]]
         /\ Advance(p) /\ UNCHANGED <<latest, held>>
  BY DEF SelectChildren
<1>4. ASSUME NEW id \in IDs
      PROVE  new(id) \in Stored
  <2>1. \A s \in Scope(call[p]) : View(p)[s].sub[t] \subseteq Items
    BY <1>1, <1>2, Running DEF Scope, Stored
  <2>2. items(id) \subseteq Items
    BY <2>1
  <2>3. buf[p].objs[id] \in Stored
    BY DEF Inv, TypeOK
  <2> QED
    BY <1>2, <2>2, <2>3 DEF Stored
<1>5. ASSUME buf' = [buf EXCEPT ![p].objs = [id \in IDs |-> [@[id] EXCEPT !.sub[t] = items(id)]]]
      PROVE  buf' \in [Callers -> [objs : [IDs -> Stored], first : IDs \cup {Nil}]]
  <2> DEFINE objs == [id \in IDs |-> new(id)]
  <2>1. objs \in [IDs -> Stored]
    BY <1>4
  <2>2. buf' = [buf EXCEPT ![p].objs = objs]
    BY <1>5
  <2> HIDE DEF objs
  <2> QED
    BY <2>1, <2>2 DEF Inv, TypeOK
<1> QED
  BY <1>1, <1>3, <1>5, ReadMoves

\* A transaction moves on, rolls back or commits.
LEMMA TransactionStep ==
  ASSUME Inv, NEW p \in Callers, Statement(p) \/ Fail(p)
  PROVE  /\ pc[p] = "running"
         /\ \/ Moves(p)
            \/ \E kind \in {"missing", "conflict", "error", "panic"} : Rollback(p, kind)
            \/ Commit(p)
<1>1. pc[p] = "running"
  BY DEF Statement, Fail, EnsureHasRecord, EnsureDoesntHaveRecord, InsertMain, InsertChildren,
         UpdateMain, DeleteChildren, DeleteMain, ClearTable, SelectMain, SelectChildren,
         ReadUnknown, NotOne, Commit, Busy, Executing
<1>2. CASE EnsureHasRecord(p)
  <2>1. ~Done(p)
    BY <1>2 DEF EnsureHasRecord, Executing
  <2>2. \/ Rollback(p, "missing")
        \/ Advance(p) /\ UNCHANGED <<latest, held, buf>>
    BY <1>2 DEF EnsureHasRecord
  <2> QED
    BY <1>1, <2>1, <2>2, StayMoves
<1>3. CASE EnsureDoesntHaveRecord(p)
  <2>1. ~Done(p)
    BY <1>3 DEF EnsureDoesntHaveRecord, Executing
  <2>2. \/ Rollback(p, "conflict")
        \/ Advance(p) /\ UNCHANGED <<latest, held, buf>>
    BY <1>3 DEF EnsureDoesntHaveRecord
  <2> QED
    BY <1>1, <2>1, <2>2, StayMoves
<1>4. CASE InsertMain(p) \/ InsertChildren(p) \/ UpdateMain(p) \/ DeleteChildren(p)
  BY <1>1, <1>4, InsertMainMoves, InsertChildrenMoves, UpdateMainMoves, DeleteChildrenMoves
<1>5. CASE DeleteMain(p) \/ ClearTable(p) \/ SelectMain(p) \/ SelectChildren(p)
  BY <1>1, <1>5, DeleteMainMoves, ClearTableMoves, SelectMainMoves, SelectChildrenMoves
<1>6. CASE ReadUnknown(p) \/ NotOne(p) \/ Busy(p) \/ Fail(p)
  BY <1>1, <1>6 DEF ReadUnknown, NotOne, Busy, Fail
<1> QED
  BY <1>1, <1>2, <1>3, <1>4, <1>5, <1>6 DEF Statement

LEMMA NextInv == Inv /\ [Next]_vars => Inv'
<1> SUFFICES ASSUME Inv, [Next]_vars PROVE Inv'
  OBVIOUS
<1>1. CASE Expire
  <2>1. PICK c \in Conns : /\ conns[c].open /\ conns[c].user = Free
                          /\ conns' = [conns EXCEPT ![c] = Closed]
    BY <1>1 DEF Expire
  <2>2. UNCHANGED <<db, latest, held, snap, step, buf, pc, call>>
    BY <1>1 DEF Expire, txVars
  <2>3. TypeOK'
    BY <2>1, <2>2 DEF Inv, TypeOK, Closed
  <2>4. InTransaction' /\ UncommittedIsPrivate'
    BY <2>2 DEF Inv, InTransaction, UncommittedIsPrivate
  <2>5. \A d \in Conns : /\ conns'[d].user = conns[d].user
                         /\ conns[d].user # Free => conns'[d] = conns[d]
    BY <2>1 DEF Inv, TypeOK, Closed
  <2>6. OwnConnection'
    BY <2>2, <2>5 DEF Inv, OwnConnection
  <2> QED
    BY <2>3, <2>4, <2>6 DEF Inv
<1>2. ASSUME NEW p \in Callers, Invoke(p) \/ Reject(p) \/ Return(p)
      PROVE  Inv'
  <2>1. UNCHANGED <<db, latest, held, snap, step, buf, conns>>
    BY <1>2 DEF Invoke, Reject, Return, txVars
  <2>2. \/ \E c \in Requests : call' = [call EXCEPT ![p] = c] /\ pc' = [pc EXCEPT ![p] = "called"]
        \/ call' = call /\ pc' = [pc EXCEPT ![p] = "returned"] /\ pc[p] = "called"
        \/ call' = [call EXCEPT ![p] = Nil] /\ pc' = [pc EXCEPT ![p] = "idle"]
    BY <1>2 DEF Invoke, Reject, Return
  <2>3. pc[p] # "running"
    BY <1>2 DEF Invoke, Reject, Return
  <2>4. \A q \in Callers : /\ pc'[q] = "running" <=> pc[q] = "running"
                           /\ q # p => pc'[q] = pc[q] /\ call'[q] = call[q]
    BY <2>2, <2>3 DEF Inv, TypeOK
  <2>5. pc'[p] # "idle" => call'[p] \in Requests
    BY <2>2 DEF Inv, TypeOK, InTransaction
  <2>6. TypeOK'
    BY <2>1, <2>2 DEF Inv, TypeOK
  <2>7. InTransaction'
    BY <2>1, <2>3, <2>4, <2>5 DEF Inv, InTransaction
  <2>8. OwnConnection' /\ UncommittedIsPrivate'
    BY <2>1, <2>4 DEF Inv, OwnConnection, UncommittedIsPrivate
  <2> QED
    BY <2>6, <2>7, <2>8 DEF Inv
<1>3. ASSUME NEW p \in Callers, Begin(p)
      PROVE  Inv'
  <2>1. /\ UNCHANGED <<db, latest, held, snap, step, buf, call>>
        /\ pc' = [pc EXCEPT ![p] = "running"] /\ pc[p] = "called"
        /\ Check(call[p]) = "ok"
    BY <1>3 DEF Begin, txVars
  <2>2. PICK c \in Conns :
          /\ conns[c].user = Free \/ ~conns[c].open
          /\ \/ conns' = [conns EXCEPT ![c].user = p] /\ conns[c].open
             \/ conns' = [conns EXCEPT ![c] =
                            [open |-> TRUE, fk |-> AllConnsEnforce, user |-> p]]
    BY <1>3 DEF Begin
  <2>3. conns[c].user = Free
    BY <2>2 DEF Inv, OwnConnection
  <2>4. conns' \in [Conns -> [open : BOOLEAN, fk : BOOLEAN, user : Callers \cup {Free}]]
    <3> DEFINE Conn == [open : BOOLEAN, fk : BOOLEAN, user : Callers \cup {Free}]
    <3>1. conns \in [Conns -> Conn]
      BY DEF Inv, TypeOK
    <3>2. [open |-> TRUE, fk |-> AllConnsEnforce, user |-> p] \in Conn
      BY SQLAssumption
    <3>3. [conns[c] EXCEPT !.user = p] \in Conn
      BY <3>1
    <3> QED
      BY <2>2, <3>1, <3>2, <3>3
  <2>5. TypeOK'
    BY <2>1, <2>4 DEF Inv, TypeOK
  <2>6. InTransaction' /\ UncommittedIsPrivate'
    BY <2>1 DEF Inv, TypeOK, InTransaction, UncommittedIsPrivate
  <2>7. /\ conns'[c].open /\ conns'[c].user = p
        /\ \A d \in Conns \ {c} : conns'[d] = conns[d]
    BY <2>2 DEF Inv, TypeOK
  <2>8. \A d \in Conns : conns[d].user # p
    BY <2>1 DEF Inv, OwnConnection
  <2>9. p # Free /\ \A q \in Callers : q # Free
    BY SQLAssumption
  <2>10. \A q \in Callers : pc'[q] = "running" <=> pc[q] = "running" \/ q = p
    BY <2>1 DEF Inv, TypeOK
  <2>11. OwnConnection'
    BY <2>3, <2>7, <2>8, <2>9, <2>10 DEF Inv, OwnConnection
  <2> QED
    BY <2>5, <2>6, <2>11 DEF Inv
<1>4. ASSUME NEW p \in Callers, Statement(p) \/ Fail(p)
      PROVE  Inv'
  BY <1>4, TransactionStep, MovesInv, RollbackInv, CommitInv
<1>5. CASE UNCHANGED vars
  BY <1>5 DEF vars, txVars, Inv, TypeOK, InTransaction, OwnConnection, UncommittedIsPrivate
<1> QED
  BY <1>1, <1>2, <1>3, <1>4, <1>5 DEF Next

\* The invariant holds in every state.
THEOREM Invariance == Spec => []Inv
BY InitInv, NextInv, PTL DEF Spec

\* The tables, the locks, the pool and the transactions keep their types.
THEOREM TypeCorrectness == Spec => []TypeOK
<1>1. Inv => TypeOK
  BY DEF Inv
<1> QED
  BY <1>1, Invariance, PTL

\* What a transaction has written is locked by it until it ends, and nobody
\* else has locked it: no statement needs to look at whose rows it meets.
THEOREM Privacy == Spec => []UncommittedIsPrivate
<1>1. Inv => UncommittedIsPrivate
  BY DEF Inv
<1> QED
  BY <1>1, Invariance, PTL

\* Every path out of a method ends its transaction (defer tx.Rollback): the
\* callers that have a connection are those inside a transaction, one each.
THEOREM PoolCorrectness == Spec => []ConnectionsReturned
<1>1. Inv => ConnectionsReturned
  <2> SUFFICES ASSUME Inv, NEW p \in Callers
               PROVE  Cardinality({c \in Conns : conns[c].user = p})
                        = IF pc[p] = "running" THEN 1 ELSE 0
    BY DEF ConnectionsReturned
  <2> DEFINE own == {c \in Conns : conns[c].user = p}
  <2>1. CASE pc[p] = "running"
    <3>1. PICK c \in Conns : conns[c].user = p
      BY <2>1 DEF Inv, OwnConnection
    <3>2. p # Free
      BY SQLAssumption
    <3>3. own = {c}
      BY <3>1, <3>2 DEF Inv, OwnConnection
    <3>4. Cardinality(own) = 1
      BY <3>3, FS_Singleton
    <3> QED
      BY <2>1, <3>4
  <2>2. CASE pc[p] # "running"
    <3>1. own = {}
      BY <2>2 DEF Inv, OwnConnection
    <3>2. Cardinality(own) = 0
      BY <3>1, FS_EmptySet
    <3> QED
      BY <2>2, <3>2
  <2> QED
    BY <2>1, <2>2
<1> QED
  BY <1>1, Invariance, PTL
=============================================================================
