----------------------- MODULE InMemoryBackendProofs -----------------------
(***************************************************************************)
(* Proofs about InMemoryBackend, for any set of callers, calls, tenants,   *)
(* types and resources: Inv is inductive, and what follows from it.        *)
(***************************************************************************)
EXTENDS InMemoryBackend, FiniteSetTheorems, TLAPS

USE DEF Result

\* What the parser returns without an error is an object or nil.
LEMMA ParserValue ==
  ASSUME NEW ty, NEW b \in Bodies, validatingObjectParser(ty, b).kind = "ok"
  PROVE  validatingObjectParser(ty, b).val \in Objects \cup {Nil}
<1>1. CASE ty \notin ResourceTypes
  BY <1>1 DEF validatingObjectParser, objectParser, Ok, Err, Panic
<1>2. CASE ty \in ResourceTypes
  <2>1. CASE objectParser(ty, b).kind = "error"
    BY <2>1 DEF validatingObjectParser, Err
  <2>2. CASE objectParser(ty, b).kind # "error"
    <3>1. objectParser(ty, b) = Ok([type |-> ty, id |-> b.id, data |-> b.data])
      BY <1>2, <2>2 DEF objectParser, Err
    <3>2. b.id # NotString
      BY <1>2, <2>2 DEF objectParser, Err
    <3>3. [type |-> ty, id |-> b.id, data |-> b.data] \in Objects
      BY <1>2, <3>2 DEF Objects, Bodies
    <3> QED
      BY <3>1, <3>3 DEF validatingObjectParser, Ok, Err, Panic
  <2> QED BY <2>1, <2>2
<1> QED BY <1>1, <1>2

\* The ID generator returns the externalId, and only if it is a string.
LEMMA GeneratedID ==
  ASSUME NEW b \in Bodies, CreateIDFromExternalID(b).kind = "ok"
  PROVE  CreateIDFromExternalID(b).val = b.id /\ b.id \in IDs
BY DEF CreateIDFromExternalID, Bodies, Ok, Err, Panic

\* The key of a call is one of the keys, once its ID is known.
LEMMA SlotType ==
  ASSUME NEW c \in Calls,
         c.op = "create" => CreateIDFromExternalID(c.body).kind = "ok"
  PROVE  Slot(c) \in Slots /\ Slot(c)[1] = c.tenant /\ Slot(c)[2] = c.type
<1>1. c.body \in Bodies /\ c.tenant \in Tenants /\ c.type \in Types /\ c.id \in IDs
  BY DEF Calls
<1> QED BY <1>1, GeneratedID DEF Slot, Slots

\* ParsedOf is what parsed may hold.
LEMMA ParsedOfType ==
  ASSUME NEW ty, NEW r \in Stored
  PROVE  ParsedOf(ty, r) \in Objects \cup {Nil, Absent}
BY ParserValue DEF ParsedOf, Stored

-----------------------------------------------------------------------------
\* Whatever file is loaded, Inv holds at start.
LEMMA InitInv == Init => Inv
<1> SUFFICES ASSUME Init PROVE Inv
  OBVIOUS
<1>1. PICK file \in Files : Load(file)
  BY DEF Init
<1>2. /\ file.resources \in [Slots -> Stored]
      /\ file.made \in SUBSET (Tenants \X Types)
  BY BackendAssumption
<1>3. TypeOK
  <2>1. resources \in [Slots -> Stored] /\ made \subseteq Tenants \X Types
    BY <1>1, <1>2 DEF Load
  <2>2. parsed \in [Slots -> Objects \cup {Nil, Absent}]
    BY <1>1, <1>2, ParsedOfType DEF Load
  <2>3. it \in [Callers -> Iterations]
    BY DEF Init, Iterations, NoIteration, Stored
  <2> QED BY <2>1, <2>2, <2>3 DEF Init, TypeOK, Places, Inside
<1>4. LockDiscipline /\ InTheMiddle /\ NoNilMapWrite
  BY BackendAssumption DEF Init, LockDiscipline, InTheMiddle, NoNilMapWrite, Inside
<1>5. \A s \in Slots : parsed[s] = ParsedOf(s[2], resources[s])
  BY <1>1 DEF Load
<1>6. \A s \in Slots : resources[s] # Absent => <<s[1], s[2]>> \in made
  BY <1>1 DEF Load
<1> QED BY <1>3, <1>4, <1>5, <1>6 DEF Inv

-----------------------------------------------------------------------------
(* Every step keeps Inv: one lemma for each kind of step.                  *)

\* In a state of Inv, a goroutine that is inside a method is the only one, and
\* its call is one of the requests.
LEMMA Inside1 ==
  ASSUME Inv, NEW p \in Callers, pc[p] \in Inside
  PROVE  /\ lock = p
         /\ \A q \in Callers \ {p} : pc[q] \notin Inside
         /\ call[p] \in Calls
         /\ lock # Free
BY BackendAssumption DEF Inv, LockDiscipline, TypeOK, Inside

\* The steps that change none of the maps and no iteration, and leave nothing
\* half done.
LEMMA FrameInv ==
  ASSUME Inv, NEW p \in Callers,
         UNCHANGED <<resources, parsed>>,
         fatal' \in BOOLEAN,
         made \subseteq made', made' \subseteq Tenants \X Types,
         pc' = [pc EXCEPT ![p] = pc'[p]],
         pc[p] \notin {"writeParsed", "removeParsed", "clearParsed"},
         pc'[p] \in Places \ {"writeParsed", "removeParsed", "clearParsed"},
         lock' \in Callers \cup {Free},
         \A q \in Callers : pc'[q] \in Inside <=> lock' = q,
         call' \in [Callers -> Requests \cup {Nil}],
         call' = [call EXCEPT ![p] = call'[p]],
         pc'[p] # "idle" => call'[p] \in Requests,
         it' \in [Callers -> Iterations],
         pc'[p] = "write" =>
           /\ call'[p].op \in {"create", "update"}
           /\ Slot(call'[p]) \in Slots
           /\ validatingObjectParser(call'[p].type, call'[p].body).kind = "ok"
           /\ call'[p].op = "update" => resources[Slot(call'[p])] # Absent
           /\ <<call'[p].tenant, call'[p].type>> \in made',
         pc'[p] = "remove" =>
           call'[p].op = "delete" /\ resources[Slot(call'[p])] # Absent,
         pc'[p] \in {"query", "iterate"} => call'[p].op = "list"
  PROVE  Inv'
<1>1. \A q \in Callers : q # p => pc'[q] = pc[q] /\ call'[q] = call[q]
  BY DEF Inv, TypeOK
<1>2. pc' \in [Callers -> Places] /\ pc \in [Callers -> Places]
  BY DEF Inv, TypeOK
<1>3. TypeOK'
  BY <1>1, <1>2 DEF Inv, TypeOK
<1>4. LockDiscipline'
  <2>1. \A q \in Callers : q # p /\ pc'[q] \in {"write", "writeParsed"} =>
          /\ Slot(call'[q]) \in Slots
          /\ validatingObjectParser(call'[q].type, call'[q].body).kind = "ok"
    BY <1>1 DEF Inv, LockDiscipline
  <2> QED BY <2>1 DEF LockDiscipline
<1>5. InTheMiddle'
  <2> SUFFICES ASSUME NEW q \in Callers
               PROVE  InTheMiddle!(q)'
    BY DEF InTheMiddle
  <2>1. CASE q = p
    BY <2>1 DEF Inv, InTheMiddle
  <2>2. CASE q # p
    BY <2>2, <1>1 DEF Inv, InTheMiddle
  <2> QED BY <2>1, <2>2
<1>6. (\A s \in Slots : parsed[s] = ParsedOf(s[2], resources[s])
                        \/ \E q \in Callers : HalfDone(q, s))'
  <2>1. \A q \in Callers, s \in Slots : HalfDone(q, s) => HalfDone(q, s)'
    BY <1>1 DEF HalfDone
  <2>2. \A s \in Slots : ParsedOf(s[2], resources[s])' = ParsedOf(s[2], resources[s])
    BY DEF ParsedOf
  <2> QED BY <2>1, <2>2 DEF Inv
<1>7. (\A s \in Slots : resources[s] # Absent => <<s[1], s[2]>> \in made)'
  BY DEF Inv
<1>8. NoNilMapWrite'
  <2>1. \A q \in Callers : q # p /\ pc'[q] \in {"write", "writeParsed"} =>
          <<call'[q].tenant, call'[q].type>> \in made
    BY <1>1 DEF Inv, NoNilMapWrite
  <2> QED BY <2>1 DEF NoNilMapWrite
<1> QED BY <1>3, <1>4, <1>5, <1>6, <1>7, <1>8 DEF Inv

\* Invoke, Acquire and Return, and the end of a process.
LEMMA CallerInv ==
  ASSUME Inv, NEW p \in Callers,
         Invoke(p) \/ Acquire(p) \/ Return(p) \/ QueryRace(p)
  PROVE  Inv'
<1> USE DEF Goto
<1>0. TypeOK /\ LockDiscipline
  BY DEF Inv
<1>1. CASE Invoke(p)
  <2>1. PICK c \in Requests : call' = [call EXCEPT ![p] = c]
    BY <1>1 DEF Invoke
  <2>2. /\ call' \in [Callers -> Requests \cup {Nil}] /\ call'[p] \in Requests
        /\ call' = [call EXCEPT ![p] = call'[p]]
    BY <1>0, <2>1 DEF TypeOK
  <2>3. /\ pc[p] = "idle" /\ pc'[p] = "waiting" /\ pc' = [pc EXCEPT ![p] = pc'[p]]
        /\ UNCHANGED <<resources, parsed, made, lock, it, fatal>>
    BY <1>0, <1>1 DEF Invoke, TypeOK
  <2>4. \A q \in Callers : pc'[q] \in Inside <=> lock' = q
    BY <1>0, <2>3 DEF TypeOK, LockDiscipline, Inside
  <2> QED
    BY <1>0, <2>2, <2>3, <2>4, FrameInv DEF TypeOK, Places, Inside
<1>2. CASE Acquire(p)
  <2>1. \A q \in Callers : pc[q] \notin Inside
    BY <1>0, <1>2, BackendAssumption DEF Acquire, LockDiscipline
  <2> QED
    BY <1>0, <1>2, <2>1, FrameInv DEF Acquire, TypeOK, Places, Inside
<1>3. CASE Return(p)
  <2>1. NoIteration \in Iterations
    BY DEF NoIteration, Iterations, Stored
  <2> QED
    BY <1>0, <1>3, <2>1, FrameInv DEF Return, TypeOK, LockDiscipline, Places, Inside
<1>4. CASE QueryRace(p)
  BY <1>0, <1>4, FrameInv DEF QueryRace, TypeOK, LockDiscipline, Places, Inside, Inv, InTheMiddle
<1> QED BY <1>1, <1>2, <1>3, <1>4

\* The first step of a method under the lock, which checks its arguments, and
\* the reads under the lock.
LEMMA LockedInv ==
  ASSUME Inv, NEW p \in Callers,
         \/ Create(p) \/ Update(p) \/ Delete(p) \/ GetResource(p)
         \/ GetParsedResource(p) \/ CountResources(p) \/ GetResourceTypes(p)
         \/ GetResources(p)
  PROVE  Inv'
<1> DEFINE Leave == lock' = Free /\ pc' = [pc EXCEPT ![p] = "returned"]
             Stay  == UNCHANGED lock /\ pc' = [pc EXCEPT ![p] = "write"]
<1> USE DEF Goto
<1>0. TypeOK /\ LockDiscipline
  BY DEF Inv
<1>1. pc[p] = "locked"
  BY DEF Create, Update, Delete, GetResource, GetParsedResource, CountResources,
         GetResourceTypes, GetResources, Holds
<1>2. /\ lock = p /\ lock # Free /\ Free \notin Callers
      /\ \A q \in Callers \ {p} : pc[q] \notin Inside
      /\ call[p] \in Calls /\ call[p] \in Requests
  BY <1>0, <1>1, Inside1, BackendAssumption DEF Inside, TypeOK
<1>3. CASE Create(p)
  <2>1. Leave \/ Stay
    BY <1>0, <1>3 DEF Create, Unlock, Continue, TypeOK
  <2>2. made \subseteq made' /\ made' \subseteq Tenants \X Types
    BY <1>0, <1>2, <1>3 DEF Create, TypeOK, Calls
  <2>3. CASE Leave
    BY <1>0, <1>1, <1>2, <1>3, <2>2, <2>3, FrameInv
    DEF Create, Unlock, TypeOK, Places, Inside
  <2>4. CASE Stay
    <3>1. /\ CreateIDFromExternalID(call[p].body).kind = "ok"
          /\ validatingObjectParser(call[p].type, call[p].body).kind = "ok"
      BY <1>0, <1>2, <1>3, <2>4 DEF Create, Unlock, Continue, TypeOK
    <3>2. Slot(call[p]) \in Slots
      BY <1>2, <3>1, SlotType
    <3>3. <<call[p].tenant, call[p].type>> \in made' /\ call[p].op = "create"
      BY <1>3 DEF Create, Holds
    <3> QED
      BY <1>0, <1>1, <1>2, <1>3, <2>2, <2>4, <3>1, <3>2, <3>3, FrameInv
      DEF Create, Continue, TypeOK, Places, Inside
  <2> QED BY <2>1, <2>3, <2>4
<1>4. CASE Update(p)
  <2>1. call[p].op = "update" /\ UNCHANGED <<resources, parsed, made, call, it, fatal>>
    BY <1>4 DEF Update, Holds
  <2>2. Slot(call[p]) \in Slots /\ Slot(call[p])[1] = call[p].tenant
        /\ Slot(call[p])[2] = call[p].type
    BY <1>2, <2>1, SlotType
  <2>3. \/ Leave
        \/ /\ Stay
           /\ validatingObjectParser(call[p].type, call[p].body).kind = "ok"
           /\ resources[Slot(call[p])] # Absent
    BY <1>0, <1>4 DEF Update, Unlock, Continue
  <2>4. CASE Leave
    BY <1>0, <1>1, <1>2, <2>1, <2>4, FrameInv DEF Unlock, TypeOK, Places, Inside
  <2>5. CASE /\ Stay
             /\ validatingObjectParser(call[p].type, call[p].body).kind = "ok"
             /\ resources[Slot(call[p])] # Absent
    <3>1. <<call[p].tenant, call[p].type>> \in made
      BY <2>2, <2>5 DEF Inv
    <3> QED
      BY <1>0, <1>1, <1>2, <2>1, <2>2, <2>5, <3>1, FrameInv
      DEF Continue, TypeOK, Places, Inside
  <2> QED BY <2>3, <2>4, <2>5
<1>5. CASE Delete(p)
  <2>1. call[p].op = "delete" /\ UNCHANGED <<resources, parsed, made, call, it, fatal>>
    BY <1>5 DEF Delete, Holds
  <2>2. CASE resources[Slot(call[p])] = Absent
    <3>1. Leave
      BY <1>5, <2>2 DEF Delete, Unlock
    <3> QED
      BY <1>0, <1>1, <1>2, <2>1, <3>1, FrameInv DEF TypeOK, Places, Inside
  <2>3. CASE resources[Slot(call[p])] # Absent
    <3>1. UNCHANGED lock /\ pc' = [pc EXCEPT ![p] = "remove"]
      BY <1>5, <2>3 DEF Delete, Continue
    <3> QED
      BY <1>0, <1>1, <1>2, <2>1, <2>3, <3>1, FrameInv DEF TypeOK, Places, Inside
  <2> QED BY <2>2, <2>3
<1>6. CASE GetResource(p) \/ GetParsedResource(p) \/ CountResources(p) \/ GetResourceTypes(p)
  <2>1. Leave /\ UNCHANGED <<resources, parsed, made, call, it, fatal>>
    BY <1>6 DEF GetResource, GetParsedResource, CountResources, GetResourceTypes, Unlock
  <2> QED
    BY <1>0, <1>1, <1>2, <2>1, FrameInv DEF Unlock, TypeOK, Places, Inside
<1>7. CASE GetResources(p)
  <2>1. it' \in [Callers -> Iterations]
    <3>1. InnerMap(resources, call[p].tenant, call[p].type) \in [IDs -> Stored]
      BY <1>0, <1>2 DEF InnerMap, TypeOK, Calls, Slots
    <3> QED
      BY <1>0, <1>7, <3>1 DEF GetResources, TypeOK, Iterations, NoIteration, Stored
  <2> QED
    BY <1>0, <1>1, <1>2, <1>7, <2>1, FrameInv
    DEF GetResources, Holds, TypeOK, Places, Inside
<1> QED BY <1>3, <1>4, <1>5, <1>6, <1>7

\* The steps of a list without the lock.
LEMMA UnlockedInv ==
  ASSUME Inv, NEW p \in Callers, Unlocked(p)
  PROVE  Inv'
<1> USE DEF Goto
<1>0. TypeOK /\ LockDiscipline /\ InTheMiddle
  BY DEF Inv
<1>1. pc[p] \in {"query", "iterate"} /\ call[p].op = "list" /\ call[p] \in Calls
  BY <1>0, BackendAssumption
  DEF Unlocked, QueryStart, QueryNext, QueryEnd, InTheMiddle, TypeOK
<1>2. Iterated(p) \in [IDs -> Stored] \/ Iterated(p) = it[p].frozen
  BY <1>0, <1>1 DEF Iterated, InnerMap, TypeOK, Calls, Slots
<1>3. CASE QueryStart(p)
  <2>1. IDsIn(Iterated(p)) \in SUBSET IDs
    BY DEF IDsIn
  <2>2. Cardinality(IDsIn(Iterated(p))) \in Nat
    BY <2>1, FS_Subset, FS_CardinalityType, BackendAssumption
  <2>3. it' \in [Callers -> Iterations]
    BY <1>0, <1>3, <2>1, <2>2 DEF QueryStart, TypeOK, Iterations
  <2> QED
    BY <1>0, <1>1, <1>3, <2>3, FrameInv
    DEF QueryStart, TypeOK, LockDiscipline, Places, Inside
<1>4. CASE QueryNext(p)
  <2>1. \A id \in IDs : Readable(p, id) \subseteq Stored \cup {Torn}
    <3> SUFFICES ASSUME NEW id \in IDs PROVE Readable(p, id) \subseteq Stored \cup {Torn}
      OBVIOUS
    <3>1. Iterated(p)[id] \in Stored
      BY <1>0, <1>1 DEF Iterated, InnerMap, TypeOK, Calls, Slots, Iterations
    <3>2. \A q \in Racing(p) : call[q].body \in Stored
      BY <1>0, BackendAssumption DEF Racing, TypeOK, Calls, Stored
    <3> QED BY <3>1, <3>2 DEF Readable
  <2>2. it' \in [Callers -> Iterations] /\ pc' = [pc EXCEPT ![p] = pc'[p]]
        /\ pc'[p] \in {"iterate", "returned"}
    <3>a. \A v : Decoded(v) = "ok" => v # Torn
      BY DEF Decoded
    <3>0. PICK id \in IDs : \E v \in Readable(p, id) :
            \/ it' = it /\ pc' = [pc EXCEPT ![p] = "returned"]
            \/ v # Torn /\ it' = [it EXCEPT ![p].out[id] = v] /\ pc' = pc
      BY <1>4, <3>a DEF QueryNext
    <3>1. PICK v \in Readable(p, id) :
            \/ it' = it /\ pc' = [pc EXCEPT ![p] = "returned"]
            \/ v # Torn /\ it' = [it EXCEPT ![p].out[id] = v] /\ pc' = pc
      BY <3>0
    <3>2. pc[p] = "iterate"
      BY <1>4 DEF QueryNext
    <3>3. CASE it' = it /\ pc' = [pc EXCEPT ![p] = "returned"]
      BY <1>0, <3>3 DEF TypeOK
    <3>4. CASE v # Torn /\ it' = [it EXCEPT ![p].out[id] = v] /\ pc' = pc
      <4>1. v \in Stored
        BY <2>1, <3>4
      <4>2. [it[p] EXCEPT !.out[id] = v] \in Iterations
        BY <1>0, <4>1 DEF TypeOK, Iterations
      <4> QED
        BY <1>0, <3>2, <3>4, <4>2 DEF TypeOK
    <3> QED BY <3>1, <3>3, <3>4
  <2>3. UNCHANGED <<resources, parsed, made, lock, call, fatal>>
    BY <1>4 DEF QueryNext
  <2> QED
    BY <1>0, <1>1, <2>2, <2>3, FrameInv DEF TypeOK, LockDiscipline, Places, Inside
<1>5. CASE QueryEnd(p)
  BY <1>0, <1>1, <1>5, FrameInv
  DEF QueryEnd, TypeOK, LockDiscipline, Places, Inside
<1> QED BY <1>3, <1>4, <1>5 DEF Unlocked

-----------------------------------------------------------------------------
(* The writes: the resource first, then its parsed form.                   *)

\* In a state where p is about to change something, nothing else is half done.
LEMMA OnlyOne ==
  ASSUME Inv, NEW p \in Callers, pc[p] \in Inside
  PROVE  /\ \A q \in Callers \ {p} : pc[q] \in Places \ Inside
         /\ \A q \in Callers \ {p} : \A s : ~HalfDone(q, s)
BY Inside1 DEF HalfDone, Inside, Inv, TypeOK

\* A key that is written or removed is one of the keys, and an iteration that
\* observes it is still an iteration.
LEMMA ObserveType ==
  ASSUME Inv, NEW s \in Slots, NEW res \in [Slots -> Stored]
  PROVE  [q \in Callers |-> Observe(q, s, res)] \in [Callers -> Iterations]
<1> SUFFICES ASSUME NEW q \in Callers PROVE Observe(q, s, res) \in Iterations
  OBVIOUS
<1>1. it[q] \in Iterations
  BY DEF Inv, TypeOK
<1> QED BY <1>1 DEF Observe, Iterations

LEMMA WriteResourceInv ==
  ASSUME Inv, NEW p \in Callers, WriteResource(p)
  PROVE  Inv'
<1> DEFINE s == Slot(call[p])
<1> USE DEF Goto
<1>0. TypeOK /\ LockDiscipline /\ InTheMiddle /\ NoNilMapWrite
  BY DEF Inv
<1>1. /\ pc[p] = "write" /\ pc' = [pc EXCEPT ![p] = "writeParsed"]
      /\ resources' = [resources EXCEPT ![s] = call[p].body]
      /\ it' = [q \in Callers |-> Observe(q, s, resources')]
      /\ UNCHANGED <<parsed, made, lock, call, result, fatal>>
  BY DEF WriteResource
<1>2. /\ \A q \in Callers \ {p} : pc[q] \in Places \ Inside
      /\ \A q \in Callers \ {p} : \A k : ~HalfDone(q, k)
      /\ call[p] \in Calls
  BY <1>1, OnlyOne, Inside1 DEF Inside
<1>3. s \in Slots /\ call[p].body \in Stored /\ call[p].body # Absent
  BY <1>0, <1>1, <1>2, BackendAssumption DEF LockDiscipline, Calls, Stored
<1>4. s[1] = call[p].tenant /\ s[2] = call[p].type
  BY DEF Slot
<1>5. \A q \in Callers \ {p} : pc'[q] = pc[q]
  BY <1>0, <1>1 DEF TypeOK
<1>6. resources' \in [Slots -> Stored] /\ resources'[s] = call[p].body
  BY <1>0, <1>1, <1>3 DEF TypeOK
<1>7. TypeOK'
  BY <1>0, <1>1, <1>6, <1>3, ObserveType DEF TypeOK, Places, Inside
<1>8. LockDiscipline'
  BY <1>0, <1>1, <1>5 DEF LockDiscipline, TypeOK, Inside
<1>9. InTheMiddle'
  BY <1>0, <1>1, <1>2, <1>5, <1>6 DEF InTheMiddle, TypeOK, Inside
<1>10. (\A k \in Slots : parsed[k] = ParsedOf(k[2], resources[k])
                         \/ \E q \in Callers : HalfDone(q, k))'
  <2> SUFFICES ASSUME NEW k \in Slots
               PROVE  parsed'[k] = ParsedOf(k[2], resources'[k])
                      \/ \E q \in Callers : HalfDone(q, k)'
    BY DEF ParsedOf
  <2>1. CASE k = s
    BY <1>0, <1>1, <2>1 DEF HalfDone, TypeOK
  <2>2. CASE k # s
    <3>1. ~HalfDone(p, k)
      BY <1>1 DEF HalfDone
    <3> QED BY <1>0, <1>1, <1>2, <2>2, <3>1 DEF Inv, TypeOK
  <2> QED BY <2>1, <2>2
<1>11. (\A k \in Slots : resources[k] # Absent => <<k[1], k[2]>> \in made)'
  BY <1>0, <1>1, <1>4, <1>6 DEF Inv, NoNilMapWrite, TypeOK
<1>12. NoNilMapWrite'
  BY <1>0, <1>1, <1>5 DEF NoNilMapWrite, TypeOK
<1> QED BY <1>7, <1>8, <1>9, <1>10, <1>11, <1>12 DEF Inv

LEMMA RemoveResourceInv ==
  ASSUME Inv, NEW p \in Callers, RemoveResource(p)
  PROVE  Inv'
<1> DEFINE s == Slot(call[p])
<1> USE DEF Goto
<1>0. TypeOK /\ LockDiscipline /\ InTheMiddle /\ NoNilMapWrite
  BY DEF Inv
<1>1. /\ pc[p] = "remove" /\ pc' = [pc EXCEPT ![p] = "removeParsed"]
      /\ resources' = [resources EXCEPT ![s] = Absent]
      /\ it' = [q \in Callers |-> Observe(q, s, resources')]
      /\ UNCHANGED <<parsed, made, lock, call, result, fatal>>
  BY DEF RemoveResource
<1>2. /\ \A q \in Callers \ {p} : pc[q] \in Places \ Inside
      /\ \A q \in Callers \ {p} : \A k : ~HalfDone(q, k)
      /\ call[p] \in Calls
  BY <1>1, OnlyOne, Inside1 DEF Inside
<1>3. s \in Slots /\ call[p].op = "delete"
  BY <1>0, <1>1, <1>2, SlotType DEF InTheMiddle
<1>4. \A q \in Callers \ {p} : pc'[q] = pc[q]
  BY <1>0, <1>1 DEF TypeOK
<1>5. resources' \in [Slots -> Stored] /\ resources'[s] = Absent
  BY <1>0, <1>1, <1>3 DEF TypeOK, Stored
<1>6. TypeOK'
  BY <1>0, <1>1, <1>5, <1>3, ObserveType DEF TypeOK, Places, Inside
<1>7. LockDiscipline'
  BY <1>0, <1>1, <1>4 DEF LockDiscipline, TypeOK, Inside
<1>8. InTheMiddle'
  BY <1>0, <1>1, <1>2, <1>3, <1>4, <1>5 DEF InTheMiddle, TypeOK, Inside
<1>9. (\A k \in Slots : parsed[k] = ParsedOf(k[2], resources[k])
                         \/ \E q \in Callers : HalfDone(q, k))'
  <2> SUFFICES ASSUME NEW k \in Slots
               PROVE  parsed'[k] = ParsedOf(k[2], resources'[k])
                      \/ \E q \in Callers : HalfDone(q, k)'
    BY DEF ParsedOf
  <2>1. CASE k = s
    BY <1>0, <1>1, <2>1 DEF HalfDone, TypeOK
  <2>2. CASE k # s
    <3>1. ~HalfDone(p, k)
      BY <1>1 DEF HalfDone
    <3> QED BY <1>0, <1>1, <1>2, <2>2, <3>1 DEF Inv, TypeOK
  <2> QED BY <2>1, <2>2
<1>10. (\A k \in Slots : resources[k] # Absent => <<k[1], k[2]>> \in made)'
  BY <1>0, <1>1, <1>5 DEF Inv, TypeOK
<1>11. NoNilMapWrite'
  BY <1>0, <1>1, <1>4 DEF NoNilMapWrite, TypeOK
<1> QED BY <1>6, <1>7, <1>8, <1>9, <1>10, <1>11 DEF Inv

\* The step that makes parsed agree with resources again, and unlocks.
LEMMA ParsedInv ==
  ASSUME Inv, NEW p \in Callers,
         pc[p] \in {"writeParsed", "removeParsed", "clearParsed"},
         pc' = [pc EXCEPT ![p] = "returned"],
         lock' = Free,
         UNCHANGED <<resources, made, call, it, fatal>>,
         parsed' \in [Slots -> Objects \cup {Nil, Absent}],
         \A s \in Slots : IF HalfDone(p, s) THEN parsed'[s] = ParsedOf(s[2], resources[s])
                                            ELSE parsed'[s] = parsed[s]
  PROVE  Inv'
<1>0. TypeOK /\ LockDiscipline /\ InTheMiddle /\ NoNilMapWrite
  BY DEF Inv
<1>1. \A q \in Callers \ {p} : pc'[q] = pc[q]
  BY <1>0 DEF TypeOK
<1>2. /\ \A q \in Callers \ {p} : pc[q] \in Places \ Inside
      /\ \A q \in Callers \ {p} : \A k : ~HalfDone(q, k)
      /\ Free \notin Callers
  BY OnlyOne, BackendAssumption DEF Inside
<1>3. TypeOK'
  BY <1>0 DEF TypeOK, Places, Inside
<1>4. LockDiscipline'
  BY <1>0, <1>1, <1>2 DEF LockDiscipline, TypeOK, Inside
<1>5. InTheMiddle'
  BY <1>0, <1>1 DEF InTheMiddle, TypeOK
<1>6. (\A k \in Slots : parsed[k] = ParsedOf(k[2], resources[k])
                        \/ \E q \in Callers : HalfDone(q, k))'
  <2> SUFFICES ASSUME NEW k \in Slots
               PROVE  parsed'[k] = ParsedOf(k[2], resources[k])
    BY DEF ParsedOf
  <2> QED BY <1>2 DEF Inv
<1>7. (\A k \in Slots : resources[k] # Absent => <<k[1], k[2]>> \in made)'
  BY DEF Inv
<1>8. NoNilMapWrite'
  BY <1>0, <1>1 DEF NoNilMapWrite, TypeOK
<1> QED BY <1>3, <1>4, <1>5, <1>6, <1>7, <1>8 DEF Inv

LEMMA WriteParsedInv ==
  ASSUME Inv, NEW p \in Callers, WriteParsed(p)
  PROVE  Inv'
<1> DEFINE s == Slot(call[p])
           o == validatingObjectParser(call[p].type, call[p].body)
<1>0. TypeOK /\ LockDiscipline /\ InTheMiddle
  BY DEF Inv
<1>1. /\ pc[p] = "writeParsed" /\ pc' = [pc EXCEPT ![p] = "returned"]
      /\ lock' = Free
      /\ parsed' = [parsed EXCEPT ![s] = o.val]
      /\ UNCHANGED <<resources, made, call, it, fatal>>
  BY DEF WriteParsed, Unlock, Goto
<1>2. call[p] \in Calls
  BY <1>1, Inside1 DEF Inside
<1>3. s \in Slots /\ o.kind = "ok" /\ resources[s] = call[p].body
  BY <1>0, <1>1 DEF LockDiscipline, InTheMiddle
<1>4. call[p].body \in Bodies /\ call[p].body # Absent
  BY <1>2, BackendAssumption DEF Calls
<1>5. o.val \in Objects \cup {Nil}
  BY <1>3, <1>4, ParserValue
<1>6. s[2] = call[p].type
  BY DEF Slot
<1>7. o.val = ParsedOf(s[2], resources[s])
  BY <1>3, <1>4, <1>6 DEF ParsedOf
<1>8. parsed' \in [Slots -> Objects \cup {Nil, Absent}]
  BY <1>0, <1>1, <1>5 DEF TypeOK
<1>9. \A k \in Slots : IF HalfDone(p, k) THEN parsed'[k] = ParsedOf(k[2], resources[k])
                                         ELSE parsed'[k] = parsed[k]
  BY <1>0, <1>1, <1>3, <1>7 DEF HalfDone, TypeOK
<1> QED BY <1>1, <1>8, <1>9, ParsedInv

LEMMA RemoveParsedInv ==
  ASSUME Inv, NEW p \in Callers, RemoveParsed(p)
  PROVE  Inv'
<1> DEFINE s == Slot(call[p])
<1>0. TypeOK /\ LockDiscipline /\ InTheMiddle
  BY DEF Inv
<1>1. /\ pc[p] = "removeParsed" /\ pc' = [pc EXCEPT ![p] = "returned"]
      /\ lock' = Free
      /\ parsed' = [parsed EXCEPT ![s] = Absent]
      /\ UNCHANGED <<resources, made, call, it, fatal>>
  BY DEF RemoveParsed, Unlock, Goto
<1>2. call[p] \in Calls
  BY <1>1, Inside1 DEF Inside
<1>3. s \in Slots /\ resources[s] = Absent
  BY <1>0, <1>1, <1>2, SlotType DEF InTheMiddle
<1>4. parsed' \in [Slots -> Objects \cup {Nil, Absent}]
  BY <1>0, <1>1 DEF TypeOK
<1>5. \A k \in Slots : IF HalfDone(p, k) THEN parsed'[k] = ParsedOf(k[2], resources[k])
                                         ELSE parsed'[k] = parsed[k]
  BY <1>0, <1>1, <1>3 DEF HalfDone, TypeOK, ParsedOf
<1> QED BY <1>1, <1>4, <1>5, ParsedInv

LEMMA ClearParsedInv ==
  ASSUME Inv, NEW p \in Callers, ClearParsed(p)
  PROVE  Inv'
<1>0. TypeOK /\ LockDiscipline /\ InTheMiddle
  BY DEF Inv
<1>1. /\ pc[p] = "clearParsed" /\ pc' = [pc EXCEPT ![p] = "returned"]
      /\ lock' = Free
      /\ parsed' = [s \in Slots |-> IF s[1] = call[p].tenant THEN Absent ELSE parsed[s]]
      /\ UNCHANGED <<resources, made, call, it, fatal>>
  BY DEF ClearParsed, Unlock, Goto
<1>2. \A s \in Slots : s[1] = call[p].tenant => resources[s] = Absent
  BY <1>0, <1>1 DEF InTheMiddle
<1>3. parsed' \in [Slots -> Objects \cup {Nil, Absent}]
  BY <1>0, <1>1 DEF TypeOK
<1>4. \A k \in Slots : IF HalfDone(p, k) THEN parsed'[k] = ParsedOf(k[2], resources[k])
                                         ELSE parsed'[k] = parsed[k]
  BY <1>0, <1>1, <1>2 DEF HalfDone, ParsedOf
<1> QED BY <1>1, <1>3, <1>4, ParsedInv

LEMMA ClearInv ==
  ASSUME Inv, NEW p \in Callers, Clear(p)
  PROVE  Inv'
<1> DEFINE t == call[p].tenant
<1> USE DEF Goto
<1>0. TypeOK /\ LockDiscipline /\ InTheMiddle /\ NoNilMapWrite
  BY DEF Inv
<1>1. /\ pc[p] = "locked" /\ pc' = [pc EXCEPT ![p] = "clearParsed"]
      /\ call[p].op = "clear"
      /\ resources' = [s \in Slots |-> IF s[1] = t THEN Absent ELSE resources[s]]
      /\ made' = {k \in made : k[1] # t}
      /\ it' = [q \in Callers |-> Detach(q, t)]
      /\ UNCHANGED <<parsed, call, lock, fatal>>
  BY DEF Clear, Holds, Continue
<1>2. /\ \A q \in Callers \ {p} : pc[q] \in Places \ Inside
      /\ \A q \in Callers \ {p} : \A k : ~HalfDone(q, k)
  BY <1>1, OnlyOne DEF Inside
<1>3. \A q \in Callers \ {p} : pc'[q] = pc[q]
  BY <1>0, <1>1 DEF TypeOK
<1>4. resources' \in [Slots -> Stored]
  BY <1>0, <1>1 DEF TypeOK, Stored
<1>5. it' \in [Callers -> Iterations]
  <2> SUFFICES ASSUME NEW q \in Callers PROVE Detach(q, t) \in Iterations
    BY <1>1
  <2>1. it[q] \in Iterations
    BY <1>0 DEF TypeOK
  <2>2. CASE pc[q] \in {"query", "iterate"} /\ Iterating(q, t, call[q].type)
    <3>1. call[q] \in Calls /\ call[q].tenant = t
      BY <1>0, <2>2, BackendAssumption DEF TypeOK, Iterating
    <3>2. InnerMap(resources, t, call[q].type) \in [IDs -> Stored]
      BY <1>0, <3>1 DEF InnerMap, TypeOK, Slots, Calls
    <3> QED BY <2>1, <2>2, <3>2 DEF Detach, Iterations
  <2>3. CASE ~(pc[q] \in {"query", "iterate"} /\ Iterating(q, t, call[q].type))
    BY <2>1, <2>3 DEF Detach
  <2> QED BY <2>2, <2>3
<1>6. TypeOK'
  BY <1>0, <1>1, <1>4, <1>5 DEF TypeOK, Places, Inside
<1>7. LockDiscipline'
  BY <1>0, <1>1, <1>3 DEF LockDiscipline, TypeOK, Inside
<1>8. InTheMiddle'
  BY <1>0, <1>1, <1>2, <1>3 DEF InTheMiddle, TypeOK, Inside
<1>9. (\A k \in Slots : parsed[k] = ParsedOf(k[2], resources[k])
                        \/ \E q \in Callers : HalfDone(q, k))'
  <2> SUFFICES ASSUME NEW k \in Slots
               PROVE  parsed'[k] = ParsedOf(k[2], resources'[k])
                      \/ \E q \in Callers : HalfDone(q, k)'
    BY DEF ParsedOf
  <2>1. CASE k[1] = t
    BY <1>0, <1>1, <2>1 DEF HalfDone, TypeOK
  <2>2. CASE k[1] # t
    <3>1. ~HalfDone(p, k)
      BY <1>1 DEF HalfDone
    <3> QED BY <1>1, <1>2, <2>2, <3>1 DEF Inv
  <2> QED BY <2>1, <2>2
<1>10. (\A k \in Slots : resources[k] # Absent => <<k[1], k[2]>> \in made)'
  BY <1>1 DEF Inv
<1>11. NoNilMapWrite'
  BY <1>0, <1>1, <1>2, <1>3 DEF NoNilMapWrite, TypeOK, Inside
<1> QED BY <1>6, <1>7, <1>8, <1>9, <1>10, <1>11 DEF Inv

\* Inv is inductive.
LEMMA NextInv == Inv /\ [Next]_vars => Inv'
<1> SUFFICES ASSUME Inv, [Next]_vars PROVE Inv'
  OBVIOUS
<1>1. CASE UNCHANGED vars
  BY <1>1 DEF vars, Inv, TypeOK, LockDiscipline, InTheMiddle, HalfDone, NoNilMapWrite, ParsedOf
<1>2. CASE Next
  <2>1. PICK p \in Callers :
          Invoke(p) \/ Acquire(p) \/ Locked(p) \/ Unlocked(p) \/ QueryRace(p) \/ Return(p)
    BY <1>2 DEF Next
  <2>2. CASE Invoke(p) \/ Acquire(p) \/ Return(p) \/ QueryRace(p)
    BY <2>2, CallerInv
  <2>3. CASE Unlocked(p)
    BY <2>3, UnlockedInv
  <2>4. CASE Locked(p)
    BY <2>4, LockedInv, WriteResourceInv, WriteParsedInv, RemoveResourceInv,
       RemoveParsedInv, ClearInv, ClearParsedInv DEF Locked
  <2> QED BY <2>1, <2>2, <2>3, <2>4
<1> QED BY <1>1, <1>2

-----------------------------------------------------------------------------
(* The theorems.                                                           *)

\* Inv holds in every state of every behaviour.
THEOREM Invariance == Spec => []Inv
<1> QED BY InitInv, NextInv, PTL DEF Spec

\* The fields of the backend keep their types, however many goroutines call its
\* methods with whatever arguments (inmemory.go).
THEOREM TypeCorrectness == Spec => []TypeOK
<1>1. Inv => TypeOK
  BY DEF Inv
<1> QED BY <1>1, Invariance, PTL

\* backend.lock is held by exactly the goroutine inside a method, on every path
\* out of it, and only checked arguments reach an assignment.
THEOREM Locking == Spec => []LockDiscipline
<1>1. Inv => LockDiscipline
  BY DEF Inv
<1> QED BY <1>1, Invariance, PTL

\* What lags behind belongs to the goroutine that holds the mutex.
LEMMA FreeMirrors == Inv => ParsedMirrors
<1> SUFFICES ASSUME Inv, lock = Free, NEW s \in Slots
             PROVE  parsed[s] = ParsedOf(s[2], resources[s])
  BY DEF ParsedMirrors
<1>1. \A p \in Callers : pc[p] \notin Inside
  BY BackendAssumption DEF Inv, LockDiscipline
<1>2. \A p \in Callers : ~HalfDone(p, s)
  BY <1>1 DEF HalfDone, Inside
<1> QED BY <1>2 DEF Inv

\* Whenever the mutex is free, parsed is what the parser makes of resources.
THEOREM Mirroring == Spec => []ParsedMirrors
BY FreeMirrors, Invariance, PTL

\* No method assigns to an inner map that has not been made.
THEOREM NoNilMap == Spec => []NoNilMapWrite
<1>1. Inv => NoNilMapWrite
  BY DEF Inv
<1> QED BY <1>1, Invariance, PTL
=============================================================================
