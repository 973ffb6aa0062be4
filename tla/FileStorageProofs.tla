------------------------- MODULE FileStorageProofs -------------------------
(***************************************************************************)
(* Proofs about FileStorage, for any callers, requests, files and          *)
(* platforms: what Serialize has collected at any moment of its unlocked   *)
(* iteration, why the file of a save is real, and why a program on Linux   *)
(* can always start from the file that a crash has left.                   *)
(***************************************************************************)
EXTENDS FileStorage, InMemoryBackendProofs

Maps == Tenants \X Types

\* The inner map that a resource is in.
MapOf(s) == <<s[1], s[2]>>

\* The parser does not panic on a resource of this type: it has an object for the
\* validators, or no validator needs one.
Judged(s) == ValidateUUID => s[2] \in ResourceTypes

\* What a storage file stands for can be loaded.
Whole(c) ==
  /\ c.resources \in [Slots -> Stored]
  /\ c.made \subseteq Maps
  /\ \A s \in Slots : c.resources[s] # Absent => MapOf(s) \in c.made /\ Judged(s)

Savers ==
  [at : {"idle", "waiting", "marshal", "write"}, todo : SUBSET Maps,
   map : Maps \cup {Nowhere}, len : Nat, must : SUBSET IDs, made : SUBSET Maps,
   kept : [Slots -> Stored \cup {Live}], out : [Slots -> Stored]]

\* The file is whole, except between the two steps of os.WriteFile.
DiskInv ==
  /\ platform \in Platforms
  /\ disk \in {NoFile, Damaged} \cup OldFile \cup NewFile
  /\ disk # Damaged => Whole(Contents(disk))
  /\ disk = Damaged => platform = "windows"

\* The saver goes through the outline it made, and has nothing before.
SaverInv ==
  /\ saver \in Savers
  /\ saver.map \in saver.todo \cup {Nowhere}
  /\ saver.todo \subseteq saver.made
  /\ \A s \in Slots : saver.out[s] # Absent => MapOf(s) \in saver.made
  /\ saver.at \in {"idle", "waiting"} =>
       /\ saver.map = Nowhere
       /\ \A s \in Slots : saver.out[s] = Absent /\ saver.kept[s] = Live
  /\ saver.at = "write" => saver.todo = {}

SeenInv ==
  /\ seen \in [Slots -> SUBSET Stored]
  /\ \A s \in Slots :
       /\ IsFiniteSet(seen[s])
       /\ (\E v \in seen[s] : v # Absent) => Judged(s)
       /\ resources[s] # Absent => Judged(s)

\* What the saver may read is among what has been seen.
Watched ==
  saver.at = "marshal" =>
    \A s \in Slots :
      /\ resources[s] \in seen[s] /\ Incoming(s) \subseteq seen[s]
      /\ saver.kept[s] \in seen[s] \cup {Live}

\* v is a value that s has had since the save began, or a mixture of several.
Real(s, v) ==
  \/ v \in seen[s]
  \/ v = Garbage /\ \E x, y \in seen[s] : x # y

\* What is not collected and will not be was absent at some moment.
Skipped(s) ==
  \/ Absent \in seen[s]
  \/ MapOf(s) \in saver.todo /\ (saver.map = MapOf(s) => s[3] \in saver.must)

Collected ==
  saver.at \in {"marshal", "write"} =>
    \A s \in Slots :
      /\ saver.out[s] # Absent => Real(s, saver.out[s])
      /\ saver.out[s] = Absent => Skipped(s)

StorageInv == Inv /\ DiskInv /\ SaverInv /\ SeenInv /\ Watched /\ Collected

-----------------------------------------------------------------------------
(* Lemmas about the operators.                                             *)

\* The parser panics exactly on the types without an object, when validators are
\* configured that need one.
LEMMA Panics ==
  ASSUME NEW s \in Slots, NEW b \in Bodies
  PROVE  validatingObjectParser(s[2], b).kind # "panic" <=> Judged(s)
<1> DEFINE o == objectParser(s[2], b)
<1>1. CASE s[2] \notin ResourceTypes
  <2>1. o = Ok(Nil)
    BY <1>1 DEF objectParser
  <2>2. Validator(Nil, b) = IF ValidateUUID THEN "panic" ELSE "ok"
    BY DEF Validator, UUIDValidator, SchoolUnitCodeValidator
  <2> HIDE DEF o
  <2> QED
    BY <1>1, <2>1, <2>2, ParserAssumption
    DEF validatingObjectParser, Judged, Ok, Panic, Err, o
<1>2. CASE s[2] \in ResourceTypes
  <2>1. CASE o.kind = "error"
    BY <1>2, <2>1 DEF validatingObjectParser, Judged, Err
  <2>2. CASE o.kind # "error"
    <3>1. /\ o = Ok([type |-> s[2], id |-> b.id, data |-> b.data])
          /\ b.id # NotString
      BY <1>2, <2>2 DEF objectParser, Err
    <3>2. o.kind = "ok" /\ o.val \in Objects
      BY <1>2, <3>1 DEF Objects, Bodies, Ok
    <3>3. o.val # Nil
      BY <3>2, BackendAssumption
    <3> HIDE DEF o
    <3>4. Validator(o.val, b) \in {"ok", "error"}
      BY <3>3 DEF Validator, UUIDValidator, SchoolUnitCodeValidator
    <3>5. validatingObjectParser(s[2], b) =
            IF Validator(o.val, b) = "error" THEN Err ELSE o
      BY <3>2, <3>4 DEF validatingObjectParser, o
    <3>6. validatingObjectParser(s[2], b).kind \in {"ok", "error"}
      BY <3>2, <3>5 DEF Err
    <3> QED
      BY <1>2, <3>6 DEF Judged
  <2> QED BY <2>1, <2>2
<1> QED BY <1>1, <1>2

\* A file that has been saved is not one of the other things on the disk.
LEMMA SavedContents ==
  ASSUME SaverInv
  PROVE  /\ NewContents \in NewFile
         /\ NewContents \notin {NoFile, Damaged}
         /\ Contents(NewContents) = [resources |-> saver.out, made |-> saver.made]
<1>1. NewContents \in NewFile
  BY DEF SaverInv, Savers, NewContents, NewFile, Maps
<1>2. NewContents \notin {NoFile, Damaged}
  BY <1>1, StorageAssumption
<1>3. NewContents.version = 1 /\ NewContents.resources = saver.out
      /\ NewContents.made = saver.made
  BY DEF NewContents
<1> HIDE DEF NewContents
<1> QED BY <1>1, <1>2, <1>3 DEF Contents

\* The files of the two formats, and no file, stand for maps of the right types.
LEMMA NoContents ==
  /\ Contents(NoFile).resources = [s \in Slots |-> Absent]
  /\ Contents(NoFile).made = {}
  /\ Whole(Contents(NoFile))
<1>1. Contents(NoFile) = [resources |-> [s \in Slots |-> Absent], made |-> {}]
  BY DEF Contents
<1> QED BY <1>1 DEF Whole, Stored, Maps

\* A new process that has loaded a whole file satisfies the invariant of the
\* in-memory backend.
LEMMA BootInv ==
  ASSUME NEW file, Whole(file), Boot(file), Fresh, fatal' \in BOOLEAN
  PROVE  Inv'
<1>1. TypeOK'
  <2>1. parsed' \in [Slots -> Objects \cup {Nil, Absent}]
    BY ParsedOfType DEF Boot, Whole
  <2>2. it' \in [Callers -> Iterations]
    BY DEF Fresh, Iterations, NoIteration, Stored
  <2>3. resources' \in [Slots -> Stored] /\ made' \subseteq Tenants \X Types
    BY DEF Boot, Whole, Maps
  <2> QED BY <2>1, <2>2, <2>3 DEF Fresh, TypeOK, Places, Inside
<1>2. LockDiscipline' /\ InTheMiddle' /\ NoNilMapWrite'
  BY BackendAssumption DEF Fresh, LockDiscipline, InTheMiddle, NoNilMapWrite, Inside
<1>3. \A s \in Slots : parsed'[s] = ParsedOf(s[2], resources'[s])
  BY DEF Boot
<1>4. \A s \in Slots : resources'[s] # Absent => <<s[1], s[2]>> \in made'
  BY DEF Boot, Whole, MapOf
<1>5. \A s \in Slots : ParsedOf(s[2], resources[s])' = ParsedOf(s[2], resources'[s])
  BY DEF ParsedOf
<1> QED BY <1>1, <1>2, <1>3, <1>4, <1>5 DEF Inv

\* What a caller is about to put under a resource is at most one value, which the
\* parser has let through.
Allowed(s) ==
  /\ Incoming(s) \subseteq Stored
  /\ IsFiniteSet(Incoming(s))
  /\ \A v \in Incoming(s) : v # Absent => v \in Bodies /\ Judged(s)

AllAllowed == \A s \in Slots : Allowed(s)

\* A caller at an assignment is the one with the lock.
LEMMA IncomingOne == Inv => AllAllowed
<1> SUFFICES ASSUME Inv, NEW s \in Slots PROVE Allowed(s)
  BY DEF AllAllowed
<1>0. TypeOK /\ LockDiscipline
  BY DEF Inv
<1>1. \A q \in Callers : pc[q] \in {"write", "remove"} =>
        /\ q = lock /\ call[q] \in Calls
  BY <1>0, BackendAssumption DEF TypeOK, LockDiscipline, Inside
<1>2. \A v \in Incoming(s) : v = Absent \/ v = call[lock].body
  BY <1>1 DEF Incoming
<1>3. IsFiniteSet(Incoming(s))
  <2>1. IsFiniteSet({Absent} \cup {call[lock].body})
    BY FS_Singleton, FS_AddElement
  <2> QED BY <1>2, <2>1, FS_Subset
<1>4. \A v \in Incoming(s) : v # Absent => v \in Bodies /\ Judged(s)
  <2> SUFFICES ASSUME NEW v \in Incoming(s), v # Absent PROVE v \in Bodies /\ Judged(s)
    OBVIOUS
  <2>1. PICK q \in Callers : pc[q] = "write" /\ Slot(call[q]) = s /\ v = call[q].body
    BY DEF Incoming
  <2>2. call[q].body \in Bodies
    BY <1>1, <2>1 DEF Calls
  <2>3. s[2] = call[q].type
    BY <2>1 DEF Slot
  <2>4. validatingObjectParser(s[2], v).kind = "ok"
    BY <1>0, <2>1, <2>3 DEF LockDiscipline
  <2> QED BY <2>1, <2>2, <2>4, Panics
<1> QED BY <1>3, <1>4 DEF Allowed, Stored

LEMMA IncomingOneNext == Inv' => AllAllowed'
BY IncomingOne, PTL

\* A step of the backend changes a resource only to what a caller was about to.
LEMMA NextWrites ==
  ASSUME Inv, Next, NEW s \in Slots
  PROVE  resources'[s] \in {resources[s], Absent} \cup Incoming(s)
<1>1. resources \in [Slots -> Stored]
  BY DEF Inv, TypeOK
<1>2. PICK p \in Callers :
        Invoke(p) \/ Acquire(p) \/ Locked(p) \/ Unlocked(p) \/ QueryRace(p) \/ Return(p)
  BY DEF Next
<1>3. CASE WriteResource(p)
  BY <1>1, <1>3 DEF WriteResource, Incoming
<1>4. CASE RemoveResource(p)
  BY <1>1, <1>4 DEF RemoveResource
<1>5. CASE Clear(p)
  BY <1>1, <1>5 DEF Clear
<1>6. CASE UNCHANGED resources
  BY <1>6
<1>7. WriteResource(p) \/ RemoveResource(p) \/ Clear(p) \/ UNCHANGED resources
  BY <1>2 DEF Invoke, Acquire, Locked, Unlocked, QueryRace, Return, Create, Update, Delete,
    WriteParsed, RemoveParsed, ClearParsed, GetResource, GetParsedResource,
    CountResources, GetResourceTypes, GetResources, QueryStart, QueryNext, QueryEnd
<1> QED BY <1>3, <1>4, <1>5, <1>6, <1>7

-----------------------------------------------------------------------------
(* Requests during a save.                                                 *)

LEMMA RequestInv ==
  ASSUME StorageInv, Request
  PROVE  StorageInv'
<1>0. Inv /\ DiskInv /\ SaverInv /\ SeenInv /\ Watched /\ Collected
  BY DEF StorageInv
<1>1. Next /\ UNCHANGED <<platform, disk>>
  BY DEF Request
<1>2. Inv'
  BY <1>0, <1>1, NextInv
<1>3. DiskInv'
  BY <1>0, <1>1 DEF DiskInv, Whole, Contents, Judged
<1>4. AllAllowed /\ AllAllowed'
  BY <1>0, <1>2, IncomingOne, IncomingOneNext
<1>5. resources \in [Slots -> Stored] /\ resources' \in [Slots -> Stored]
  BY <1>0, <1>2 DEF Inv, TypeOK
<1>6. \A s \in Slots : resources'[s] # Absent => Judged(s)
  <2> SUFFICES ASSUME NEW s \in Slots, resources'[s] # Absent PROVE Judged(s)
    OBVIOUS
  <2>1. resources'[s] \in {resources[s], Absent} \cup Incoming(s)
    BY <1>0, <1>1, NextWrites
  <2> QED BY <1>0, <1>4, <2>1 DEF SeenInv, AllAllowed, Allowed
<1>7. CASE saver.at # "marshal"
  <2>1. saver' = saver /\ seen' = seen
    BY <1>7 DEF Request
  <2>2. SaverInv'
    BY <1>0, <2>1 DEF SaverInv
  <2>3. SeenInv'
    BY <1>0, <1>6, <2>1 DEF SeenInv, Judged
  <2>4. Watched'
    BY <1>7, <2>1 DEF Watched
  <2>5. Collected'
    BY <1>0, <2>1 DEF Collected, Real, Skipped
  <2> QED BY <1>2, <1>3, <2>2, <2>3, <2>4, <2>5 DEF StorageInv
<1>8. CASE saver.at = "marshal"
  <2>1. saver' = Follow /\ seen' = Witness
    BY <1>8 DEF Request
  <2> DEFINE New(s) == seen[s] \cup {resources'[s]} \cup Incoming(s)'
  <2>2. seen' = [s \in Slots |-> New(s)]
    BY <2>1 DEF Witness
  <2>3. \A s \in Slots : seen'[s] = New(s) /\ seen[s] \subseteq seen'[s]
    BY <2>2
  <2>4. \A s \in Slots : /\ Incoming(s)' \subseteq Stored
                         /\ IsFiniteSet(Incoming(s)')
                         /\ \A v \in Incoming(s)' : v # Absent => Judged(s)
    BY <1>4 DEF AllAllowed, Allowed, Judged
  <2> DEFINE kept == [s \in Slots |->
                IF saver.kept[s] = Live /\ \E p \in Callers :
                     pc[p] = "locked" /\ pc'[p] = "clearParsed" /\ call[p].tenant = s[1]
                THEN resources[s] ELSE saver.kept[s]]
             must == {id \in saver.must :
                        kept[Entry(id)] # Live \/ resources'[Entry(id)] # Absent}
  <2>5. saver' = [saver EXCEPT !.kept = kept, !.must = must]
    BY <2>1 DEF Follow
  <2>6. /\ kept \in [Slots -> Stored \cup {Live}]
        /\ \A s \in Slots : kept[s] \in {saver.kept[s], resources[s]}
    BY <1>0, <1>5 DEF SaverInv, Savers
  <2>7. must \in SUBSET IDs
    BY <1>0 DEF SaverInv, Savers
  <2>8. /\ saver' \in Savers /\ saver'.at = saver.at /\ saver'.map = saver.map
        /\ saver'.todo = saver.todo /\ saver'.made = saver.made /\ saver'.out = saver.out
        /\ saver'.kept = kept /\ saver'.must = must
    <3> HIDE DEF kept, must
    <3> QED BY <1>0, <2>5, <2>6, <2>7 DEF SaverInv, Savers
  <2>9. SaverInv'
    BY <1>0, <1>8, <2>8 DEF SaverInv
  <2>10. SeenInv'
    <3>1. seen' \in [Slots -> SUBSET Stored]
      BY <1>0, <1>5, <2>2, <2>4 DEF SeenInv
    <3>2. \A s \in Slots : IsFiniteSet(seen'[s])
      <4> SUFFICES ASSUME NEW s \in Slots PROVE IsFiniteSet(seen'[s])
        OBVIOUS
      <4>1. IsFiniteSet(seen[s] \cup {resources'[s]})
        BY <1>0, FS_AddElement DEF SeenInv
      <4>2. IsFiniteSet(Incoming(s)')
        BY <2>4
      <4>3. IsFiniteSet(New(s))
        BY <4>1, <4>2, FS_Union
      <4> QED BY <2>3, <4>3
    <3>3. \A s \in Slots : (\E v \in seen'[s] : v # Absent) => Judged(s)
      BY <1>0, <1>6, <2>3, <2>4 DEF SeenInv
    <3> QED BY <1>6, <3>1, <3>2, <3>3 DEF SeenInv, Judged
  <2>11. Watched'
    <3> SUFFICES ASSUME NEW s \in Slots
                 PROVE  /\ resources'[s] \in seen'[s] /\ Incoming(s)' \subseteq seen'[s]
                        /\ saver'.kept[s] \in seen'[s] \cup {Live}
      BY DEF Watched
    <3>1. saver.kept[s] \in seen[s] \cup {Live} /\ resources[s] \in seen[s]
      BY <1>0, <1>8 DEF Watched
    <3> QED BY <2>3, <2>6, <2>8, <3>1
  <2>12. Collected'
    <3> SUFFICES ASSUME NEW s \in Slots
                 PROVE  /\ saver'.out[s] # Absent => Real(s, saver.out[s])'
                        /\ saver'.out[s] = Absent => Skipped(s)'
      BY <2>8 DEF Collected, Real
    <3>1. /\ saver.out[s] # Absent => Real(s, saver.out[s])
          /\ saver.out[s] = Absent => Skipped(s)
      BY <1>0, <1>8 DEF Collected
    <3>2. Real(s, saver.out[s]) => Real(s, saver.out[s])'
      BY <2>3, <2>8 DEF Real
    <3>3. Skipped(s) => Skipped(s)'
      <4> SUFFICES ASSUME Skipped(s), Absent \notin seen'[s]
                   PROVE  /\ MapOf(s) \in saver.todo
                          /\ saver.map = MapOf(s) => s[3] \in must
        BY <2>8 DEF Skipped
      <4>1. /\ MapOf(s) \in saver.todo
            /\ saver.map = MapOf(s) => s[3] \in saver.must
        BY <2>3 DEF Skipped
      <4>2. saver.map = MapOf(s) => Entry(s[3]) = s
        BY DEF MapOf, Entry, Slots
      <4>3. resources'[s] # Absent
        BY <2>3
      <4> QED BY <4>1, <4>2, <4>3
    <3> QED BY <2>8, <3>1, <3>2, <3>3
  <2> QED BY <1>2, <1>3, <2>9, <2>10, <2>11, <2>12 DEF StorageInv
<1> QED BY <1>7, <1>8

-----------------------------------------------------------------------------
(* Serialize.                                                              *)

\* What an entry is at the moment, in the map the saver has, has been seen.
LEMMA RangedSeen ==
  ASSUME StorageInv, saver.at = "marshal", NEW s \in Slots
  PROVE  (IF saver.kept[s] = Live THEN resources[s] ELSE saver.kept[s]) \in seen[s]
BY DEF StorageInv, Watched

\* What else the saver may read in the middle of a write is real, too: a mixture
\* only comes about when the value that is written differs from the one before.
LEMMA MidWriteReal ==
  ASSUME StorageInv, saver.at = "marshal", saver.map # Nowhere,
         NEW id \in IDs, NEW v \in MidWrite(id)
  PROVE  Real(Entry(id), v) /\ v \in Bodies
<1> DEFINE s == Entry(id)
           writers == {q \in SaverRacing : Slot(call[q]) = s}
           bodies == {call[q].body : q \in {w \in writers : pc[w] = "write"}}
<1>0. Inv /\ TypeOK /\ LockDiscipline /\ InTheMiddle /\ AllAllowed /\ SaverInv /\ Watched
  BY IncomingOne DEF StorageInv, Inv
<1>1. s \in Slots
  BY <1>0 DEF SaverInv, Savers, Maps, Entry, Slots
<1>2. resources[s] \in seen[s] /\ Incoming(s) \subseteq seen[s]
  BY <1>0, <1>1 DEF Watched
<1>3. bodies \subseteq Incoming(s)
  BY DEF Incoming, SaverRacing
<1>4. \A q \in writers : /\ q = lock /\ pc[q] \in {"write", "remove"}
                         /\ call[q].body \in Bodies /\ saver.kept[s] = Live
  BY <1>0, BackendAssumption
  DEF SaverRacing, TypeOK, LockDiscipline, Inside, Calls
<1>5. CASE v \in bodies
  <2>1. v \in seen[s]
    BY <1>2, <1>3, <1>5
  <2>2. PICK q \in writers : v = call[q].body
    BY <1>5
  <2>3. v \in Bodies
    BY <1>4, <2>2
  <2> QED BY <2>1, <2>3 DEF Real
<1>6. CASE v = Garbage /\ writers # {} /\ bodies # {Ranged(id)}
  <2>1. PICK q \in writers : TRUE
    BY <1>6
  <2>2. /\ q \in Callers /\ q = lock /\ pc[q] \in {"write", "remove"}
        /\ call[q].body \in Bodies /\ saver.kept[s] = Live /\ Slot(call[q]) = s
    BY <1>4, <2>1 DEF SaverRacing
  <2>3. Ranged(id) = resources[s]
    BY <2>2 DEF Ranged
  <2>4. \E x, y \in seen[s] : x # y
    <3>1. CASE pc[q] = "write"
      <4>1. bodies = {call[q].body}
        <5>1. \A w \in writers : w = q
          BY <1>4, <2>2
        <5>2. q \in {w \in writers : pc[w] = "write"}
          BY <2>1, <3>1
        <5> HIDE DEF writers
        <5> QED BY <5>1, <5>2
      <4>2. call[q].body # resources[s]
        BY <1>6, <2>3, <4>1
      <4>3. call[q].body \in seen[s]
        BY <1>2, <1>3, <4>1
      <4> QED BY <1>2, <4>2, <4>3
    <3>2. CASE pc[q] = "remove"
      <4>1. resources[s] # Absent
        BY <1>0, <2>2, <3>2 DEF InTheMiddle
      <4>2. Absent \in Incoming(s)
        BY <2>2, <3>2 DEF Incoming
      <4> QED BY <1>2, <4>1, <4>2
    <3> QED BY <2>2, <3>1, <3>2
  <2>5. Garbage \in Bodies
    <3>1. call[q].body.data \in Data
      BY <2>2 DEF Bodies
    <3>2. (CHOOSE d \in Data : TRUE) \in Data
      BY <3>1
    <3> QED BY <3>2 DEF Garbage, Bodies, Attributes
  <2> QED BY <1>6, <2>4, <2>5 DEF Real
<1>7. v \in bodies \/ (v = Garbage /\ writers # {} /\ bodies # {Ranged(id)})
  BY DEF MidWrite
<1> QED BY <1>5, <1>6, <1>7

\* Steps of the saver that leave the memory and the file alone keep their
\* invariants.
LEMMA FrameSaving ==
  ASSUME StorageInv, UNCHANGED <<vars, platform, disk>>
  PROVE  /\ Inv' /\ DiskInv'
         /\ seen' = seen => SeenInv'
         /\ \A s \in Slots : Incoming(s)' = Incoming(s)
<1>1. Inv'
  BY NextInv DEF StorageInv
<1>2. DiskInv'
  BY DEF StorageInv, DiskInv, Whole, Contents, Judged
<1>3. seen' = seen => SeenInv'
  BY DEF StorageInv, SeenInv, Judged, vars
<1>4. \A s \in Slots : Incoming(s)' = Incoming(s)
  BY DEF Incoming, vars, Slot, CreateIDFromExternalID
<1> QED BY <1>1, <1>2, <1>3, <1>4

LEMMA SaveInv ==
  ASSUME StorageInv, Save
  PROVE  StorageInv'
<1>1. UNCHANGED <<vars, platform, disk, seen>> /\ saver.at = "idle"
      /\ saver' = [saver EXCEPT !.at = "waiting"]
  BY DEF Save, Saving
<1>2. Inv' /\ DiskInv' /\ SeenInv'
  BY <1>1, FrameSaving
<1>3. SaverInv'
  BY <1>1 DEF StorageInv, SaverInv, Savers
<1>4. saver'.at = "waiting"
  BY <1>1 DEF StorageInv, SaverInv, Savers
<1> QED BY <1>2, <1>3, <1>4 DEF StorageInv, Watched, Collected

\* With the mutex no caller is at an assignment, and what is not in the outline
\* has no resources.
LEMMA SerializeInv ==
  ASSUME StorageInv, Serialize
  PROVE  StorageInv'
<1>0. Inv /\ TypeOK /\ SaverInv /\ SeenInv
  BY DEF StorageInv, Inv
<1>1. /\ UNCHANGED <<vars, platform, disk>> /\ saver.at = "waiting" /\ lock = Free
      /\ saver' = [saver EXCEPT !.at = "marshal", !.todo = made, !.made = made]
      /\ seen' = [s \in Slots |-> {resources[s]}]
  BY DEF Serialize, Saving
<1>2. /\ Inv' /\ DiskInv' /\ \A s \in Slots : Incoming(s)' = Incoming(s)
      /\ resources' = resources
  BY <1>1, FrameSaving DEF vars
<1>3. /\ saver'.at = "marshal" /\ saver'.todo = made /\ saver'.made = made
      /\ saver'.map = Nowhere
      /\ saver'.out = saver.out /\ saver'.kept = saver.kept
      /\ saver' \in Savers
      /\ \A s \in Slots : saver.out[s] = Absent /\ saver.kept[s] = Live
  BY <1>0, <1>1 DEF SaverInv, Savers, TypeOK, Maps
<1>4. SaverInv'
  BY <1>3 DEF SaverInv
<1>5. SeenInv'
  <2>1. resources \in [Slots -> Stored]
    BY <1>0 DEF TypeOK
  <2>2. \A s \in Slots : seen'[s] = {resources[s]} /\ IsFiniteSet({resources[s]})
    BY <1>1, FS_Singleton
  <2>3. seen' \in [Slots -> SUBSET Stored]
    BY <1>1, <2>1
  <2>4. \A s \in Slots : resources[s] # Absent => Judged(s)
    BY <1>0 DEF SeenInv
  <2> QED BY <1>2, <2>2, <2>3, <2>4 DEF SeenInv, Judged
<1>6. Watched'
  <2>1. \A s \in Slots : Incoming(s) = {}
    BY <1>0, <1>1, BackendAssumption DEF Inv, LockDiscipline, Incoming, Inside
  <2> QED BY <1>1, <1>2, <1>3, <2>1 DEF Watched
<1>7. Collected'
  <2> SUFFICES ASSUME NEW s \in Slots PROVE Skipped(s)'
    BY <1>3 DEF Collected
  <2>1. resources[s] # Absent => MapOf(s) \in made
    BY <1>0 DEF Inv, MapOf
  <2>2. MapOf(s) # Nowhere
    BY StorageAssumption DEF MapOf, Slots
  <2> QED BY <1>1, <1>3, <2>1, <2>2 DEF Skipped, MapOf
<1> QED BY <1>2, <1>4, <1>5, <1>6, <1>7 DEF StorageInv

LEMMA RangeStartInv ==
  ASSUME StorageInv, RangeStart
  PROVE  StorageInv'
<1>0. SaverInv /\ Watched /\ Collected
  BY DEF StorageInv
<1>1. UNCHANGED <<vars, platform, disk, seen>> /\ saver.at = "marshal" /\ saver.map = Nowhere
  BY DEF RangeStart, Saving
<1>2. /\ Inv' /\ DiskInv' /\ SeenInv' /\ \A s \in Slots : Incoming(s)' = Incoming(s)
      /\ resources' = resources /\ seen' = seen
  BY <1>1, FrameSaving DEF vars
<1> DEFINE Value(s) == IF saver.kept[s] = Live THEN resources[s] ELSE saver.kept[s]
           Ids(k) == {id \in IDs : Value(<<k[1], k[2], id>>) # Absent}
<1>3. PICK k \in saver.todo :
        saver' = [saver EXCEPT !.map = k, !.len = Cardinality(Ids(k)), !.must = Ids(k)]
  BY DEF RangeStart
<1>4. Ids(k) \in SUBSET IDs /\ Cardinality(Ids(k)) \in Nat
  <2>1. Ids(k) \in SUBSET IDs
    OBVIOUS
  <2> HIDE DEF Ids
  <2> QED BY <2>1, FS_Subset, FS_CardinalityType, BackendAssumption
<1>5. k \in Maps
  BY <1>0 DEF SaverInv, Savers
<1> DEFINE ids == Ids(k)
<1>6. \A id \in IDs : id \in ids <=> Value(<<k[1], k[2], id>>) # Absent
  OBVIOUS
<1> HIDE DEF ids
<1>7. saver' = [saver EXCEPT !.map = k, !.len = Cardinality(ids), !.must = ids]
      /\ ids \in SUBSET IDs /\ Cardinality(ids) \in Nat
  BY <1>3, <1>4 DEF ids
<1> HIDE DEF Ids
<1>8. /\ saver' \in Savers /\ saver'.at = "marshal" /\ saver'.map = k /\ saver'.must = ids
      /\ saver'.todo = saver.todo /\ saver'.made = saver.made
      /\ saver'.out = saver.out /\ saver'.kept = saver.kept
  BY <1>0, <1>1, <1>5, <1>7 DEF SaverInv, Savers
<1>9. SaverInv'
  BY <1>0, <1>8 DEF SaverInv
<1>10. Watched'
  BY <1>0, <1>1, <1>2, <1>8 DEF Watched
<1>11. Collected'
  <2> SUFFICES ASSUME NEW s \in Slots
               PROVE  /\ saver.out[s] # Absent => Real(s, saver.out[s])
                      /\ saver.out[s] = Absent => Skipped(s)'
    BY <1>2, <1>8 DEF Collected, Real
  <2>1. /\ saver.out[s] # Absent => Real(s, saver.out[s])
        /\ saver.out[s] = Absent => Skipped(s)
    BY <1>0, <1>1 DEF Collected
  <2>2. CASE MapOf(s) = k
    <3>1. s = <<k[1], k[2], s[3]>> /\ s[3] \in IDs
      BY <2>2 DEF MapOf, Slots
    <3>2. s[3] \in ids \/ Value(s) = Absent
      BY <1>6, <3>1
    <3>3. Value(s) \in seen[s]
      BY <1>1, RangedSeen
    <3>4. Skipped(s)'
      BY <1>2, <1>8, <2>2, <3>2, <3>3 DEF Skipped, MapOf
    <3> QED BY <2>1, <3>4
  <2>3. CASE MapOf(s) # k
    BY <1>2, <1>8, <2>1, <2>3 DEF Skipped, MapOf
  <2> QED BY <2>2, <2>3
<1> QED BY <1>2, <1>9, <1>10, <1>11 DEF StorageInv

LEMMA RangeNextInv ==
  ASSUME StorageInv, RangeNext
  PROVE  StorageInv'
<1>0. SaverInv /\ Watched /\ Collected /\ TypeOK
  BY DEF StorageInv, Inv
<1>1. /\ UNCHANGED <<vars, platform, disk, seen>> /\ saver.at = "marshal"
      /\ saver.map # Nowhere
  BY DEF RangeNext, Saving
<1>2. /\ Inv' /\ DiskInv' /\ SeenInv' /\ \A s \in Slots : Incoming(s)' = Incoming(s)
      /\ resources' = resources /\ seen' = seen
  BY <1>1, FrameSaving DEF vars
<1>3. PICK id \in IDs : \E v \in ({Ranged(id)} \ {Absent}) \cup MidWrite(id) :
        saver' = [saver EXCEPT !.out[Entry(id)] = v]
  BY DEF RangeNext
<1>4. PICK v \in ({Ranged(id)} \ {Absent}) \cup MidWrite(id) :
        saver' = [saver EXCEPT !.out[Entry(id)] = v]
  BY <1>3
<1> DEFINE e == Entry(id)
<1>5. e \in Slots /\ MapOf(e) = saver.map /\ MapOf(e) \in saver.todo
  BY <1>0, <1>1 DEF SaverInv, Savers, Maps, Entry, Slots, MapOf
<1>6. Real(e, v) /\ v \in Stored /\ v # Absent
  <2>1. CASE v \in MidWrite(id)
    BY <1>1, <2>1, MidWriteReal, BackendAssumption DEF Stored
  <2>2. CASE v = Ranged(id) /\ v # Absent
    <3>1. Ranged(id) \in seen[e]
      BY <1>1, <1>5, RangedSeen DEF Ranged
    <3> QED BY <1>5, <2>2, <3>1 DEF Real, StorageInv, SeenInv
  <2> QED BY <1>4, <2>1, <2>2
<1> HIDE DEF e
<1>7. saver' = [saver EXCEPT !.out = [saver.out EXCEPT ![e] = v]]
  BY <1>4 DEF e
<1>8. saver.out \in [Slots -> Stored]
  BY <1>0 DEF SaverInv, Savers
<1>9. [saver.out EXCEPT ![e] = v] \in [Slots -> Stored]
  BY <1>6, <1>8
<1>10. /\ saver' \in Savers /\ saver'.out = [saver.out EXCEPT ![e] = v]
       /\ saver'.at = "marshal" /\ saver'.map = saver.map /\ saver'.must = saver.must
       /\ saver'.todo = saver.todo /\ saver'.made = saver.made /\ saver'.kept = saver.kept
  BY <1>0, <1>1, <1>7, <1>9 DEF SaverInv, Savers
<1>11. \A s \in Slots : saver'.out[s] = IF s = e THEN v ELSE saver.out[s]
  BY <1>8, <1>10
<1>12. SaverInv'
  BY <1>0, <1>5, <1>10, <1>11 DEF SaverInv
<1>13. Watched'
  BY <1>0, <1>1, <1>2, <1>10 DEF Watched
<1>14. Collected'
  <2> SUFFICES ASSUME NEW s \in Slots
               PROVE  /\ saver'.out[s] # Absent => Real(s, saver'.out[s])
                      /\ saver'.out[s] = Absent => Skipped(s)
    BY <1>2, <1>10 DEF Collected, Real, Skipped
  <2>1. CASE s = e
    BY <1>6, <1>11, <2>1
  <2>2. CASE s # e
    BY <1>0, <1>1, <1>11, <2>2 DEF Collected
  <2> QED BY <2>1, <2>2
<1> QED BY <1>2, <1>12, <1>13, <1>14 DEF StorageInv

\* What was in the map at its start and has not been produced has been deleted
\* meanwhile.
LEMMA RangeEndInv ==
  ASSUME StorageInv, RangeEnd
  PROVE  StorageInv'
<1>0. SaverInv /\ Watched /\ Collected
  BY DEF StorageInv
<1>1. /\ UNCHANGED <<vars, platform, disk, seen>> /\ saver.at = "marshal"
      /\ saver.map # Nowhere
      /\ saver.must \subseteq Produced
      /\ saver' = [saver EXCEPT !.map = Nowhere, !.todo = @ \ {saver.map}, !.must = {}, !.len = 0]
  BY DEF RangeEnd, Saving
<1>2. /\ Inv' /\ DiskInv' /\ SeenInv' /\ \A s \in Slots : Incoming(s)' = Incoming(s)
      /\ resources' = resources /\ seen' = seen
  BY <1>1, FrameSaving DEF vars
<1>3. /\ saver' \in Savers /\ saver'.at = "marshal" /\ saver'.map = Nowhere
      /\ saver'.must = {} /\ saver'.todo = saver.todo \ {saver.map}
      /\ saver'.made = saver.made /\ saver'.kept = saver.kept /\ saver'.out = saver.out
  BY <1>0, <1>1 DEF SaverInv, Savers
<1>4. SaverInv'
  BY <1>0, <1>3 DEF SaverInv
<1>5. Watched'
  BY <1>0, <1>1, <1>2, <1>3 DEF Watched
<1>6. Collected'
  <2> SUFFICES ASSUME NEW s \in Slots
               PROVE  /\ saver.out[s] # Absent => Real(s, saver.out[s])
                      /\ saver.out[s] = Absent => Skipped(s)'
    BY <1>2, <1>3 DEF Collected, Real
  <2>1. /\ saver.out[s] # Absent => Real(s, saver.out[s])
        /\ saver.out[s] = Absent => Skipped(s)
    BY <1>0, <1>1 DEF Collected
  <2>2. MapOf(s) # Nowhere
    BY StorageAssumption DEF MapOf, Slots
  <2>3. ASSUME saver.out[s] = Absent, MapOf(s) = saver.map PROVE s[3] \notin saver.must
    <3>1. Entry(s[3]) = s
      BY <2>3 DEF Entry, MapOf, Slots
    <3>2. s[3] \notin Produced
      BY <2>3, <3>1 DEF Produced
    <3> QED BY <1>1, <3>2
  <2> QED BY <1>2, <1>3, <2>1, <2>2, <2>3 DEF Skipped, MapOf
<1> QED BY <1>2, <1>4, <1>5, <1>6 DEF StorageInv

-----------------------------------------------------------------------------
(* The file, and the end and the start of the process.                     *)

\* Once everything is collected, what was not collected was absent.
LEMMA AllCollected ==
  ASSUME StorageInv, saver.at \in {"marshal", "write"}, saver.todo = {}, NEW s \in Slots
  PROVE  Real(s, saver.out[s])
BY DEF StorageInv, Collected, Skipped, Real

\* What has been saved can be loaded.
LEMMA SavedWhole ==
  ASSUME StorageInv, saver.at \in {"marshal", "write"}, saver.todo = {}
  PROVE  Whole(Contents(NewContents))
<1>0. SaverInv /\ SeenInv
  BY DEF StorageInv
<1>1. Contents(NewContents).resources = saver.out /\ Contents(NewContents).made = saver.made
  BY <1>0, SavedContents
<1>2. saver.out \in [Slots -> Stored] /\ saver.made \subseteq Maps
  BY <1>0 DEF SaverInv, Savers
<1>3. \A s \in Slots : saver.out[s] # Absent => MapOf(s) \in saver.made
  BY <1>0 DEF SaverInv
<1>4. \A s \in Slots : saver.out[s] # Absent => Judged(s)
  <2> SUFFICES ASSUME NEW s \in Slots, saver.out[s] # Absent PROVE Judged(s)
    OBVIOUS
  <2>1. Real(s, saver.out[s])
    BY AllCollected
  <2>2. \E v \in seen[s] : v # Absent
    BY <2>1 DEF Real
  <2> QED BY <1>0, <2>2 DEF SeenInv
<1> QED BY <1>1, <1>2, <1>3, <1>4 DEF Whole

\* A saver that does nothing.
LEMMA RestInv ==
  ASSUME Inv', DiskInv', saver' = NotSaving, seen' = NothingSeen,
         \A s \in Slots : resources'[s] # Absent => Judged(s)
  PROVE  StorageInv'
<1>1. /\ NotSaving \in Savers
      /\ NotSaving.at = "idle" /\ NotSaving.map = Nowhere
      /\ NotSaving.todo = {} /\ NotSaving.made = {}
      /\ \A s \in Slots : NotSaving.out[s] = Absent /\ NotSaving.kept[s] = Live
  BY DEF NotSaving, Savers, Stored
<1>2. SaverInv'
  BY <1>1 DEF SaverInv
<1>3. SeenInv'
  <2>1. seen' \in [Slots -> SUBSET Stored] /\ \A s \in Slots : seen'[s] = {}
    BY DEF NothingSeen
  <2> QED BY <2>1, FS_EmptySet DEF SeenInv, Judged
<1>4. Watched' /\ Collected'
  BY <1>1 DEF Watched, Collected
<1> QED BY <1>2, <1>3, <1>4 DEF StorageInv

LEMMA SavedInv ==
  ASSUME StorageInv, Replace \/ Write
  PROVE  StorageInv'
<1>1. /\ UNCHANGED <<vars, platform>> /\ disk' = NewContents
      /\ saver' = NotSaving /\ seen' = NothingSeen
  BY DEF Replace, Write, Saved
<1>2. saver.at \in {"marshal", "write"} /\ saver.todo = {}
  BY DEF Replace, Write, Marshalled, Saving, StorageInv, SaverInv
<1>3. Inv'
  BY <1>1, NextInv DEF StorageInv
<1>4. Whole(Contents(NewContents)) /\ NewContents \in NewFile
      /\ NewContents \notin {NoFile, Damaged}
  BY <1>2, SavedWhole, SavedContents DEF StorageInv
<1> HIDE DEF NewContents
<1>5. Whole(Contents(disk'))
  BY <1>1, <1>4
<1>6. DiskInv'
  BY <1>1, <1>4, <1>5 DEF StorageInv, DiskInv, Whole, Contents, Judged
<1>7. \A s \in Slots : resources'[s] # Absent => Judged(s)
  BY <1>1 DEF vars, StorageInv, SeenInv
<1> QED BY <1>1, <1>3, <1>6, <1>7, RestInv

LEMMA SaveFailsInv ==
  ASSUME StorageInv, SaveFails
  PROVE  StorageInv'
<1>1. UNCHANGED <<vars, platform, disk>> /\ saver' = NotSaving /\ seen' = NothingSeen
  BY DEF SaveFails
<1>2. Inv' /\ DiskInv'
  BY <1>1, FrameSaving
<1>3. \A s \in Slots : resources'[s] # Absent => Judged(s)
  BY <1>1 DEF vars, StorageInv, SeenInv
<1> QED BY <1>1, <1>2, <1>3, RestInv

LEMMA TruncateInv ==
  ASSUME StorageInv, Truncate
  PROVE  StorageInv'
<1>0. SaverInv /\ SeenInv /\ Collected /\ DiskInv
  BY DEF StorageInv
<1>1. /\ UNCHANGED <<vars, platform, seen>> /\ disk' = Damaged /\ platform = "windows"
      /\ saver' = [saver EXCEPT !.at = "write"]
      /\ saver.at = "marshal" /\ saver.map = Nowhere /\ saver.todo = {}
  BY DEF Truncate, Marshalled, Saving
<1>2. Inv'
  BY <1>1, NextInv DEF StorageInv
<1>3. DiskInv'
  BY <1>0, <1>1 DEF DiskInv
<1>4. /\ saver' \in Savers /\ saver'.at = "write" /\ saver'.todo = saver.todo
      /\ saver'.map = saver.map /\ saver'.must = saver.must
      /\ saver'.made = saver.made /\ saver'.kept = saver.kept /\ saver'.out = saver.out
  BY <1>0, <1>1 DEF SaverInv, Savers
<1>5. SaverInv'
  BY <1>0, <1>1, <1>4 DEF SaverInv
<1>6. SeenInv'
  BY <1>0, <1>1 DEF SeenInv, Judged, vars
<1>7. Watched' /\ Collected'
  BY <1>0, <1>1, <1>4 DEF Watched, Collected, Real, Skipped
<1> QED BY <1>2, <1>3, <1>5, <1>6, <1>7 DEF StorageInv

\* A crash, and a panic or a fatal error of the save.
LEMMA DieInv ==
  ASSUME StorageInv, Die
  PROVE  StorageInv'
<1> DEFINE none == Contents(NoFile)
<1>1. /\ fatal' = TRUE /\ Boot(none) /\ Fresh /\ UNCHANGED <<platform, disk>>
  BY DEF Die
<1>2. Whole(none) /\ none.resources = [s \in Slots |-> Absent]
  BY NoContents
<1> HIDE DEF none
<1>3. Inv'
  BY <1>1, <1>2, BootInv
<1>4. DiskInv'
  BY <1>1 DEF StorageInv, DiskInv, Whole, Contents, Judged
<1>5. \A s \in Slots : resources'[s] = Absent
  BY <1>1, <1>2 DEF Boot
<1> QED BY <1>1, <1>3, <1>4, <1>5, RestInv DEF Fresh

LEMMA RestartInv ==
  ASSUME StorageInv, Restart
  PROVE  StorageInv'
<1> DEFINE file == Contents(disk)
<1>1. /\ fatal' = FALSE /\ Boot(file) /\ Fresh /\ UNCHANGED <<platform, disk>>
      /\ disk # Damaged
  BY DEF Restart, Loadable
<1>2. Whole(file)
  BY <1>1 DEF StorageInv, DiskInv
<1>4. DiskInv'
  BY <1>1 DEF StorageInv, DiskInv, Whole, Contents, Judged
<1> HIDE DEF file
<1>3. Inv'
  BY <1>1, <1>2, BootInv
<1>5. \A s \in Slots : resources'[s] # Absent => Judged(s)
  BY <1>1, <1>2 DEF Boot, Whole
<1> QED BY <1>1, <1>3, <1>4, <1>5, RestInv DEF Fresh

-----------------------------------------------------------------------------
(* The theorems.                                                           *)

\* The program starts with a file that it could load.
LEMMA StorageInitInv == StorageInit => StorageInv
<1> SUFFICES ASSUME StorageInit PROVE StorageInv
  OBVIOUS
<1>1. Inv
  BY InitInv DEF StorageInit
<1>2. PICK f \in Files : Load(f)
  BY DEF StorageInit, Init
<1>3. \A s \in Slots : resources[s] # Absent =>
        validatingObjectParser(s[2], resources[s]).kind # "panic"
  BY <1>2 DEF Load
<1>4. resources \in [Slots -> Stored] /\ made \subseteq Maps
      /\ \A s \in Slots : resources[s] # Absent => MapOf(s) \in made
  BY <1>1 DEF Inv, TypeOK, Maps, MapOf
<1>5. \A s \in Slots : resources[s] # Absent => Judged(s)
  BY <1>3, <1>4, Panics DEF Stored
<1>6. disk # Damaged /\ disk \in {NoFile} \cup OldFile \cup NewFile
      /\ platform \in Platforms
      /\ resources = Contents(disk).resources /\ made = Contents(disk).made
      /\ saver = NotSaving /\ seen = NothingSeen
  BY StorageAssumption DEF StorageInit
<1>7. Whole(Contents(disk))
  BY <1>4, <1>5, <1>6 DEF Whole
<1>8. DiskInv
  BY <1>6, <1>7 DEF DiskInv
<1>9. SaverInv
  BY <1>6 DEF NotSaving, SaverInv, Savers, Stored
<1>10. SeenInv
  <2>1. seen \in [Slots -> SUBSET Stored] /\ \A s \in Slots : seen[s] = {}
    BY <1>6 DEF NothingSeen
  <2> QED BY <1>5, <2>1, FS_EmptySet DEF SeenInv
<1>11. Watched /\ Collected
  BY <1>6 DEF NotSaving, Watched, Collected
<1> QED BY <1>1, <1>8, <1>9, <1>10, <1>11 DEF StorageInv

LEMMA StorageNextInv == StorageInv /\ [StorageNext]_storageVars => StorageInv'
<1> SUFFICES ASSUME StorageInv, [StorageNext]_storageVars PROVE StorageInv'
  OBVIOUS
<1>1. CASE UNCHANGED storageVars
  <2>1. UNCHANGED <<vars, platform, disk, saver, seen>>
    BY <1>1 DEF storageVars
  <2>2. Inv' /\ DiskInv' /\ SeenInv' /\ \A s \in Slots : Incoming(s)' = Incoming(s)
    BY <2>1, FrameSaving
  <2>3. SaverInv' /\ Watched' /\ Collected'
    BY <2>1, <2>2 DEF vars, StorageInv, SaverInv, Watched, Collected, Real, Skipped
  <2> QED BY <2>2, <2>3 DEF StorageInv
<1>2. CASE Request
  BY <1>2, RequestInv
<1>3. CASE Save \/ Serialize \/ SaveFails
  BY <1>3, SaveInv, SerializeInv, SaveFailsInv
<1>4. CASE SaverStep
  BY <1>4, RangeStartInv, RangeNextInv, RangeEndInv, SavedInv, TruncateInv, DieInv
  DEF SaverStep, RangePanics
<1>5. CASE MarshalRace \/ Crash
  BY <1>5, DieInv DEF MarshalRace, Crash
<1>6. CASE Restart
  BY <1>6, RestartInv
<1> QED BY <1>1, <1>2, <1>3, <1>4, <1>5, <1>6 DEF StorageNext

\* What the saver has collected at any moment is real, and the file can be loaded
\* unless it is being written in place.
THEOREM StorageInvariance == StorageSpec => []StorageInv
BY StorageInitInv, StorageNextInv, PTL DEF StorageSpec

\* The file and the saver keep their types, and nothing is collected outside of the
\* outline that Serialize has made under the mutex.
THEOREM StorageTypes == StorageSpec => []StorageTypeOK
<1>1. StorageInv => StorageTypeOK
  BY DEF StorageInv, Inv, DiskInv, SaverInv, Savers, StorageTypeOK, MapOf
<1> QED BY <1>1, StorageInvariance, PTL

\* parsed mirrors resources whenever the mutex is free, after a restart as well.
THEOREM MirroringRestarts == StorageSpec => []ParsedMirrors
<1>1. StorageInv => ParsedMirrors
  BY FreeMirrors DEF StorageInv
<1> QED BY <1>1, StorageInvariance, PTL

\* On Linux a crash at any moment leaves a file that the program can start from.
THEOREM Loading == StorageSpec => []AlwaysLoadable
<1>1. StorageInv => AlwaysLoadable
  <2> SUFFICES ASSUME StorageInv, platform = "linux" PROVE Loadable(disk)
    BY DEF AlwaysLoadable
  <2>1. disk # Damaged /\ Whole(Contents(disk))
    BY DEF StorageInv, DiskInv
  <2> DEFINE c == Contents(disk)
  <2>2. \A s \in Slots : c.resources[s] # Absent => c.resources[s] \in Bodies /\ Judged(s)
    BY <2>1 DEF Whole, Stored
  <2> HIDE DEF c
  <2>3. \A s \in Slots : c.resources[s] # Absent =>
          validatingObjectParser(s[2], c.resources[s]).kind # "panic"
    BY <2>2, Panics
  <2> QED BY <2>1, <2>3 DEF Loadable, c
<1> QED BY <1>1, StorageInvariance, PTL

\* A file that Save has written holds for every resource a value that it has had
\* since the save began, or a mixture of such values.
THEOREM RealSaves == StorageSpec => SavesAreReal
<1> DEFINE Held(s) == \/ Contents(disk').resources[s] \in seen[s]
                      \/ Contents(disk').resources[s] = Garbage /\ Cardinality(seen[s]) > 1
<1>1. ASSUME StorageInv, [StorageNext]_storageVars, disk' # disk, disk' # Damaged,
             NEW s \in Slots
      PROVE  Held(s)
  <2>1. Replace \/ Write
    BY <1>1 DEF StorageNext, SaverStep, storageVars, Request, Save, Serialize, RangeStart,
      RangeNext, RangeEnd, RangePanics, Truncate, MarshalRace, SaveFails, Crash, Restart, Die
  <2>2. disk' = NewContents
    BY <2>1 DEF Replace, Write, Saved
  <2>3. saver.at \in {"marshal", "write"} /\ saver.todo = {}
    BY <1>1, <2>1 DEF Replace, Write, Marshalled, Saving, StorageInv, SaverInv
  <2>4. Contents(disk').resources = saver.out
    BY <1>1, <2>2, SavedContents DEF StorageInv
  <2>5. Real(s, saver.out[s])
    BY <1>1, <2>3, AllCollected
  <2>6. ASSUME NEW x \in seen[s], NEW y \in seen[s], x # y PROVE Cardinality(seen[s]) > 1
    <3>1. IsFiniteSet(seen[s])
      BY <1>1 DEF StorageInv, SeenInv
    <3>2. {x, y} \subseteq seen[s]
      OBVIOUS
    <3>3. Cardinality({x, y}) \in Nat /\ Cardinality({x, y}) <= Cardinality(seen[s])
          /\ Cardinality(seen[s]) \in Nat
      BY <3>1, <3>2, FS_Subset, FS_CardinalityType
    <3>4. IsFiniteSet({x}) /\ Cardinality({x}) = 1
      BY FS_Singleton
    <3>5. Cardinality({x} \cup {y}) = 2
      BY <2>6, <3>4, FS_AddElement
    <3>6. {x} \cup {y} = {x, y}
      OBVIOUS
    <3> QED BY <3>3, <3>5, <3>6
  <2> QED BY <2>4, <2>5, <2>6 DEF Real
<1>2. StorageInv /\ [StorageNext]_storageVars =>
        [disk' # disk /\ disk' # Damaged =>
           \A s \in Slots :
             \/ Contents(disk').resources[s] \in seen[s]
             \/ Contents(disk').resources[s] = Garbage /\ Cardinality(seen[s]) > 1]_storageVars
  BY <1>1
<1> QED BY <1>2, StorageInvariance, PTL DEF StorageSpec, SavesAreReal
=============================================================================
