---------------------- MODULE InMemoryRefinementProofs ----------------------
(***************************************************************************)
(* InMemoryBackend implements ResourceStore: each method takes effect in   *)
(* the step that writes resources or, if it writes nothing, in the one     *)
(* that unlocks; every other step is invisible.                            *)
(***************************************************************************)
EXTENDS InMemoryBackendProofs

USE DEF Goto, Result, Store!Result

\* result has an entry for each caller, whatever it holds.
ResultInv == DOMAIN result = Callers

LEMMA ResultStep == ResultInv /\ [Next]_vars => ResultInv'
<1> SUFFICES ASSUME ResultInv, [Next]_vars PROVE ResultInv'
  OBVIOUS
<1>1. CASE UNCHANGED vars
  BY <1>1 DEF vars, ResultInv
<1>2. CASE Next
  <2>1. PICK p \in Callers :
          Invoke(p) \/ Acquire(p) \/ Locked(p) \/ Unlocked(p) \/ QueryRace(p) \/ Return(p)
    BY <1>2 DEF Next
  <2>2. CASE Invoke(p) \/ Acquire(p) \/ QueryRace(p) \/ Return(p)
    BY <2>2 DEF Invoke, Acquire, QueryRace, Return, ResultInv
  <2>3. CASE Unlocked(p)
    BY <2>3 DEF Unlocked, QueryStart, QueryNext, QueryEnd, ResultInv
  <2>4. CASE Create(p) \/ Update(p) \/ Delete(p) \/ Clear(p)
    BY <2>4 DEF Create, Update, Delete, Clear, Continue, Unlock, ResultInv
  <2>5. CASE WriteResource(p) \/ WriteParsed(p) \/ RemoveResource(p)
             \/ RemoveParsed(p) \/ ClearParsed(p)
    BY <2>5 DEF WriteResource, WriteParsed, RemoveResource, RemoveParsed,
                ClearParsed, Unlock, ResultInv
  <2>6. CASE GetResource(p) \/ GetParsedResource(p) \/ CountResources(p)
             \/ GetResourceTypes(p) \/ GetResources(p)
    BY <2>6 DEF GetResource, GetParsedResource, CountResources,
                GetResourceTypes, GetResources, Unlock, ResultInv
  <2> QED BY <2>1, <2>2, <2>3, <2>4, <2>5, <2>6 DEF Locked
<1> QED BY <1>1, <1>2

\* The files that Load accepts are abstract stores.
LEMMA InitRefines == Init => Store!Init
<1> SUFFICES ASSUME Init PROVE Store!Init
  OBVIOUS
<1>1. resources \in [Slots -> Stored]
  BY InitInv DEF Inv, TypeOK
<1>2. Payloads \in [Slots -> Data \cup {Absent}]
  BY <1>1 DEF Payloads, Stored, Bodies
<1>3. Payloads \in [Store!Slots -> Data \cup {Absent}]
  BY <1>2 DEF Slots, Store!Slots
<1> QED
  BY <1>3 DEF Init, Store!Init, Statuses, Results, Effected

\* Functions that differ at one place.
LEMMA OnlyAt ==
  ASSUME NEW S, NEW f, NEW g, NEW p \in S,
         f = [q \in S |-> f[q]], g = [q \in S |-> g[q]],
         \A q \in S \ {p} : g[q] = f[q]
  PROVE  g = [f EXCEPT ![p] = g[p]]
OBVIOUS

\* What an abstract step answers.
LEMMA AnswerStep ==
  ASSUME Inv, ResultInv, NEW p \in Callers,
         pc[p] \in {"locked", "write", "remove", "iterate"},
         pc' = [pc EXCEPT ![p] = pc'[p]],
         pc'[p] \in Effected \cup {"returned"},
         call' = call,
         \A q \in Callers \ {p} : result'[q] = result[q]
  PROVE  /\ Statuses[p] = "pending"
         /\ Statuses' = [Statuses EXCEPT ![p] = "done"]
         /\ Results' = [Results EXCEPT ![p] = Results'[p]]
<1>1. \A q \in Callers \ {p} : pc'[q] = pc[q]
  BY DEF Inv, TypeOK
<1>2. Statuses[p] = "pending" /\ Statuses'[p] = "done"
  BY DEF Statuses, Effected
<1>3. \A q \in Callers \ {p} : Statuses'[q] = Statuses[q] /\ Results'[q] = Results[q]
  BY <1>1 DEF Statuses, Results, Effected
<1>4. Statuses' = [Statuses EXCEPT ![p] = "done"]
  BY <1>2, <1>3 DEF Statuses
<1>5. /\ Results = [q \in Callers |-> Results[q]]
      /\ Results' = [q \in Callers |-> Results'[q]]
  BY Zenon DEF Results
<1>6. Results' = [Results EXCEPT ![p] = Results'[p]]
  BY <1>3, <1>5, OnlyAt
<1> QED
  BY <1>2, <1>4, <1>6

\* What an invisible step leaves alone.
LEMMA Stutter ==
  ASSUME UNCHANGED <<Payloads, call>>,
         \A q \in Callers : Statuses'[q] = Statuses[q] /\ Results'[q] = Results[q]
  PROVE  UNCHANGED Store!vars
BY DEF Store!vars, Statuses, Results

LEMMA SlotSame == \A c : Store!Slot(c) = Slot(c)
BY DEF Store!Slot, Slot, Store!CreateIDFromExternalID, CreateIDFromExternalID,
   Store!Ok, Store!Err, Store!Panic, Ok, Err, Panic

LEMMA SlotsSame == Store!Slots = Slots
BY DEF Store!Slots, Slots

\* The payload of a resource is Absent only if the resource is.
LEMMA PayloadOf ==
  ASSUME Inv, NEW s \in Slots
  PROVE  /\ Payloads[s] = IF resources[s] = Absent THEN Absent ELSE resources[s].data
         /\ Payloads[s] = Absent <=> resources[s] = Absent
BY BackendAssumption DEF Payloads, Inv, TypeOK, Stored, Bodies

\* A method that returns with r answers r.
LEMMA UnlockAnswers ==
  ASSUME Inv, ResultInv, NEW p \in Callers, NEW r,
         pc[p] = "locked", Unlock(p, r), call' = call
  PROVE  Store!Answer(p, r) /\ Statuses[p] = "pending"
<1>1. pc' = [pc EXCEPT ![p] = "returned"] /\ result' = [result EXCEPT ![p] = r]
  BY DEF Unlock
<1>2. pc'[p] = "returned" /\ pc' = [pc EXCEPT ![p] = pc'[p]]
  BY <1>1 DEF Inv, TypeOK
<1>3. Results'[p] = r
  BY <1>1, <1>2 DEF Results, Effected, ResultInv
<1>4. \A q \in Callers \ {p} : result'[q] = result[q]
  BY <1>1
<1>5. /\ Statuses[p] = "pending"
      /\ Statuses' = [Statuses EXCEPT ![p] = "done"]
      /\ Results' = [Results EXCEPT ![p] = Results'[p]]
  BY <1>2, <1>4, AnswerStep
<1> QED BY <1>3, <1>5 DEF Store!Answer

\* A method that gives up has no effect.
LEMMA FailRefines ==
  ASSUME Inv, ResultInv, NEW p \in Callers, NEW kind \in {"malformed", "error", "panic"},
         pc[p] = "locked", Unlock(p, Result(kind, Nil)), UNCHANGED <<call, resources>>
  PROVE  Store!Fail(p)
<1>1. Store!Answer(p, Result(kind, Nil)) /\ Statuses[p] = "pending"
  BY UnlockAnswers
<1>2. UNCHANGED Payloads
  BY DEF Payloads
<1> QED BY <1>1, <1>2 DEF Store!Fail, Store!Result

\* Nor has one that finds no resource.
LEMMA MissingRefines ==
  ASSUME Inv, ResultInv, NEW p \in Callers,
         call[p].op \in {"update", "delete", "get", "getParsed"},
         Slot(call[p]) \in Slots, resources[Slot(call[p])] = Absent,
         pc[p] = "locked", Unlock(p, Result("missing", Nil)), UNCHANGED <<call, resources>>
  PROVE  Store!Missing(p)
<1>1. Store!Answer(p, Result("missing", Nil)) /\ Statuses[p] = "pending"
  BY UnlockAnswers
<1>2. UNCHANGED Payloads
  BY DEF Payloads
<1>3. Payloads[Store!Slot(call[p])] = Absent
  BY PayloadOf, SlotSame
<1> QED BY <1>1, <1>2, <1>3 DEF Store!Missing, Store!Calling, Store!Result
-----------------------------------------------------------------------------
(* The steps that take effect.                                             *)

\* The facts about a caller that is inside a method.
LEMMA CallType ==
  ASSUME Inv, NEW p \in Callers, pc[p] # "idle"
  PROVE  /\ call[p] \in Calls
         /\ call[p].op # "create" => Slot(call[p]) \in Slots
BY BackendAssumption, SlotType DEF Inv, TypeOK, Calls

LEMMA InvokeRefines ==
  ASSUME Inv, ResultInv, NEW p \in Callers, Invoke(p)
  PROVE  Store!Invoke(p)
<1>1. pc'[p] = "waiting" /\ \A q \in Callers \ {p} : pc'[q] = pc[q] /\ call'[q] = call[q]
  BY DEF Invoke, Inv, TypeOK
<1>2. Statuses[p] = "idle" /\ Statuses'[p] = "pending"
  BY <1>1 DEF Invoke, Statuses, Effected
<1>3. \A q \in Callers \ {p} : Statuses'[q] = Statuses[q] /\ Results'[q] = Results[q]
  BY <1>1 DEF Invoke, Statuses, Results, Effected
<1>4. Results'[p] = Results[p]
  BY <1>1 DEF Invoke, Results, Effected
<1>5. Statuses' = [Statuses EXCEPT ![p] = "pending"] /\ Results' = Results
  BY <1>2, <1>3, <1>4 DEF Statuses, Results
<1>6. UNCHANGED Payloads
  BY DEF Invoke, Payloads
<1> QED BY <1>2, <1>5, <1>6 DEF Invoke, Store!Invoke

LEMMA ReturnRefines ==
  ASSUME Inv, ResultInv, NEW p \in Callers, Return(p)
  PROVE  Store!Return(p)
<1>1. pc'[p] = "idle" /\ \A q \in Callers \ {p} : pc'[q] = pc[q] /\ call'[q] = call[q]
  BY DEF Return, Inv, TypeOK
<1>2. Statuses[p] = "done" /\ Statuses'[p] = "idle"
  BY <1>1 DEF Return, Statuses, Effected
<1>3. \A q \in Callers \ {p} : Statuses'[q] = Statuses[q] /\ Results'[q] = Results[q]
  BY <1>1 DEF Return, Statuses, Results, Effected
<1>4. Results'[p] = Nil
  BY <1>1 DEF Return, Results, Effected, ResultInv
<1>5. Statuses' = [Statuses EXCEPT ![p] = "idle"] /\ Results' = [Results EXCEPT ![p] = Nil]
  BY <1>2, <1>3, <1>4 DEF Statuses, Results
<1>6. UNCHANGED Payloads
  BY DEF Return, Payloads
<1> QED BY <1>2, <1>5, <1>6 DEF Return, Store!Return

\* Create and Update take effect when they write resources.
LEMMA WriteRefines ==
  ASSUME Inv, ResultInv, NEW p \in Callers, WriteResource(p)
  PROVE  Store!Create(p) \/ Store!Update(p)
<1> DEFINE s == Slot(call[p])
           r == Result("ok", call[p].body.data)
<1>1. s \in Slots /\ call[p].op \in {"create", "update"} /\ call[p] \in Calls
  BY CallType DEF Inv, LockDiscipline, InTheMiddle, WriteResource
<1>2. call[p].body # Absent
  BY <1>1, BackendAssumption DEF Calls
<1>3. pc'[p] = "writeParsed" /\ pc' = [pc EXCEPT ![p] = pc'[p]]
  BY DEF WriteResource, Inv, TypeOK
<1>4. Results'[p] = r
  BY <1>3 DEF WriteResource, Results
<1>5. /\ Statuses[p] = "pending"
      /\ Statuses' = [Statuses EXCEPT ![p] = "done"]
      /\ Results' = [Results EXCEPT ![p] = Results'[p]]
  BY <1>3, AnswerStep DEF WriteResource, Effected
<1>6. Store!Answer(p, r)
  BY <1>4, <1>5 DEF Store!Answer, WriteResource
<1>7. resources' = [resources EXCEPT ![s] = call[p].body]
      /\ resources \in [Slots -> Stored]
  BY DEF WriteResource, Inv, TypeOK
<1>8. Payloads' = [Payloads EXCEPT ![s] = call[p].body.data]
  BY <1>1, <1>2, <1>7 DEF Payloads
<1>9. Store!Slot(call[p]) = s /\ Store!Slots = Slots
  BY SlotSame, SlotsSame
<1>10. CASE call[p].op = "create"
  BY <1>1, <1>5, <1>6, <1>8, <1>9, <1>10 DEF Store!Create, Store!Calling
<1>11. CASE call[p].op = "update"
  <2>1. resources[s] # Absent
    BY <1>11 DEF Inv, InTheMiddle, WriteResource
  <2>2. Payloads[s] # Absent
    BY <2>1, <1>1, PayloadOf
  <2> QED BY <2>2, <1>1, <1>5, <1>6, <1>8, <1>9, <1>11 DEF Store!Update, Store!Calling
<1> QED BY <1>1, <1>10, <1>11

\* Delete takes effect when it removes the resource.
LEMMA RemoveRefines ==
  ASSUME Inv, ResultInv, NEW p \in Callers, RemoveResource(p)
  PROVE  Store!Delete(p)
<1> DEFINE s == Slot(call[p])
<1>1. s \in Slots /\ call[p].op = "delete" /\ resources[s] # Absent
  BY CallType DEF Inv, InTheMiddle, RemoveResource
<1>2. pc'[p] = "removeParsed" /\ pc' = [pc EXCEPT ![p] = pc'[p]]
  BY DEF RemoveResource, Inv, TypeOK
<1>3. Results'[p] = Result("ok", Nil)
  BY <1>2 DEF RemoveResource, Results, Effected
<1>4. /\ Statuses[p] = "pending"
      /\ Statuses' = [Statuses EXCEPT ![p] = "done"]
      /\ Results' = [Results EXCEPT ![p] = Results'[p]]
  BY <1>2, AnswerStep DEF RemoveResource, Effected
<1>5. Store!Answer(p, Result("ok", Nil))
  BY <1>3, <1>4 DEF Store!Answer, RemoveResource
<1>6. resources' = [resources EXCEPT ![s] = Absent] /\ resources \in [Slots -> Stored]
  BY DEF RemoveResource, Inv, TypeOK
<1>7. Payloads' = [Payloads EXCEPT ![s] = Absent]
  BY <1>1, <1>6 DEF Payloads
<1>8. Payloads[s] # Absent
  BY <1>1, PayloadOf
<1> QED
  BY <1>1, <1>4, <1>5, <1>7, <1>8, SlotSame DEF Store!Delete, Store!Calling

\* Clear takes effect when it replaces resources.
LEMMA ClearRefines ==
  ASSUME Inv, ResultInv, NEW p \in Callers, Clear(p)
  PROVE  Store!Clear(p)
<1>1. pc[p] = "locked" /\ call[p].op = "clear"
  BY DEF Clear, Holds
<1>2. pc'[p] = "clearParsed" /\ pc' = [pc EXCEPT ![p] = pc'[p]] /\ UNCHANGED <<call, result>>
  BY DEF Clear, Continue, Inv, TypeOK
<1>3. Results'[p] = Result("ok", Nil)
  BY <1>2 DEF Results, Effected
<1>4. /\ Statuses[p] = "pending"
      /\ Statuses' = [Statuses EXCEPT ![p] = "done"]
      /\ Results' = [Results EXCEPT ![p] = Results'[p]]
  BY <1>1, <1>2, AnswerStep DEF Effected
<1>5. Store!Answer(p, Result("ok", Nil))
  BY <1>2, <1>3, <1>4 DEF Store!Answer
<1>6. Payloads' = [s \in Slots |-> IF s[1] = call[p].tenant THEN Absent ELSE Payloads[s]]
  BY DEF Payloads, Clear
<1> QED
  BY <1>1, <1>4, <1>5, <1>6, SlotsSame DEF Store!Clear, Store!Calling
-----------------------------------------------------------------------------
(* The reads.                                                              *)

\* An object has the payload of what it has been parsed from.
LEMMA ParsedData ==
  ASSUME NEW ty, NEW b \in Bodies, validatingObjectParser(ty, b).kind = "ok",
         validatingObjectParser(ty, b).val # Nil
  PROVE  validatingObjectParser(ty, b).val.data = b.data
BY DEF validatingObjectParser, objectParser, Ok, Err, Panic

\* Whoever holds the mutex and has not begun to write finds parsed in order.
LEMMA LockedMirror ==
  ASSUME Inv, NEW p \in Callers, pc[p] = "locked", NEW s \in Slots
  PROVE  parsed[s] = ParsedOf(s[2], resources[s])
BY Inside1 DEF Inv, HalfDone, Inside

LEMMA GetParsedRefines ==
  ASSUME Inv, ResultInv, NEW p \in Callers, GetParsedResource(p)
  PROVE  Store!GetParsed(p) \/ Store!Missing(p)
<1> DEFINE s == Slot(call[p])
           o == parsed[s]
<1>1. /\ pc[p] = "locked" /\ call[p].op = "getParsed" /\ s \in Slots
      /\ UNCHANGED <<call, resources>>
  BY CallType DEF GetParsedResource, Holds
<1>2. o = ParsedOf(s[2], resources[s]) /\ resources[s] \in Stored
  BY <1>1, LockedMirror DEF Inv, TypeOK
<1>3. CASE resources[s] = Absent
  <2>1. o = Absent
    BY <1>2, <1>3 DEF ParsedOf
  <2>2. Unlock(p, Result("missing", Nil))
    BY <2>1 DEF GetParsedResource
  <2> QED BY <1>1, <1>3, <2>2, MissingRefines
<1>4. CASE resources[s] # Absent
  <2>1. resources[s] \in Bodies
    BY <1>2, <1>4 DEF Stored
  <2>2. o # Absent /\ (o # Nil => o.data = resources[s].data)
    BY <1>2, <1>4, <2>1, ParserValue, ParsedData, BackendAssumption DEF ParsedOf
  <2>3. Payloads[s] = resources[s].data /\ Payloads[s] # Absent
    BY <1>1, <1>4, PayloadOf
  <2>4. Unlock(p, Result("ok", IF o = Nil THEN Nil ELSE o.data))
    BY <2>2 DEF GetParsedResource
  <2>5. /\ Store!Answer(p, Result("ok", IF o = Nil THEN Nil ELSE o.data))
        /\ Statuses[p] = "pending"
    BY <1>1, <2>4, UnlockAnswers
  <2>6. UNCHANGED Payloads
    BY <1>1 DEF Payloads
  <2>7. PICK v \in {Payloads[s], Nil} : v = IF o = Nil THEN Nil ELSE o.data
    BY <2>2, <2>3
  <2>8. Store!Answer(p, Result("ok", v))
    BY <2>5, <2>7
  <2> QED
    BY <1>1, <2>3, <2>5, <2>6, <2>8, SlotSame DEF Store!GetParsed, Store!Calling
<1> QED BY <1>3, <1>4

LEMMA GetRefines ==
  ASSUME Inv, ResultInv, NEW p \in Callers, GetResource(p)
  PROVE  Store!Get(p) \/ Store!Missing(p)
<1> DEFINE s == Slot(call[p])
<1>1. /\ pc[p] = "locked" /\ call[p].op = "get" /\ s \in Slots
      /\ UNCHANGED <<call, resources>>
  BY CallType DEF GetResource, Holds
<1>2. CASE resources[s] = Absent
  <2>1. Unlock(p, Result("missing", Nil))
    BY <1>2 DEF GetResource
  <2> QED BY <1>1, <1>2, <2>1, MissingRefines
<1>3. CASE resources[s] # Absent
  <2>1. Payloads[s] = resources[s].data /\ Payloads[s] # Absent
    BY <1>1, <1>3, PayloadOf
  <2>2. Unlock(p, Result("ok", Payloads[s]))
    BY <1>3, <2>1 DEF GetResource
  <2>3. Store!Answer(p, Result("ok", Payloads[s])) /\ Statuses[p] = "pending"
    BY <1>1, <2>2, UnlockAnswers
  <2>4. UNCHANGED Payloads
    BY <1>1 DEF Payloads
  <2> QED
    BY <1>1, <2>1, <2>3, <2>4, SlotSame DEF Store!Get, Store!Calling
<1> QED BY <1>2, <1>3

\* The IDs of a tenant's resources of a type.
LEMMA IDsSame ==
  ASSUME Inv, NEW t \in Tenants, NEW ty \in Types
  PROVE  Store!IDsOf(t, ty) = IDsIn(InnerMap(resources, t, ty))
<1>1. \A id \in IDs : <<t, ty, id>> \in Slots
  BY DEF Slots
<1> QED BY <1>1, PayloadOf DEF Store!IDsOf, IDsIn, InnerMap

LEMMA CardinalitySame == \A S : Store!Cardinality(S) = Cardinality(S)
BY DEF Store!Cardinality, Cardinality

LEMMA CountRefines ==
  ASSUME Inv, ResultInv, NEW p \in Callers, CountResources(p)
  PROVE  Store!Count(p)
<1>1. PICK n : n = Cardinality(IDsIn(InnerMap(resources, call[p].tenant, call[p].type)))
  OBVIOUS
<1>2. /\ pc[p] = "locked" /\ call[p].op = "count" /\ Unlock(p, Result("ok", n))
      /\ UNCHANGED <<call, resources>>
  BY <1>1 DEF CountResources, Holds
<1>3. Store!Answer(p, Result("ok", n)) /\ Statuses[p] = "pending"
  BY <1>2, UnlockAnswers
<1>4. call[p].tenant \in Tenants /\ call[p].type \in Types
  BY <1>2, CallType DEF Calls
<1>5. n = Cardinality(Store!IDsOf(call[p].tenant, call[p].type))
  BY <1>1, <1>4, IDsSame
<1>6. UNCHANGED Payloads
  BY <1>2 DEF Payloads
<1> QED
  BY <1>2, <1>3, <1>5, <1>6, CardinalitySame DEF Store!Count, Store!Calling

LEMMA TypesRefines ==
  ASSUME Inv, ResultInv, NEW p \in Callers, GetResourceTypes(p)
  PROVE  Store!ListTypes(p)
<1> DEFINE tys == {ty \in Types : IDsIn(InnerMap(resources, call[p].tenant, ty)) # {}}
<1>1. /\ pc[p] = "locked" /\ call[p].op = "types" /\ Unlock(p, Result("ok", tys))
      /\ UNCHANGED <<call, resources>>
  BY DEF GetResourceTypes, Holds
<1>2. Store!Answer(p, Result("ok", tys)) /\ Statuses[p] = "pending"
  BY <1>1, UnlockAnswers
<1>3. call[p].tenant \in Tenants
  BY <1>1, CallType DEF Calls
<1>4. tys = {ty \in Types : Store!IDsOf(call[p].tenant, ty) # {}}
  BY <1>3, IDsSame
<1>5. UNCHANGED Payloads
  BY <1>1 DEF Payloads
<1> QED BY <1>1, <1>2, <1>4, <1>5 DEF Store!ListTypes, Store!Calling

\* A list answers, one way or another, when its iteration ends, or panics.
LEMMA ListRefines ==
  ASSUME Inv, ResultInv, NEW p \in Callers, NEW kind \in {"ok", "panic"}, NEW v,
         pc[p] = "iterate", Goto(p, "returned"), kind = "panic" => v = Nil,
         result' = [result EXCEPT ![p] = Result(kind, v)],
         UNCHANGED <<resources, call>>
  PROVE  Store!List(p) \/ Store!Fail(p)
<1>1. pc'[p] = "returned" /\ pc' = [pc EXCEPT ![p] = pc'[p]]
  BY DEF Inv, TypeOK
<1>2. Results'[p] = Result(kind, v) /\ Statuses'[p] = "done"
  BY <1>1 DEF Results, Statuses, Effected, ResultInv
<1>3. /\ Statuses[p] = "pending"
      /\ Statuses' = [Statuses EXCEPT ![p] = "done"]
      /\ Results' = [Results EXCEPT ![p] = Results'[p]]
  <2>1. \A q \in Callers \ {p} : result'[q] = result[q]
    OBVIOUS
  <2> QED BY <1>1, <2>1, AnswerStep DEF Effected
<1>4. call[p].op = "list"
  BY DEF Inv, InTheMiddle
<1>5. UNCHANGED Payloads
  BY DEF Payloads
<1>6. CASE kind = "ok"
  <2>1. Results'[p] = Result("ok", Results'[p].val)
    BY <1>2, <1>6
  <2> QED BY <1>2, <1>3, <2>1, <1>4, <1>5 DEF Store!List, Store!Calling, Store!Answer
<1>7. CASE kind = "panic"
  <2>1. Store!Answer(p, Result("panic", Nil))
    BY <1>2, <1>3, <1>7 DEF Store!Answer
  <2> QED BY <1>3, <1>5, <2>1 DEF Store!Fail
<1> QED BY <1>6, <1>7

-----------------------------------------------------------------------------
(* Every step is a step of ResourceStore, or invisible.                    *)

\* The steps that stay on one side of the moment at which the call takes effect.
LEMMA InvisibleStep ==
  ASSUME Inv, ResultInv, NEW p \in Callers,
         UNCHANGED <<resources, call>>,
         pc' = [pc EXCEPT ![p] = pc'[p]],
         \A q \in Callers \ {p} : result'[q] = result[q],
         \/ /\ pc[p] \in {"waiting", "locked", "query", "iterate"}
            /\ pc'[p] \in {"locked", "write", "remove", "query", "iterate"}
            /\ result'[p] = result[p]
         \/ /\ pc[p] \in Effected
            /\ pc'[p] = "returned"
            /\ result'[p] = Results[p]
  PROVE  UNCHANGED Store!vars
<1>1. \A q \in Callers \ {p} : pc'[q] = pc[q]
  BY DEF Inv, TypeOK
<1>2. \A q \in Callers \ {p} : Statuses'[q] = Statuses[q] /\ Results'[q] = Results[q]
  BY <1>1 DEF Statuses, Results, Effected
<1>3. Statuses'[p] = Statuses[p] /\ Results'[p] = Results[p]
  BY DEF Statuses, Results, Effected
<1>4. UNCHANGED Payloads
  BY DEF Payloads
<1> QED BY <1>2, <1>3, <1>4, Stutter

LEMMA BeginRefines ==
  ASSUME Inv, ResultInv, NEW p \in Callers, Create(p) \/ Update(p) \/ Delete(p)
  PROVE  Store!Fail(p) \/ Store!Missing(p) \/ UNCHANGED Store!vars
<1>1. /\ pc[p] = "locked" /\ UNCHANGED <<call, resources>>
      /\ call[p].op \in {"create", "update", "delete"}
  BY DEF Create, Update, Delete, Holds
<1>2. \/ \E kind \in {"malformed", "error", "panic"} : Unlock(p, Result(kind, Nil))
      \/ /\ call[p].op \in {"update", "delete"} /\ resources[Slot(call[p])] = Absent
         /\ Unlock(p, Result("missing", Nil))
      \/ Continue(p, "write") \/ Continue(p, "remove")
  <2>1. CASE Create(p)
    <3>1. CreateIDFromExternalID(call[p].body).kind \in {"ok", "error", "panic"}
      BY DEF CreateIDFromExternalID, Ok, Err, Panic
    <3> QED BY <2>1, <3>1 DEF Create
  <2>2. CASE Update(p)
    BY <2>2 DEF Update, Holds
  <2>3. CASE Delete(p)
    BY <2>3 DEF Delete, Holds
  <2> QED BY <2>1, <2>2, <2>3
<1>3. CASE \E kind \in {"malformed", "error", "panic"} : Unlock(p, Result(kind, Nil))
  BY <1>1, <1>3, FailRefines
<1>4. CASE /\ call[p].op \in {"update", "delete"} /\ resources[Slot(call[p])] = Absent
           /\ Unlock(p, Result("missing", Nil))
  BY <1>1, <1>4, CallType, MissingRefines
<1>5. CASE Continue(p, "write") \/ Continue(p, "remove")
  <2>1. pc'[p] \in {"write", "remove"} /\ pc' = [pc EXCEPT ![p] = pc'[p]] /\ result' = result
    BY <1>5 DEF Continue, Inv, TypeOK
  <2> QED BY <1>1, <2>1, InvisibleStep
<1> QED BY <1>2, <1>3, <1>4, <1>5

LEMMA ParsedRefines ==
  ASSUME Inv, ResultInv, NEW p \in Callers,
         WriteParsed(p) \/ RemoveParsed(p) \/ ClearParsed(p)
  PROVE  UNCHANGED Store!vars
<1>1. /\ pc[p] \in Effected /\ UNCHANGED <<resources, call>>
      /\ pc' = [pc EXCEPT ![p] = "returned"]
      /\ result' = [result EXCEPT ![p] =
           IF pc[p] = "writeParsed" THEN Result("ok", call[p].body.data)
                                    ELSE Result("ok", Nil)]
  BY DEF WriteParsed, RemoveParsed, ClearParsed, Unlock, Effected
<1>2. pc'[p] = "returned" /\ pc' = [pc EXCEPT ![p] = pc'[p]]
  BY <1>1 DEF Inv, TypeOK
<1>3. result'[p] = Results[p] /\ \A q \in Callers \ {p} : result'[q] = result[q]
  BY <1>1 DEF Results, Effected, ResultInv
<1> QED BY <1>1, <1>2, <1>3, InvisibleStep

LEMMA QueryRefines ==
  ASSUME Inv, ResultInv, NEW p \in Callers,
         GetResources(p) \/ QueryStart(p) \/ QueryNext(p) \/ QueryEnd(p)
  PROVE  Store!List(p) \/ Store!Fail(p) \/ UNCHANGED Store!vars
<1>1. CASE GetResources(p) \/ QueryStart(p)
  <2>1. /\ pc'[p] \in {"query", "iterate"} /\ pc' = [pc EXCEPT ![p] = pc'[p]]
        /\ UNCHANGED <<resources, call, result>> /\ pc[p] \in {"locked", "query"}
    BY <1>1 DEF GetResources, QueryStart, Holds, Inv, TypeOK
  <2> QED BY <2>1, InvisibleStep
<1>2. CASE QueryNext(p)
  <2>1. \/ \E kind \in {"ok", "panic"} :
             /\ pc[p] = "iterate" /\ Goto(p, "returned")
             /\ result' = [result EXCEPT ![p] = Result(kind, Nil)]
             /\ UNCHANGED <<resources, call>>
        \/ UNCHANGED <<resources, call, result, pc>>
    BY <1>2 DEF QueryNext
  <2>2. CASE UNCHANGED <<resources, call, result, pc>>
    BY <2>2, Stutter DEF Statuses, Results, Payloads
  <2> QED BY <2>1, <2>2, ListRefines
<1>3. CASE QueryEnd(p)
  BY <1>3, ListRefines DEF QueryEnd
<1> QED BY <1>1, <1>2, <1>3

LEMMA StepRefines == Inv /\ ResultInv /\ [Next]_vars => [Store!Next]_Store!vars
<1> SUFFICES ASSUME Inv, ResultInv, [Next]_vars PROVE [Store!Next]_Store!vars
  OBVIOUS
<1>1. CASE UNCHANGED vars
  BY <1>1, Stutter DEF vars, Statuses, Results, Payloads
<1>2. CASE Next
  <2>1. PICK p \in Callers :
          Invoke(p) \/ Acquire(p) \/ Locked(p) \/ Unlocked(p) \/ QueryRace(p) \/ Return(p)
    BY <1>2 DEF Next
  <2>2. CASE Invoke(p)
    BY <2>2, InvokeRefines DEF Store!Next
  <2>3. CASE Return(p)
    BY <2>3, ReturnRefines DEF Store!Next
  <2>4. CASE Acquire(p)
    <3>1. /\ pc'[p] = "locked" /\ pc' = [pc EXCEPT ![p] = pc'[p]] /\ pc[p] = "waiting"
          /\ UNCHANGED <<resources, call, result>>
      BY <2>4 DEF Acquire, Inv, TypeOK
    <3> QED BY <3>1, InvisibleStep
  <2>5. CASE QueryRace(p)
    BY <2>5, Stutter DEF QueryRace, Statuses, Results, Payloads
  <2>6. CASE Create(p) \/ Update(p) \/ Delete(p)
    BY <2>6, BeginRefines DEF Store!Next
  <2>7. CASE WriteResource(p)
    BY <2>7, WriteRefines DEF Store!Next
  <2>8. CASE RemoveResource(p)
    BY <2>8, RemoveRefines DEF Store!Next
  <2>9. CASE Clear(p)
    BY <2>9, ClearRefines DEF Store!Next
  <2>10. CASE WriteParsed(p) \/ RemoveParsed(p) \/ ClearParsed(p)
    BY <2>10, ParsedRefines
  <2>11. CASE GetResource(p)
    BY <2>11, GetRefines DEF Store!Next
  <2>12. CASE GetParsedResource(p)
    BY <2>12, GetParsedRefines DEF Store!Next
  <2>13. CASE CountResources(p)
    BY <2>13, CountRefines DEF Store!Next
  <2>14. CASE GetResourceTypes(p)
    BY <2>14, TypesRefines DEF Store!Next
  <2>15. CASE GetResources(p) \/ Unlocked(p)
    BY <2>15, QueryRefines DEF Unlocked, Store!Next
  <2> QED
    BY <2>1, <2>2, <2>3, <2>4, <2>5, <2>6, <2>7, <2>8, <2>9, <2>10, <2>11, <2>12,
       <2>13, <2>14, <2>15 DEF Locked
<1> QED BY <1>1, <1>2

\* Every call of a Backend method takes effect at one moment between its call
\* and its return, or has no effect, whatever the other goroutines do.
THEOREM Refinement == Spec => ImplementsStore
<1>1. Init => Inv /\ ResultInv
  BY InitInv DEF Init, ResultInv
<1>2. Inv /\ ResultInv /\ [Next]_vars => (Inv /\ ResultInv)'
  BY NextInv, ResultStep
<1>3. Spec => [](Inv /\ ResultInv)
  BY <1>1, <1>2, PTL DEF Spec
<1>4. Spec => Store!Init
  BY InitRefines DEF Spec
<1> QED BY <1>3, <1>4, StepRefines, PTL DEF Spec, ImplementsStore, Store!Spec
=============================================================================
