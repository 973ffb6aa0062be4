-------------------------- MODULE InMemoryBackend --------------------------
(***************************************************************************)
(* scimserverlite.InMemoryBackend (storage type "file"), called by         *)
(* concurrent goroutines: HTTP handlers and extensions.                    *)
(*                                                                         *)
(* Every method takes the mutex, but GetResources returns the live inner   *)
(* map, which genericSCIMHandler then measures and iterates without it     *)
(* (writeQueryResponse). A write to a Go map is therefore two steps, with  *)
(* the window in between in which such an iteration races with it: the     *)
(* runtime may detect the race and kill the process, or the iteration may  *)
(* read the old value, the new one, or a torn one.                         *)
(***************************************************************************)
EXTENDS SS12000, Integers, FiniteSets

CONSTANTS
  Callers,    \* goroutines that use the backend
  Tenants,
  Types,      \* resource types as taken from URLs, known or not
  Requests,   \* the calls that callers make
  Files,      \* the contents the storage file may have at start
  Absent,     \* no resource under an ID
  Free,       \* the mutex is not held
  Live,       \* an iterated map is still the one in resources
  Torn        \* a string read while it is being written

Ops == {"create", "update", "delete", "clear", "get", "getParsed",
        "count", "types", "list"}

\* The arguments of a call; an operation ignores those it does not have.
Calls == [op : Ops, tenant : Tenants, type : Types, id : IDs, body : Bodies]

\* resources[tenant][type][id] in the code is resources[<<tenant, type, id>>].
Slots == Tenants \X Types \X IDs

Stored == Bodies \cup {Absent}

ASSUME BackendAssumption ==
  /\ IsFiniteSet(IDs)
  /\ Requests \subseteq Calls
  /\ Files \subseteq [resources : [Slots -> Stored], made : SUBSET (Tenants \X Types)]
  /\ Absent \notin Bodies \cup Data \cup Objects \cup {Nil}
  /\ Nil \notin Bodies \cup Data \cup Objects
  /\ Free \notin Callers
  /\ Live \notin [IDs -> Stored]
  /\ Torn \notin Stored

VARIABLES
  resources,  \* backend.resources
  parsed,     \* backend.parsed
  made,       \* the <<tenant, type>> for which an inner map has been made
  lock,       \* backend.lock: its holder or Free
  pc,         \* where each caller is
  call,       \* each caller's call, or Nil
  result,     \* what each caller's call returns, once known
  it,         \* each caller's iteration over a map
  fatal       \* the Go runtime has killed the process

vars == <<resources, parsed, made, lock, pc, call, result, it, fatal>>

Result(kind, v) == [kind |-> kind, val |-> v]

\* The resource a call is about: a created one is known by its externalId.
Slot(c) ==
  <<c.tenant, c.type,
    IF c.op = "create" THEN CreateIDFromExternalID(c.body).val ELSE c.id>>

\* The inner map of a tenant and a type.
InnerMap(res, t, ty) == [id \in IDs |-> res[<<t, ty, id>>]]
IDsIn(m) == {id \in IDs : m[id] # Absent}

NoIteration ==
  [total |-> 0, must |-> {}, out |-> [id \in IDs |-> Absent], frozen |-> Live]

-----------------------------------------------------------------------------
(* Load, at start: it ignores the errors of the parser, and keeps nil.     *)

ParsedOf(ty, r) ==
  IF r = Absent THEN Absent
  ELSE LET p == validatingObjectParser(ty, r) IN IF p.kind = "ok" THEN p.val ELSE Nil

Load(file) ==
  /\ \A s \in Slots : file.resources[s] # Absent =>
       /\ <<s[1], s[2]>> \in file.made
       /\ validatingObjectParser(s[2], file.resources[s]).kind # "panic"
  /\ resources = file.resources
  /\ parsed = [s \in Slots |-> ParsedOf(s[2], file.resources[s])]
  /\ made = file.made

Init ==
  /\ \E file \in Files : Load(file)
  /\ lock = Free
  /\ pc = [p \in Callers |-> "idle"]
  /\ call = [p \in Callers |-> Nil]
  /\ result = [p \in Callers |-> Nil]
  /\ it = [p \in Callers |-> NoIteration]
  /\ fatal = FALSE

-----------------------------------------------------------------------------
Goto(p, l) == pc' = [pc EXCEPT ![p] = l]

Invoke(p) ==
  /\ pc[p] = "idle"
  /\ \E c \in Requests : call' = [call EXCEPT ![p] = c]
  /\ Goto(p, "waiting")
  /\ UNCHANGED <<resources, parsed, made, lock, result, it, fatal>>

\* backend.lock.Lock()
Acquire(p) ==
  /\ pc[p] = "waiting"
  /\ lock = Free
  /\ lock' = p
  /\ Goto(p, "locked")
  /\ UNCHANGED <<resources, parsed, made, call, result, it, fatal>>

Holds(p, op) == pc[p] = "locked" /\ call[p].op = op

\* The deferred Unlock, on return and on panic alike.
Unlock(p, r) ==
  /\ lock' = Free
  /\ result' = [result EXCEPT ![p] = r]
  /\ Goto(p, "returned")

\* Go on under the lock.
Continue(p, l) == Goto(p, l) /\ UNCHANGED <<lock, result>>

\* Slip: the inner maps are not made.
CreateUnmade(p) ==
  LET c   == call[p]
      gen == CreateIDFromExternalID(c.body)
      obj == validatingObjectParser(c.type, c.body)
  IN  /\ Holds(p, "create")
      /\ \/ gen.kind # "ok" /\ Unlock(p, Result(gen.kind, Nil))
         \/ gen.kind = "ok" /\ obj.kind = "panic" /\ Unlock(p, Result("panic", Nil))
         \/ gen.kind = "ok" /\ obj.kind = "error" /\ Unlock(p, Result("malformed", Nil))
         \/ gen.kind = "ok" /\ obj.kind = "ok" /\ Continue(p, "write")
      /\ UNCHANGED <<resources, parsed, made, call, it, fatal>>

Create(p) ==
  LET c   == call[p]
      gen == CreateIDFromExternalID(c.body)
      obj == validatingObjectParser(c.type, c.body)
  IN  /\ Holds(p, "create")
      /\ made' = made \cup {<<c.tenant, c.type>>}
      /\ \/ gen.kind # "ok" /\ Unlock(p, Result(gen.kind, Nil))
         \/ gen.kind = "ok" /\ obj.kind = "panic" /\ Unlock(p, Result("panic", Nil))
         \/ gen.kind = "ok" /\ obj.kind = "error" /\ Unlock(p, Result("malformed", Nil))
         \/ gen.kind = "ok" /\ obj.kind = "ok" /\ Continue(p, "write")
      /\ UNCHANGED <<resources, parsed, call, it, fatal>>

\* Slip: an update of what does not exist creates it.
UpdateUnchecked(p) ==
  LET obj == validatingObjectParser(call[p].type, call[p].body)
  IN  /\ Holds(p, "update")
      /\ \/ obj.kind = "panic" /\ Unlock(p, Result("panic", Nil))
         \/ obj.kind = "error" /\ Unlock(p, Result("malformed", Nil))
         \/ obj.kind = "ok" /\ Continue(p, "write")
      /\ UNCHANGED <<resources, parsed, made, call, it, fatal>>

Update(p) ==
  LET c   == call[p]
      obj == validatingObjectParser(c.type, c.body)
  IN  /\ Holds(p, "update")
      /\ \/ obj.kind = "panic" /\ Unlock(p, Result("panic", Nil))
         \/ obj.kind = "error" /\ Unlock(p, Result("malformed", Nil))
         \/ obj.kind = "ok" /\ resources[Slot(c)] = Absent
            /\ Unlock(p, Result("missing", Nil))
         \/ obj.kind = "ok" /\ resources[Slot(c)] # Absent /\ Continue(p, "write")
      /\ UNCHANGED <<resources, parsed, made, call, it, fatal>>

\* Slip: an early return without Unlock.
DeleteLeaky(p) ==
  /\ Holds(p, "delete")
  /\ IF resources[Slot(call[p])] = Absent
     THEN /\ result' = [result EXCEPT ![p] = Result("missing", Nil)]
          /\ Goto(p, "returned")
          /\ UNCHANGED lock
     ELSE Continue(p, "remove")
  /\ UNCHANGED <<resources, parsed, made, call, it, fatal>>

\* Slip: a delete of what does not exist succeeds.
DeleteUnchecked(p) ==
  /\ Holds(p, "delete")
  /\ Continue(p, "remove")
  /\ UNCHANGED <<resources, parsed, made, call, it, fatal>>

Delete(p) ==
  /\ Holds(p, "delete")
  /\ IF resources[Slot(call[p])] = Absent THEN Unlock(p, Result("missing", Nil))
                                          ELSE Continue(p, "remove")
  /\ UNCHANGED <<resources, parsed, made, call, it, fatal>>

-----------------------------------------------------------------------------
(* The writes of Create, Update and Delete. An iteration over the live     *)
(* map need no longer produce an entry that is deleted.                    *)

Iterating(q, t, ty) ==
  /\ pc[q] \in {"query", "iterate"}
  /\ call[q].tenant = t /\ call[q].type = ty
  /\ it[q].frozen = Live

Observe(q, s, res) ==
  IF Iterating(q, s[1], s[2])
  THEN [it[q] EXCEPT !.must = IF res[s] = Absent THEN @ \ {s[3]} ELSE @]
  ELSE it[q]

\* backend.resources[tenant][resourceType][resourceID] = resource
WriteResource(p) ==
  LET s == Slot(call[p]) IN
  /\ pc[p] = "write"
  /\ resources' = [resources EXCEPT ![s] = call[p].body]
  /\ it' = [q \in Callers |-> Observe(q, s, resources')]
  /\ Goto(p, "writeParsed")
  /\ UNCHANGED <<parsed, made, lock, call, result, fatal>>

\* Slip: the resource itself is stored as its parsed form.
WriteParsedRaw(p) ==
  /\ pc[p] = "writeParsed"
  /\ parsed' = [parsed EXCEPT ![Slot(call[p])] = call[p].body]
  /\ Unlock(p, Result("ok", call[p].body.data))
  /\ UNCHANGED <<resources, made, call, it, fatal>>

WriteParsed(p) ==
  /\ pc[p] = "writeParsed"
  /\ parsed' = [parsed EXCEPT ![Slot(call[p])] =
                  validatingObjectParser(call[p].type, call[p].body).val]
  /\ Unlock(p, Result("ok", call[p].body.data))
  /\ UNCHANGED <<resources, made, call, it, fatal>>

\* delete(backend.resources[tenant][resourceType], resourceID)
RemoveResource(p) ==
  LET s == Slot(call[p]) IN
  /\ pc[p] = "remove"
  /\ resources' = [resources EXCEPT ![s] = Absent]
  /\ it' = [q \in Callers |-> Observe(q, s, resources')]
  /\ Goto(p, "removeParsed")
  /\ UNCHANGED <<parsed, made, lock, call, result, fatal>>

\* Slip: the parsed form stays behind.
RemoveParsedNot(p) ==
  /\ pc[p] = "removeParsed"
  /\ Unlock(p, Result("ok", Nil))
  /\ UNCHANGED <<resources, parsed, made, call, it, fatal>>

RemoveParsed(p) ==
  /\ pc[p] = "removeParsed"
  /\ parsed' = [parsed EXCEPT ![Slot(call[p])] = Absent]
  /\ Unlock(p, Result("ok", Nil))
  /\ UNCHANGED <<resources, made, call, it, fatal>>

-----------------------------------------------------------------------------
(* Clear replaces both maps of the tenant; an iteration keeps the old one. *)

Detach(q, t) ==
  IF pc[q] \in {"query", "iterate"} /\ Iterating(q, t, call[q].type)
  THEN [it[q] EXCEPT !.frozen = InnerMap(resources, t, call[q].type)]
  ELSE it[q]

\* Slip: the resources of all tenants go.
ClearAll(p) ==
  /\ Holds(p, "clear")
  /\ resources' = [s \in Slots |-> Absent]
  /\ made' = {}
  /\ it' = [q \in Callers |-> Detach(q, call[p].tenant)]
  /\ Continue(p, "clearParsed")
  /\ UNCHANGED <<parsed, call, fatal>>

Clear(p) ==
  LET t == call[p].tenant IN
  /\ Holds(p, "clear")
  /\ resources' = [s \in Slots |-> IF s[1] = t THEN Absent ELSE resources[s]]
  /\ made' = {k \in made : k[1] # t}
  /\ it' = [q \in Callers |-> Detach(q, t)]
  /\ Continue(p, "clearParsed")
  /\ UNCHANGED <<parsed, call, fatal>>

\* Slip: the parsed forms stay behind.
ClearParsedNot(p) ==
  /\ pc[p] = "clearParsed"
  /\ Unlock(p, Result("ok", Nil))
  /\ UNCHANGED <<resources, parsed, made, call, it, fatal>>

ClearParsed(p) ==
  /\ pc[p] = "clearParsed"
  /\ parsed' = [s \in Slots |-> IF s[1] = call[p].tenant THEN Absent ELSE parsed[s]]
  /\ Unlock(p, Result("ok", Nil))
  /\ UNCHANGED <<resources, made, call, it, fatal>>

-----------------------------------------------------------------------------
(* Reads under the lock.                                                   *)

GetResource(p) ==
  LET r == resources[Slot(call[p])] IN
  /\ Holds(p, "get")
  /\ Unlock(p, IF r = Absent THEN Result("missing", Nil) ELSE Result("ok", r.data))
  /\ UNCHANGED <<resources, parsed, made, call, it, fatal>>

\* Slip: an early return without Unlock.
GetParsedResourceLeaky(p) ==
  LET o == parsed[Slot(call[p])] IN
  /\ Holds(p, "getParsed")
  /\ IF o = Absent
     THEN /\ result' = [result EXCEPT ![p] = Result("missing", Nil)]
          /\ Goto(p, "returned")
          /\ UNCHANGED lock
     ELSE Unlock(p, Result("ok", IF o = Nil THEN Nil ELSE o.data))
  /\ UNCHANGED <<resources, parsed, made, call, it, fatal>>

GetParsedResource(p) ==
  LET o == parsed[Slot(call[p])] IN
  /\ Holds(p, "getParsed")
  /\ Unlock(p, IF o = Absent THEN Result("missing", Nil)
               ELSE Result("ok", IF o = Nil THEN Nil ELSE o.data))
  /\ UNCHANGED <<resources, parsed, made, call, it, fatal>>

CountResources(p) ==
  /\ Holds(p, "count")
  /\ Unlock(p, Result("ok",
       Cardinality(IDsIn(InnerMap(resources, call[p].tenant, call[p].type)))))
  /\ UNCHANGED <<resources, parsed, made, call, it, fatal>>

GetResourceTypes(p) ==
  /\ Holds(p, "types")
  /\ Unlock(p, Result("ok",
       {ty \in Types : IDsIn(InnerMap(resources, call[p].tenant, ty)) # {}}))
  /\ UNCHANGED <<resources, parsed, made, call, it, fatal>>

-----------------------------------------------------------------------------
(* A list: GetResources returns the inner map itself, or a new empty map   *)
(* if there is none, and the rest happens without the lock.                *)

\* Slip: the lock is kept for the iteration, and not given back.
GetResourcesLeaky(p) ==
  /\ Holds(p, "list")
  /\ it' = [it EXCEPT ![p] = NoIteration]
  /\ Goto(p, "query")
  /\ UNCHANGED <<resources, parsed, made, lock, call, result, fatal>>

GetResources(p) ==
  LET c == call[p]
      m == InnerMap(resources, c.tenant, c.type)
  IN  /\ Holds(p, "list")
      /\ it' = [it EXCEPT ![p] =
                 [NoIteration EXCEPT
                   !.frozen = IF <<c.tenant, c.type>> \in made THEN Live ELSE m]]
      /\ lock' = Free
      /\ Goto(p, "query")
      /\ UNCHANGED <<resources, parsed, made, call, result, fatal>>

Iterated(p) ==
  IF it[p].frozen = Live THEN InnerMap(resources, call[p].tenant, call[p].type)
                         ELSE it[p].frozen

\* response.TotalResults = len(resources), and the start of the range loop.
QueryStart(p) ==
  /\ pc[p] = "query"
  /\ it' = [it EXCEPT ![p].total = Cardinality(IDsIn(Iterated(p))),
                      ![p].must = IDsIn(Iterated(p))]
  /\ Goto(p, "iterate")
  /\ UNCHANGED <<resources, parsed, made, lock, call, result, fatal>>

\* Callers in the middle of a write to the map that p is iterating over.
Racing(p) ==
  {q \in Callers : /\ pc[q] \in {"write", "remove"}
                   /\ Iterating(p, call[q].tenant, call[q].type)}

\* What the iteration may read under an ID: during a write of that entry
\* also the value being written, or a torn one.
Readable(p, id) ==
  LET writers == {q \in Racing(p) : Slot(call[q])[3] = id}
  IN  {v \in {Iterated(p)[id]} : v # Absent}
      \cup {call[q].body : q \in {w \in writers : pc[w] = "write"}}
      \cup (IF writers # {} THEN {Torn} ELSE {})

\* json.Unmarshal rejects a torn resource, and some that an update of an unknown
\* type has stored; null it makes a nil map, to which the id cannot be assigned.
Decoded(v) ==
  CASE v = Torn -> "error"
    [] v # Torn /\ v.json = "object" -> "ok"
    [] v # Torn /\ v.json = "null" -> "panic"
    [] OTHER -> "error"

\* One turn of the loop, in no particular order. An error ends the loop, and the
\* handler ignores it: the response has no body.
QueryNext(p) ==
  /\ pc[p] = "iterate"
  /\ \E id \in IDs :
       /\ it[p].out[id] = Absent
       /\ \E v \in Readable(p, id) :
            \/ /\ Decoded(v) = "ok"
               /\ it' = [it EXCEPT ![p].out[id] = v]
               /\ UNCHANGED <<result, pc>>
            \/ /\ Decoded(v) # "ok"
               /\ result' = [result EXCEPT ![p] =
                    Result(IF Decoded(v) = "panic" THEN "panic" ELSE "ok", Nil)]
               /\ Goto(p, "returned")
               /\ UNCHANGED it
  /\ UNCHANGED <<resources, parsed, made, lock, call, fatal>>

\* The loop has produced every entry that was there all along; it may or may
\* not produce those added meanwhile.
QueryEnd(p) ==
  /\ pc[p] = "iterate"
  /\ it[p].must \subseteq IDsIn(it[p].out)
  /\ result' = [result EXCEPT ![p] = Result("ok", it[p].out)]
  /\ Goto(p, "returned")
  /\ UNCHANGED <<resources, parsed, made, lock, call, it, fatal>>

\* fatal error: concurrent map iteration and map write
QueryRace(p) ==
  /\ pc[p] = "iterate"
  /\ Racing(p) # {}
  /\ fatal' = TRUE
  /\ UNCHANGED <<resources, parsed, made, lock, pc, call, result, it>>

Return(p) ==
  /\ pc[p] = "returned"
  /\ Goto(p, "idle")
  /\ call' = [call EXCEPT ![p] = Nil]
  /\ result' = [result EXCEPT ![p] = Nil]
  /\ it' = [it EXCEPT ![p] = NoIteration]
  /\ UNCHANGED <<resources, parsed, made, lock, fatal>>

-----------------------------------------------------------------------------
Locked(p) ==
  \/ Create(p) \/ Update(p) \/ Delete(p) \/ Clear(p)
  \/ WriteResource(p) \/ WriteParsed(p) \/ RemoveResource(p) \/ RemoveParsed(p)
  \/ ClearParsed(p)
  \/ GetResource(p) \/ GetParsedResource(p) \/ CountResources(p)
  \/ GetResourceTypes(p) \/ GetResources(p)

Unlocked(p) == QueryStart(p) \/ QueryNext(p) \/ QueryEnd(p)

Next ==
  /\ ~fatal
  /\ \E p \in Callers :
       \/ Invoke(p) \/ Acquire(p) \/ Locked(p) \/ Unlocked(p) \/ QueryRace(p)
       \/ Return(p)

\* The scheduler runs every runnable goroutine, and a sync.Mutex hands itself
\* to a waiter that has starved for a millisecond. Nobody has to make a call.
Fairness ==
  \A p \in Callers :
    /\ WF_vars(~fatal /\ (Locked(p) \/ Unlocked(p) \/ Return(p)))
    /\ SF_vars(~fatal /\ Acquire(p))

Spec == Init /\ [][Next]_vars /\ Fairness

-----------------------------------------------------------------------------
(* Properties.                                                             *)

Inside == {"locked", "write", "writeParsed", "remove", "removeParsed", "clearParsed"}
Places == Inside \cup {"idle", "waiting", "query", "iterate", "returned"}

Iterations ==
  [total : Nat, must : SUBSET IDs, out : [IDs -> Stored],
   frozen : [IDs -> Stored] \cup {Live}]

\* Type correctness of the backend's fields and of its callers' local state.
TypeOK ==
  /\ resources \in [Slots -> Stored]
  /\ parsed \in [Slots -> Objects \cup {Nil, Absent}]
  /\ made \subseteq Tenants \X Types
  /\ lock \in Callers \cup {Free}
  /\ pc \in [Callers -> Places]
  /\ call \in [Callers -> Requests \cup {Nil}]
  /\ \A p \in Callers : pc[p] # "idle" => call[p] \in Requests
  /\ it \in [Callers -> Iterations]
  /\ fatal \in BOOLEAN

\* backend.lock is held by exactly the goroutine between Lock() and the
\* deferred Unlock(), on every path out of a method, panics included; and a
\* goroutine reaches the assignments of a method only with arguments that its
\* checks have let through.
LockDiscipline ==
  /\ \A p \in Callers : pc[p] \in Inside <=> lock = p
  /\ \A p \in Callers :
       pc[p] \in {"write", "writeParsed"} =>
         /\ Slot(call[p]) \in Slots
         /\ validatingObjectParser(call[p].type, call[p].body).kind = "ok"

\* resources and parsed are separate maps that every method updates one after
\* the other: whenever the mutex is free, parsed holds for each resource what
\* the parser makes of it, and nothing else (a resource that Load could not
\* parse has nil).
ParsedMirrors ==
  lock = Free => \A s \in Slots : parsed[s] = ParsedOf(s[2], resources[s])

\* No goroutine writes to an inner map that has not been made: an assignment
\* to a nil map panics. Update relies on getResource for it, Create makes it.
NoNilMapWrite ==
  \A p \in Callers :
    pc[p] \in {"write", "writeParsed"} => <<call[p].tenant, call[p].type>> \in made

-----------------------------------------------------------------------------
(* The invariant that the above rest on.                                   *)

\* What a goroutine is in the middle of.
InTheMiddle ==
  \A p \in Callers :
    /\ pc[p] \in {"write", "writeParsed"} => call[p].op \in {"create", "update"}
    /\ pc[p] \in {"remove", "removeParsed"} => call[p].op = "delete"
    /\ pc[p] = "clearParsed" => call[p].op = "clear"
    /\ pc[p] \in {"query", "iterate"} => call[p].op = "list"
    /\ pc[p] = "write" /\ call[p].op = "update" => resources[Slot(call[p])] # Absent
    /\ pc[p] = "writeParsed" => resources[Slot(call[p])] = call[p].body
    /\ pc[p] = "remove" => resources[Slot(call[p])] # Absent
    /\ pc[p] = "removeParsed" => resources[Slot(call[p])] = Absent
    /\ pc[p] = "clearParsed" =>
         \A s \in Slots : s[1] = call[p].tenant => resources[s] = Absent

\* p has changed the resource s and is about to change its parsed form.
HalfDone(p, s) ==
  \/ pc[p] \in {"writeParsed", "removeParsed"} /\ Slot(call[p]) = s
  \/ pc[p] = "clearParsed" /\ call[p].tenant = s[1]

Inv ==
  /\ TypeOK
  /\ LockDiscipline
  /\ InTheMiddle
  /\ \A s \in Slots : parsed[s] = ParsedOf(s[2], resources[s])
                      \/ \E p \in Callers : HalfDone(p, s)
  /\ \A s \in Slots : resources[s] # Absent => <<s[1], s[2]>> \in made
  /\ NoNilMapWrite

\* Every call of a method returns, with the lock released, whatever the other
\* goroutines do, unless the runtime kills the process.
EveryCallReturns ==
  \A p \in Callers : pc[p] = "waiting" ~> (pc[p] = "returned" \/ fatal)

-----------------------------------------------------------------------------
(* The backend implements ResourceStore: a call takes effect in the step   *)
(* that writes resources, even though parsed follows later.                *)

Effected == {"writeParsed", "removeParsed", "clearParsed"}

Statuses ==
  [p \in Callers |->
     IF pc[p] = "idle" THEN "idle"
     ELSE IF pc[p] \in Effected \cup {"returned"} THEN "done" ELSE "pending"]

Results ==
  [p \in Callers |->
     IF pc[p] = "writeParsed" THEN Result("ok", call[p].body.data)
     ELSE IF pc[p] \in Effected THEN Result("ok", Nil) ELSE result[p]]

Payloads == [s \in Slots |-> IF resources[s] = Absent THEN Absent ELSE resources[s].data]

Store == INSTANCE ResourceStore WITH
  store <- Payloads,
  status <- Statuses,
  result <- Results

\* Each call is atomic, and a failing one has no effect.
ImplementsStore == Store!Spec

-----------------------------------------------------------------------------
(* What comments in the code say, and the code does not do.                *)

\* "GetResources returns all resources for a type" (inmemory.go): the list that
\* is written from its result has as many resources as its totalResults says.
ListIsComplete ==
  \A p \in Callers :
    pc[p] = "returned" /\ call[p].op = "list" /\ result[p].val # Nil =>
      it[p].total = Cardinality(IDsIn(result[p].val))
=============================================================================
