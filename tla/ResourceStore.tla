--------------------------- MODULE ResourceStore ---------------------------
(***************************************************************************)
(* What scimserverlite.Backend promises its callers: a store of resources  *)
(* per tenant and resource type on which every call takes effect at one    *)
(* moment between its invocation and its return, or fails and has no       *)
(* effect at all. InMemoryBackend is shown to implement it. (SQLStore says *)
(* what the SQL backend promises.)                                         *)
(*                                                                         *)
(* A create overwrites an existing resource. A list is only promised to    *)
(* leave the store alone.                                                  *)
(***************************************************************************)
EXTENDS SS12000, FiniteSets

CONSTANTS Callers, Tenants, Types, Requests, Absent

VARIABLES
  store,    \* the payload of each resource, or Absent
  call,     \* each caller's call, or Nil
  status,   \* "idle", "pending" (no effect yet) or "done"
  result    \* what each caller's call returns, once it is done

vars == <<store, call, status, result>>

Slots == Tenants \X Types \X IDs

Result(kind, v) == [kind |-> kind, val |-> v]

\* Where a call writes: a created resource is known by its externalId.
Slot(c) ==
  <<c.tenant, c.type,
    IF c.op = "create" THEN CreateIDFromExternalID(c.body).val ELSE c.id>>

Init ==
  /\ store \in [Slots -> Data \cup {Absent}]
  /\ call = [p \in Callers |-> Nil]
  /\ status = [p \in Callers |-> "idle"]
  /\ result = [p \in Callers |-> Nil]

Invoke(p) ==
  /\ status[p] = "idle"
  /\ \E c \in Requests : call' = [call EXCEPT ![p] = c]
  /\ status' = [status EXCEPT ![p] = "pending"]
  /\ UNCHANGED <<store, result>>

Calling(p, op) == status[p] = "pending" /\ call[p].op = op

Answer(p, r) ==
  /\ status' = [status EXCEPT ![p] = "done"]
  /\ result' = [result EXCEPT ![p] = r]
  /\ UNCHANGED call

Create(p) ==
  /\ Calling(p, "create")
  /\ Slot(call[p]) \in Slots
  /\ store' = [store EXCEPT ![Slot(call[p])] = call[p].body.data]
  /\ Answer(p, Result("ok", call[p].body.data))

Update(p) ==
  /\ Calling(p, "update")
  /\ store[Slot(call[p])] # Absent
  /\ store' = [store EXCEPT ![Slot(call[p])] = call[p].body.data]
  /\ Answer(p, Result("ok", call[p].body.data))

Delete(p) ==
  /\ Calling(p, "delete")
  /\ store[Slot(call[p])] # Absent
  /\ store' = [store EXCEPT ![Slot(call[p])] = Absent]
  /\ Answer(p, Result("ok", Nil))

Missing(p) ==
  /\ \E op \in {"update", "delete", "get", "getParsed"} : Calling(p, op)
  /\ store[Slot(call[p])] = Absent
  /\ Answer(p, Result("missing", Nil))
  /\ UNCHANGED store

Clear(p) ==
  /\ Calling(p, "clear")
  /\ store' = [s \in Slots |-> IF s[1] = call[p].tenant THEN Absent ELSE store[s]]
  /\ Answer(p, Result("ok", Nil))

Get(p) ==
  /\ Calling(p, "get")
  /\ store[Slot(call[p])] # Absent
  /\ Answer(p, Result("ok", store[Slot(call[p])]))
  /\ UNCHANGED store

\* The parsed form is that of the stored resource, or nil if it has none.
GetParsed(p) ==
  /\ Calling(p, "getParsed")
  /\ store[Slot(call[p])] # Absent
  /\ \E v \in {store[Slot(call[p])], Nil} : Answer(p, Result("ok", v))
  /\ UNCHANGED store

IDsOf(t, ty) == {id \in IDs : store[<<t, ty, id>>] # Absent}

Count(p) ==
  /\ Calling(p, "count")
  /\ Answer(p, Result("ok", Cardinality(IDsOf(call[p].tenant, call[p].type))))
  /\ UNCHANGED store

ListTypes(p) ==
  /\ Calling(p, "types")
  /\ Answer(p, Result("ok", {ty \in Types : IDsOf(call[p].tenant, ty) # {}}))
  /\ UNCHANGED store

List(p) ==
  /\ Calling(p, "list")
  /\ status'[p] = "done"
  /\ Answer(p, Result("ok", result'[p].val))
  /\ UNCHANGED store

\* A call may fail for reasons of its own, and then leaves the store alone.
Fail(p) ==
  /\ status[p] = "pending"
  /\ \E kind \in {"malformed", "error", "panic"} : Answer(p, Result(kind, Nil))
  /\ UNCHANGED store

Return(p) ==
  /\ status[p] = "done"
  /\ status' = [status EXCEPT ![p] = "idle"]
  /\ call' = [call EXCEPT ![p] = Nil]
  /\ result' = [result EXCEPT ![p] = Nil]
  /\ UNCHANGED store

Next ==
  \E p \in Callers :
    \/ Invoke(p) \/ Create(p)    \/ Update(p) \/ Delete(p) \/ Missing(p)
    \/ Clear(p)  \/ Get(p)       \/ GetParsed(p)
    \/ Count(p)  \/ ListTypes(p) \/ List(p)   \/ Fail(p)   \/ Return(p)

Spec == Init /\ [][Next]_vars
=============================================================================
