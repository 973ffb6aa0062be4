------------------------------ MODULE SQLStore ------------------------------
(***************************************************************************)
(* What SQLBackend is as a whole where transactions are serializable: a    *)
(* store of resources on which every call takes effect at one moment       *)
(* between its invocation and its return, or fails and has no effect.      *)
(*                                                                         *)
(* A resource is a row and the rows of child tables. The two are apart,    *)
(* because not every connection enforces foreign keys: child rows can be   *)
(* left, or written, without a row, join the next resource with that ID,   *)
(* and turn up in a list at an object that happens to come first. And an   *)
(* update is about the ID in the URL when it looks, and about that in the  *)
(* body when it writes.                                                    *)
(***************************************************************************)
EXTENDS SS12000, FiniteSets

CONSTANTS Callers, Tenants, Types, Requests, Absent, ChildTables

VARIABLES
  store,    \* the row and the child rows of each resource
  call,     \* each caller's call, or Nil
  status,   \* "idle", "pending" (no effect yet) or "done"
  result    \* what each caller's call returns, once it is done

vars == <<store, call, status, result>>

Slots == Tenants \X Types \X IDs
Nothing == [row |-> Absent, sub |-> [t \in ChildTables |-> {}]]

Result(kind, v) == [kind |-> kind, val |-> v]

URLSlot(c)  == <<c.tenant, c.type, c.id>>
BodySlot(c) == <<c.tenant, c.type, c.body.id>>

Exists(s) == store[s].row # Absent

Init ==
  /\ store = [s \in Slots |-> Nothing]
  /\ call = [p \in Callers |-> Nil]
  /\ status = [p \in Callers |-> "idle"]
  /\ result = [p \in Callers |-> Nil]

Invoke(p) ==
  /\ status[p] = "idle"
  /\ \E c \in Requests : call' = [call EXCEPT ![p] = c]
  /\ status' = [status EXCEPT ![p] = "pending"]
  /\ UNCHANGED <<store, result>>

Calling(p, op) == status[p] = "pending" /\ call[p].op = op

Answer(p, r) ==
  /\ status' = [status EXCEPT ![p] = "done"]
  /\ result' = [result EXCEPT ![p] = r]
  /\ UNCHANGED call

\* Child rows that are there already stay.
Created(r, d) == [d EXCEPT !.sub = [t \in ChildTables |-> r.sub[t] \cup d.sub[t]]]

Create(p) ==
  /\ Calling(p, "create")
  /\ ~Exists(BodySlot(call[p]))
  /\ store' = [store EXCEPT ![BodySlot(call[p])] = Created(@, call[p].body.data)]
  /\ Answer(p, Result("ok", call[p].body.data))

Conflict(p) ==
  /\ Calling(p, "create")
  /\ Exists(BodySlot(call[p]))
  /\ Answer(p, Result("conflict", Nil))
  /\ UNCHANGED store

\* All child rows are replaced, the row only if there is one.
Updated(r, d) == IF r.row = Absent THEN [d EXCEPT !.row = Absent] ELSE d

Update(p) ==
  /\ Calling(p, "update")
  /\ Exists(URLSlot(call[p]))
  /\ store' = [store EXCEPT ![BodySlot(call[p])] = Updated(@, call[p].body.data)]
  /\ Answer(p, Result("ok", call[p].body.data))

\* What is left of a resource: nothing, if the connection cascades.
Left(cascade, r) ==
  CASE r.row = Absent -> r
    [] r.row # Absent /\ cascade -> Nothing
    [] OTHER -> [r EXCEPT !.row = Absent]

Delete(p) ==
  /\ Calling(p, "delete")
  /\ Exists(URLSlot(call[p]))
  /\ \E cascade \in BOOLEAN :
       store' = [store EXCEPT ![URLSlot(call[p])] = Left(cascade, @)]
  /\ Answer(p, Result("ok", Nil))

Missing(p) ==
  /\ \E op \in {"update", "delete", "get"} : Calling(p, op)
  /\ ~Exists(URLSlot(call[p]))
  /\ Answer(p, Result("missing", Nil))
  /\ UNCHANGED store

Clear(p) ==
  /\ Calling(p, "clear")
  /\ \E cascade \in BOOLEAN :
       store' = [s \in Slots |-> IF s[1] = call[p].tenant THEN Left(cascade, store[s])
                                                          ELSE store[s]]
  /\ Answer(p, Result("ok", Nil))

Get(p) ==
  /\ Calling(p, "get")
  /\ Exists(URLSlot(call[p]))
  /\ Answer(p, Result("ok", store[URLSlot(call[p])]))
  /\ UNCHANGED store

\* What a list finds: resources, and child rows without one.
Found(c) == {id \in IDs : Exists(<<c.tenant, c.type, id>>)}
Lost(c)  == {id \in IDs : ~Exists(<<c.tenant, c.type, id>>)
                          /\ store[<<c.tenant, c.type, id>>] # Nothing}

LostRows(c, t) == UNION {store[<<c.tenant, c.type, id>>].sub[t] : id \in Lost(c)}

\* The list, if the object with the ID first is the first one.
Listed(c, first) ==
  [id \in IDs |->
     LET r == store[<<c.tenant, c.type, id>>] IN
     CASE id \notin Found(c) -> Absent
       [] id \in Found(c) /\ id = first ->
            [r EXCEPT !.sub = [t \in ChildTables |-> r.sub[t] \cup LostRows(c, t)]]
       [] OTHER -> r]

List(p) ==
  /\ Calling(p, "list")
  /\ Found(call[p]) = {} => Lost(call[p]) = {}
  /\ \E first \in IDs :
       /\ Found(call[p]) # {} => first \in Found(call[p])
       /\ Answer(p, Result("ok", Listed(call[p], first)))
  /\ UNCHANGED store

\* A list of child rows only panics.
ListPanics(p) ==
  /\ Calling(p, "list")
  /\ Found(call[p]) = {} /\ Lost(call[p]) # {}
  /\ Answer(p, Result("panic", Nil))
  /\ UNCHANGED store

\* A call may fail for reasons of its own, and then leaves the store alone; a
\* parser may panic.
Fail(p) ==
  /\ status[p] = "pending"
  /\ \E kind \in {"malformed", "error", "panic"} :
       /\ kind = "panic" => call[p].op \in {"create", "update"}
       /\ Answer(p, Result(kind, Nil))
  /\ UNCHANGED store

Return(p) ==
  /\ status[p] = "done"
  /\ status' = [status EXCEPT ![p] = "idle"]
  /\ call' = [call EXCEPT ![p] = Nil]
  /\ result' = [result EXCEPT ![p] = Nil]
  /\ UNCHANGED store

Next ==
  \E p \in Callers :
    \/ Invoke(p) \/ Create(p)  \/ Conflict(p) \/ Update(p) \/ Delete(p)
    \/ Missing(p) \/ Clear(p)  \/ Get(p) \/ List(p) \/ ListPanics(p)
    \/ Fail(p) \/ Return(p)

Spec == Init /\ [][Next]_vars
=============================================================================
