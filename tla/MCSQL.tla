------------------------------- MODULE MCSQL -------------------------------
(***************************************************************************)
(* Small instances of SQLBackend.                                          *)
(***************************************************************************)
EXTENDS SQLBackend, TLC

CONSTANTS a, b,         \* identifiers
          t1, t2,       \* tenants
          r1, r2,       \* rows of main tables
          a1, a2, b1,   \* items, those of each resource its own
          v1, v2, w1    \* payloads: two for a, one for b

\* The callers are interchangeable.
Symmetry == Permutations(Callers)

MCIDs   == {a, b}
MCUuids == {a, b}
MCData  == {v1, v2, w1}
MCRows  == {r1, r2}
MCItems == {a1, a2, b1}
OneTenant == {t1}
TwoTenants == {t1, t2}

\* v1 has a row in every child table, v2 and w1 in one of a type's at least.
MCRowOf == [d \in MCData |-> IF d = v2 THEN r2 ELSE r1]
MCItemsOf ==
  [d \in MCData |-> [t \in ChildTables |->
     CASE d = v1 -> {a1}
       [] d = v2 -> IF t \in {"Enrolments", "ActivityGroups"} THEN {} ELSE {a2}
       [] d = w1 -> IF t = "Enrolments" THEN {} ELSE {b1}]]

Users    == {"Users"}
\* The types of the SS12000 standard, and one that is not among them.
AllTypes == ResourceTypes \cup {"Devices"}

Body(id, d) ==
  [json |-> "object", attrs |-> Attributes, typed |-> TRUE, id |-> id,
   unitCode |-> TRUE, data |-> d]
Invalid == [Body(a, v1) EXCEPT !.attrs = {"externalId"}]

Call(op, t, ty, id, body) ==
  [op |-> op, tenant |-> t, type |-> ty, id |-> id, body |-> body]

\* Writers and readers of two resources.
Requests1(ts, tys) ==
  UNION {{Call("create", t, ty, a, Body(a, v1)),
          Call("create", t, ty, b, Body(b, w1)),
          Call("update", t, ty, a, Body(a, v2)),
          Call("delete", t, ty, a, Body(a, v1)),
          Call("get",    t, ty, a, Body(a, v1)),
          Call("list",   t, ty, a, Body(a, v1))} : t \in ts, ty \in tys}

Clears(ts) == {Call("clear", t, "Users", a, Body(a, v1)) : t \in ts}

\* One of the updates names another resource in its body than in its URL.
UserRequests  == Requests1({t1}, Users) \cup Clears({t1})
                 \cup {Call("create", t1, "Users", a, Invalid)}
                 \cup {Call("update", t1, "Users", a, Body(b, w1))}
GroupRequests ==
  Requests1({t1}, {"StudentGroups"}) \cup Clears({t1})
  \cup {Call("update", t1, "StudentGroups", a, Body(b, w1))}

\* One resource of each type, and two versions of it where that matters.
TypeRequests ==
  {c \in Requests1({t1}, ResourceTypes) :
     /\ c.body.id = a
     /\ c.type \in {"SchoolUnitGroups", "Employments"} => c.op # "get"
     /\ c.type = "SchoolUnitGroups" => c.op # "update"}
  \cup Clears({t1})

\* Two tenants that share the connections, one of them with itself as well: a
\* resource can be deleted after the check of a get has found it.
PoolRequests ==
  UNION {{Call("create", t, "StudentGroups", a, Body(a, v1)),
          Call("delete", t, "StudentGroups", a, Body(a, v1)),
          Call("list", t, "Devices", a, Body(a, v1))} : t \in TwoTenants}
  \cup {Call("get", t1, "StudentGroups", a, Body(a, v1)),
        Call("create", t1, "Devices", a, Body(a, v1))}
  \cup Clears({t1})
=============================================================================
