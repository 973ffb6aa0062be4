----------------------------- MODULE MCInMemory -----------------------------
(***************************************************************************)
(* Small instances of InMemoryBackend: the calls that callers make.        *)
(***************************************************************************)
EXTENDS InMemoryBackend

CONSTANTS a, b,        \* identifiers
          t1, t2,      \* tenants
          v1, v2       \* payloads

MCIDs     == {a, b}
WithNull  == {a, b, NullID}
MCUuids   == {a}
MCData    == {v1, v2}
MCTenants == {t1, t2}
OneTenant == {t1}

\* "Users" has a parser, "Devices" does not.
MCTypes   == {"Users", "Devices"}
OneType   == {"Users"}

Good(id, d) ==
  [json |-> "object", attrs |-> Attributes, typed |-> TRUE, id |-> id,
   unitCode |-> TRUE, data |-> d]

NoExternalID == [Good(a, v1) EXCEPT !.attrs = Attributes \ {"externalId"}]
NoUserName   == [Good(a, v1) EXCEPT !.attrs = Attributes \ {"userName"}]
NullAsID     == [Good(a, v1) EXCEPT !.id = NullID]
NumericID    == [Good(a, v1) EXCEPT !.id = NotString]
WrongType    == [Good(a, v1) EXCEPT !.typed = FALSE]
NotJSON      == [Good(a, v1) EXCEPT !.json = "garbage"]
Null         == [Good(a, v1) EXCEPT !.json = "null"]
Array        == [Good(a, v1) EXCEPT !.json = "other"]

Call(op, t, ty, id, body) ==
  [op |-> op, tenant |-> t, type |-> ty, id |-> id, body |-> body]

Reads(ops, ts, tys, ids) ==
  {Call(op, t, ty, id, Good(a, v1)) : op \in ops, t \in ts, ty \in tys, id \in ids}

Writes(op, ts, tys, ids, bodies) ==
  {Call(op, t, ty, id, body) : t \in ts, ty \in tys, id \in ids, body \in bodies}

\* Every operation and both types for one tenant, and what concerns another.
CallRequests ==
  Writes("create", {t1}, MCTypes, {a}, {Good(a, v1)})
  \cup Writes("create", {t1}, {"Users"}, {a},
              {Good(b, v2), NoExternalID, Array, NoUserName, WrongType, NumericID, NotJSON})
  \cup Writes("update", {t1}, MCTypes, {a}, {Good(a, v2), NotJSON})
  \cup Reads({"delete", "getParsed"}, {t1}, MCTypes, {a})
  \cup Reads({"clear", "get", "count", "types"}, {t1}, {"Users"}, {a})
  \cup Writes("create", {t2}, {"Users"}, {a}, {Good(a, v1)})
  \cup Reads({"clear", "types"}, {t2}, {"Users"}, {a})

\* Lists racing with the writes of the listed map.
ListRequests ==
  Writes("create", {t1}, {"Devices"}, {a}, {Good(a, v1), Good(b, v2), NullAsID})
  \cup Writes("update", {t1}, {"Devices"}, {a}, {NotJSON, Null})
  \cup Reads({"list", "delete", "clear"}, {t1}, {"Devices"}, {a})

Empty == [resources |-> [s \in Slots |-> Absent], made |-> {}]

\* A file with a resource that the parser rejects, written before validation
\* was turned on.
Stale ==
  [resources |-> [s \in Slots |-> IF s = <<t1, "Users", a>> THEN Good(a, v1)
                                  ELSE IF s = <<t1, "Users", b>> THEN Good(b, v2) ELSE Absent],
   made |-> {<<t1, "Users">>}]

OnlyEmpty    == {Empty}
EmptyOrStale == {Empty, Stale}
=============================================================================
