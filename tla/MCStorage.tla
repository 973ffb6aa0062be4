----------------------------- MODULE MCStorage ------------------------------
(***************************************************************************)
(* A small instance of FileStorage: requests for one tenant while the      *)
(* model is saved, and the storage files of two formats at start.          *)
(***************************************************************************)
EXTENDS FileStorage

CONSTANTS a,         \* an identifier
          t0, t1,    \* the tenant "", and another
          v1         \* a payload

MCIDs     == {a}
MCUuids   == {a}
MCData    == {v1}
MCTenants == {t0, t1}
OneType   == {"Users"}
Both      == {"linux", "windows"}

Good(id, d) ==
  [json |-> "object", attrs |-> Attributes, typed |-> TRUE, id |-> id,
   unitCode |-> TRUE, data |-> d]

Call(op, id, body) ==
  [op |-> op, tenant |-> t1, type |-> "Users", id |-> id, body |-> body]

\* A resource comes, goes alone and goes with its map. A second caller would
\* wait for the mutex while the first is inside.
SaveRequests ==
  {Call(op, a, Good(a, v1)) : op \in {"create", "delete", "clear"}}

\* A file of the old format, with a resource that is no longer valid.
Old ==
  [version |-> 0,
   types |-> [k \in OneType \X MCIDs |-> [Good(a, v1) EXCEPT !.attrs = {"externalId"}]]]

MCDisks == {NoFile, Old}
MCFiles == {Contents(d) : d \in MCDisks}
=============================================================================
