----------------------------- MODULE MCProgram ------------------------------
(***************************************************************************)
(* A small instance of Program: clients of two tenants.                    *)
(***************************************************************************)
EXTENDS Program

CONSTANTS a, b,        \* identifiers
          up,          \* the "id" of a body: "../Users/a"
          t1, t2,      \* tenants
          k1, k2,      \* their API keys
          v1, v2       \* payloads

MCIDs     == {a, b}
MCData    == {v1, v2}
MCTenants == {t1, t2}
MCClients == [t \in {t1, t2} |-> IF t = t1 THEN k1 ELSE k2]
MCTypes   == {"Users"}
MCParts   == [id \in {up} |-> <<"..", "Users", a>>]

Body(id, d) ==
  [json |-> "object", attrs |-> Attributes, typed |-> TRUE, id |-> id,
   unitCode |-> TRUE, data |-> d]

Request(server, sender, method, path, body) ==
  [server |-> server, sender |-> sender, method |-> method, path |-> path,
   media |-> "application/json", scimId |-> Nil, body |-> body, readable |-> TRUE]

\* Two tenants; a PUT whose body names another user than its URL, one that cannot
\* be read, and a request without a key.
MCRequests ==
  {Request("skolsynk", k1, "POST", <<"Users">>, Body(b, v2)),
   [Request("skolsynk", k1, "PUT", <<"Users">>, Body(b, v2)) EXCEPT !.scimId = up],
   [Request("skolsynk", k2, "PUT", <<"Users">>, Body(a, v2)) EXCEPT !.readable = FALSE],
   Request("fedtls", t1, "DELETE", <<"Users", a>>, Body(a, v1)),
   Request("fedtls", t1, "GET", <<"Users">>, Body(a, v1)),
   Request("fedtls", t2, "POST", <<"Users">>, Body(a, v1)),
   Request("skolsynk", NoKey, "POST", <<"Users">>, Body(a, v1))}

\* One user.
MCContents ==
  {[s \in MCTenants \X MCTypes \X MCIDs |-> IF s = <<t1, "Users", a>> THEN v1 ELSE Absent]}
=============================================================================
