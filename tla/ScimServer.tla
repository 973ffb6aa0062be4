----------------------------- MODULE ScimServer -----------------------------
(***************************************************************************)
(* From an HTTP request to a call of the backend, and from what the        *)
(* backend returns to a status: the API key middleware                     *)
(* (program/apikeyauth.go), the PUT compatibility handler                  *)
(* (windermere/puthandler.go), and the routes, handler and error mapping   *)
(* of the SCIM server (scimserverlite/scimserverlite.go).                  *)
(*                                                                         *)
(* A path is the sequence of its components, so that /Users/a is           *)
(* <<"Users", a>> and / is <<"">>. A request has besides its body the "id" *)
(* in it, if any, and its body can be read or not: the connection may      *)
(* break, or the time for reading it be up.                                *)
(***************************************************************************)
EXTENDS SS12000, Integers, Sequences

CONSTANTS
  Tenants,
  Parts,      \* the components of the IDs that are no single component of a path
  NoKey,      \* a request without an API key
  Clients     \* the API key of each Skolsynk client

ASSUME ServerAssumption ==
  /\ DOMAIN Clients \subseteq Tenants
  /\ NoKey \notin {Clients[t] : t \in DOMAIN Clients}

Servers == {"fedtls", "skolsynk"}

MediaTypes == {"application/scim+json", "application/json", "other"}

\* What the rest makes of a request: a call of the backend, or an answer.
Answered(code) == [kind |-> "answer", code |-> code]
Calling(op, t, ty, id, b) ==
  [kind |-> "call",
   call |-> [op |-> op, tenant |-> t, type |-> ty, id |-> id, body |-> b]]

\* Slip: any known key will do for any client.
lookupTenantAny(key) ==
  IF \E t \in DOMAIN Clients : Clients[t] = key THEN DOMAIN Clients ELSE {}

\* A client with this key: any of them, if there are several.
lookupTenant(key) == {t \in DOMAIN Clients : Clients[t] = key}

\* The tenants a request may be authenticated as: none for a bad API key. On the
\* federated TLS server the sender is the entity ID that its certificate has
\* proved.
tenantGetter(r) == IF r.server = "skolsynk" THEN lookupTenant(r.sender) ELSE {r.sender}

getResourceType(path) == path[Len(path)]
getResourceTypeOfID(path) == path[Len(path) - 1]

\* The ID in the body of a PUT to /Type: its "id", or else its externalId.
CompatibilityID(r) ==
  LET external == IF "externalId" \in r.body.attrs THEN r.body.id ELSE NullID
  IN  IF r.body.json # "object" \/ NotString \in {r.scimId, external} THEN Nil
      ELSE IF r.scimId # Nil THEN r.scimId
      ELSE IF external # NullID THEN external ELSE Nil

IsCompatibilityPUT(r) == r.method = "PUT" /\ Len(r.path) = 1

\* path.Join cleans the path: a ".." takes the component before it away.
Clean(path) ==
  LET clean[n \in 0 .. Len(path)] ==
        IF n = 0 THEN <<>>
        ELSE IF path[n] \in {"", "."} THEN clean[n - 1]
        ELSE IF path[n] # ".." THEN Append(clean[n - 1], path[n])
        ELSE SubSeq(clean[n - 1], 1, Len(clean[n - 1]) - 1)
  IN  IF clean[Len(path)] = <<>> THEN <<"">> ELSE clean[Len(path)]

Join(path, id) == Clean(path \o (IF id \in DOMAIN Parts THEN Parts[id] ELSE <<id>>))

\* The request that the PUT compatibility handler passes on.
putCompatibilityHandler(r) ==
  IF IsCompatibilityPUT(r) THEN [r EXCEPT !.path = Join(@, CompatibilityID(r))] ELSE r

\* The last component of a path is the type for POST and GET, whatever comes
\* before it.
genericSCIMHandler(tenant, r) ==
  LET type == getResourceType(r.path)
      inItem(op) == IF Len(r.path) < 2 THEN Answered(400)
                    ELSE Calling(op, tenant, getResourceTypeOfID(r.path), type, r.body)
  IN  IF r.method \in {"POST", "PUT"} /\ r.media = "other" THEN Answered(415)
      ELSE IF r.method \in {"POST", "PUT"} /\ ~r.readable THEN Answered(500)
      ELSE CASE r.method = "POST"   -> Calling("create", tenant, type, Nil, r.body)
             [] r.method = "GET"    -> Calling("list", tenant, type, Nil, r.body)
             [] r.method = "PUT"    -> inItem("update")
             [] r.method = "DELETE" -> inItem("delete")
             [] OTHER -> Answered(501)

\* Windermere.ServeHTTP: the compatibility handler, the routes, the handler.
ServeHTTP(tenant, r) ==
  LET q == putCompatibilityHandler(r)
  IN  IF IsCompatibilityPUT(r) /\ ~r.readable THEN Answered(500)
      ELSE IF IsCompatibilityPUT(r) /\ CompatibilityID(r) = Nil THEN Answered(400)
      ELSE IF q.path[1] \notin ResourceTypes THEN Answered(404)
      ELSE genericSCIMHandler(tenant, q)

Success == [create |-> 201, update |-> 200, delete |-> 204, list |-> 200]

\* The status of what the backend has returned; a panic aborts the connection.
Aborted == 0

handleBackendError(op, kind) ==
  CASE kind = "ok" -> Success[op]
    [] kind = "conflict" -> 409
    [] kind = "missing" -> 404
    [] kind = "malformed" -> 400
    [] kind = "error" -> 500
    [] kind = "panic" -> Aborted
=============================================================================
