------------------------------ MODULE SS12000 ------------------------------
(***************************************************************************)
(* The resources a client sends, and what the server makes of one: the     *)
(* required attributes of the SS12000:2018 types (ss12000v1/types.go), the *)
(* parser and the optional validators a backend is created with            *)
(* (windermere/windermere.go, windermere/validation.go), and the ID        *)
(* generator of the in-memory backend (scimserverlite/scimserverlite.go).  *)
(*                                                                         *)
(* A body is abstracted to what these functions tell apart: whether it is  *)
(* JSON, and then an object, null or something else, which attributes it   *)
(* has, whether their types are right, its externalId, whether its         *)
(* schoolUnitCode contains eight digits, and its payload.                  *)
(***************************************************************************)

CONSTANTS
  IDs,                     \* the resource identifiers in play
  Uuids,                   \* those that look like a UUID
  NotString,               \* an externalId which is neither a string nor null
  NullID,                  \* one which is null: decoded into a struct it is the
                           \* empty string, an identifier like others
  Data,                    \* the payloads of resources
  Nil,                     \* Go's nil
  ValidateUUID,            \* the two configuration settings for validation
  ValidateSchoolUnitCode

ASSUME ParserAssumption ==
  /\ Uuids \subseteq IDs
  /\ NotString \notin IDs
  /\ NullID \notin Uuids \cup {NotString}
  /\ ValidateUUID \in BOOLEAN
  /\ ValidateSchoolUnitCode \in BOOLEAN

Attributes ==
  {"externalId", "displayName", "schoolUnitCode", "owner", "userName", "name",
   "employedAt", "user", "employmentRole"}

Bodies ==
  [json     : {"object", "null", "other", "garbage"},
   attrs    : SUBSET Attributes,
   typed    : BOOLEAN,
   id       : IDs \cup {NotString},
   unitCode : BOOLEAN,
   data     : Data]

-----------------------------------------------------------------------------
(* Required attributes, one definition per type's UnmarshalJSON.           *)

OrganisationRequired    == {"externalId", "displayName"}
SchoolUnitGroupRequired == {"externalId", "displayName"}
SchoolUnitRequired      == {"externalId", "displayName", "schoolUnitCode"}
ActivityRequired        == {"externalId", "displayName", "owner"}
StudentGroupRequired    == {"externalId", "displayName", "owner"}
UserRequired            == {"externalId", "userName", "name", "displayName"}
EmploymentRequired      == {"externalId", "employedAt", "user", "employmentRole"}

\* The types objectParser has a case for; it leaves target nil for any other.
Required ==
  [Users            |-> UserRequired,
   StudentGroups    |-> StudentGroupRequired,
   SchoolUnits      |-> SchoolUnitRequired,
   SchoolUnitGroups |-> SchoolUnitGroupRequired,
   Organisations    |-> OrganisationRequired,
   Activities       |-> ActivityRequired,
   Employments      |-> EmploymentRequired]

ResourceTypes == DOMAIN Required

\* The decoded Go structs, each known by its type, its GetID() and its payload.
Objects == [type : ResourceTypes, id : IDs, data : Data]

\* ensureRequired: the body is a JSON object with every required attribute.
ensureRequired(required, b) == b.json = "object" /\ required \subseteq b.attrs

\* What a function of the code returns: "ok" with a value, "error", or "panic".
Ok(v)   == [kind |-> "ok", val |-> v]
Err     == [kind |-> "error", val |-> Nil]
Panic   == [kind |-> "panic", val |-> Nil]

\* Parsing: nothing to decode into for an unknown type, which is no error.
objectParser(type, b) ==
  IF type \notin ResourceTypes THEN Ok(Nil)
  ELSE IF /\ ensureRequired(Required[type], b)
          /\ b.typed
          /\ b.id # NotString
       THEN Ok([type |-> type, id |-> b.id, data |-> b.data])
       ELSE Err

\* UUIDValidator calls GetID() on the object, which panics on a nil object.
UUIDValidator(obj) ==
  IF obj = Nil THEN "panic" ELSE IF obj.id \in Uuids THEN "ok" ELSE "error"

\* SchoolUnitCodeValidator only looks at school units.
SchoolUnitCodeValidator(obj, b) ==
  IF obj # Nil /\ obj.type = "SchoolUnits" /\ ~b.unitCode THEN "error" ELSE "ok"

\* The configured validators in order; the first that is not "ok" decides.
Validator(obj, b) ==
  LET uuid == IF ValidateUUID THEN UUIDValidator(obj) ELSE "ok"
      code == IF ValidateSchoolUnitCode THEN SchoolUnitCodeValidator(obj, b)
                                        ELSE "ok"
  IN  IF uuid # "ok" THEN uuid ELSE code

\* The parser every backend is created with: parse, then validate.
validatingObjectParser(type, b) ==
  LET parsed  == objectParser(type, b)
      verdict == Validator(parsed.val, b)
  IN  CASE parsed.kind = "error" -> Err
        [] parsed.kind = "ok" /\ verdict = "panic" -> Panic
        [] parsed.kind = "ok" /\ verdict = "error" -> Err
        [] OTHER -> parsed

\* The ID generator: it decodes the body on its own, asserts without a check that
\* the JSON value is an object, and wants a string.
CreateIDFromExternalID(b) ==
  CASE b.json = "garbage" -> Err
    [] b.json \in {"null", "other"} -> Panic
    [] b.json = "object" /\ ("externalId" \notin b.attrs \/ b.id \in {NotString, NullID}) -> Err
    [] OTHER -> Ok(b.id)
=============================================================================
