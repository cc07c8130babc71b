---------------------------- MODULE PhoneManager ----------------------------
(***************************************************************************)
(* PhoneManagerClient (diversion/phone_manager_client.py): how one answer  *)
(* of Phone Manager, or none, becomes a result or an exception.  Both      *)
(* operators test an answer in the order of the code; an answer that an    *)
(* earlier test refuses never meets a later one.                           *)
(***************************************************************************)

\* "none": no answer, requests.RequestException.  "denied": 403 or 404.
\* "odd": JSON, but not an object; for line_count, a list or an object, which
\* cannot be looked up in a set.  "null": JSON's null, in one of mac and dn or in both.
Answer == [status   : {"none", "ok", "invalid", "denied", "other"},
           body     : {"garbled", "odd", "object"},
           valid    : BOOLEAN,                  \* valid is true
           model    : BOOLEAN,                  \* model is the SIP-T33G
           lines    : {"one", "many", "odd"},   \* line_count; "one" also when it is absent
           names    : {"given", "null", "absent"}]  \* mac and dn, or normalized_destination

\* Mutant: only 403 and 404 count as errors.
DeviceContextLenient(a) ==
  CASE a.status = "none"   -> "unavailable"
    [] a.status = "denied" -> "refused"
    [] a.status \in {"ok", "invalid", "other"} ->
         IF a.body = "garbled" THEN "unavailable"
         ELSE IF a.body = "odd" THEN "raised"
         ELSE IF ~a.valid \/ ~a.model THEN "refused"
         ELSE IF a.lines = "odd" THEN "raised"
         ELSE IF a.lines = "many" THEN "refused"
         ELSE IF a.names = "absent" THEN "unavailable" ELSE "ok"

\* validate_device_context: "ok", PhoneManagerUnavailable, PhoneManagerValidationError
\* ("refused"), or an exception no handler expects ("raised").  str makes a null
\* mac "NONE" and a null dn "None", which are not empty and pass.
DeviceContext(a) ==
  CASE a.status \in {"none", "invalid", "other"} -> "unavailable"
    [] a.status = "denied" -> "refused"
    [] a.status = "ok" ->
         IF a.body = "garbled" THEN "unavailable"
         ELSE IF a.body = "odd" THEN "raised"
         ELSE IF ~a.valid \/ ~a.model THEN "refused"
         ELSE IF a.lines = "odd" THEN "raised"
         ELSE IF a.lines = "many" THEN "refused"
         ELSE IF a.names = "absent" THEN "unavailable" ELSE "ok"

\* Mutant: the body is decoded outside the try statement.
NormalizeNumberUnguarded(a) ==
  CASE a.status \in {"none", "other"} -> "unavailable"
    [] a.status = "invalid" -> "invalid"
    [] a.status = "denied"  -> "refused"
    [] a.status = "ok" ->
         CASE a.body \in {"garbled", "odd"} -> "raised"
           [] a.body = "object" -> IF a.names = "given" THEN "ok" ELSE "invalid"

\* normalize_number; "invalid" is InvalidDestinationError.  Here null is absent.
NormalizeNumber(a) ==
  CASE a.status \in {"none", "other"} -> "unavailable"
    [] a.status = "invalid" -> "invalid"
    [] a.status = "denied"  -> "refused"
    [] a.status = "ok" ->
         CASE a.body = "garbled" -> "unavailable"
           [] a.body = "odd"     -> "raised"
           [] a.body = "object"  -> IF a.names = "given" THEN "ok" ELSE "invalid"

-----------------------------------------------------------------------------
(* What the answers mean, whatever the order of the tests *)

\* Phone Manager says the handset is valid, and it is one the service supports;
\* mac and dn are there, though they may be null.
Vouches(a) == /\ a.status = "ok" /\ a.body = "object"
              /\ a.valid /\ a.model /\ a.lines = "one" /\ a.names # "absent"

\* The answer is JSON of a shape the interface does not have (a null apart): to
\* either call, and to validate_device_context.
Misshapen(a) == a.status = "ok" /\ a.body = "odd"
MisshapenContext(a) == Misshapen(a) \/ (a.status = "ok" /\ a.body = "object" /\ a.lines = "odd")
=============================================================================
