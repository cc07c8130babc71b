----------------------------- MODULE CucmAnswers -----------------------------
(***************************************************************************)
(* CucmAxlClient (diversion/cucm_axl_client.py): what comes of one attempt *)
(* of a call to CUCM.  "ok", "again" (the loop tries once more, if an      *)
(* attempt is left), "failed" (CucmAxlError), or "raised": an exception    *)
(* that no handler expects.  AxlClient has the loop and what threads share.*)
(***************************************************************************)

\* "transient": no connection, a timeout, or a status worth a retry.
\* "refused": a fault, a permanent status, or a body that is not XML.
\* "cut": any other requests.RequestException, as of a reset in mid-answer.
Failures == {"transient", "refused", "cut"}

\* getCCMVersion, and the rest of _ensure_service on its answer.  "odd": no version
\* in it.  "unsupported": no schema for the version is mapped, or on disk.
\* "unusable": zeep cannot load the WSDL, or bind its service.
Discoveries == Failures \cup {"good", "odd", "unsupported", "unusable"}

\* updateLine and applyLine.  "odd": XML that zeep cannot make sense of.
Replies == Failures \cup {"good", "odd"}

\* getLine.  "shapeless": without return or line.  "lineless": the line is nil, or a list.
LineReplies == Replies \cup {"shapeless", "lineless"}

\* _ensure_service finds no service
Discovery(a) ==
  CASE a = "good"      -> "ok"
    [] a = "transient" -> "again"
    [] a \in {"refused", "cut", "odd", "unsupported"} -> "failed"
    [] a = "unusable"  -> "raised"

\* Mutant: of the connection errors the loop catches only ConnectionError.
OperationTimeoutUncaught(a) ==
  CASE a = "good"    -> "ok"
    [] a = "refused" -> "failed"
    [] a \in {"transient", "cut", "odd"} -> "raised"

\* _call_operation
Operation(a) ==
  CASE a = "good"      -> "ok"
    [] a = "transient" -> "again"
    [] a = "refused"   -> "failed"
    [] a \in {"cut", "odd"} -> "raised"

\* get_line, which looks into what _call_operation returns
GetLine(a) ==
  CASE a = "shapeless" -> "failed"
    [] a = "lineless"  -> "raised"
    [] OTHER           -> Operation(a)

\* Neither an answer of AXL's nor a failure of its server or of the connection as
\* a whole: the interface, the schema or the connection broke half-way.
Unforeseen(a) == a \in {"cut", "odd", "shapeless", "lineless", "unusable"}
=============================================================================
