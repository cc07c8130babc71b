------------------------------ MODULE AxlClient ------------------------------
(***************************************************************************)
(* CucmAxlClient (diversion/cucm_axl_client.py): the retry loop of         *)
(* _call_operation, and _ensure_service, which on the first call asks CUCM *)
(* for its version, picks a vendored WSDL and binds a service to it.       *)
(*                                                                         *)
(* One client object serves all threads of a process and takes no lock.    *)
(* _ensure_service keeps its intermediate results in attributes of the     *)
(* object and reads them back from there, so that calls which find no      *)
(* service at the same time work on each other's results.                  *)
(***************************************************************************)
EXTENDS Naturals

CONSTANTS
  Calls,        \* the calls made: getLine, updateLine and applyLine, by any thread
  MaxAttempts,  \* 3
  Versions,     \* CUCM version strings, as getCCMVersion reports them
  Schemas,      \* AXL schema versions
  SchemaOf,     \* resolve_axl_schema_version; None for a version it refuses
  Vendored,     \* the schemas whose WSDL is found under wsdl/
  Usable,       \* those of them that zeep can load, and that have the AXL binding
  None,         \* Python's None
  MaxFailures,  \* bound: failing answers of the network or of CUCM
  MaxUpgrades   \* bound: changes of the CUCM version

ASSUME ConstantsAssumption ==
  /\ SchemaOf \in [Versions -> Schemas \cup {None}]
  /\ Usable \subseteq Vendored /\ Vendored \subseteq Schemas
  /\ None \notin Schemas /\ None \notin Versions
  /\ MaxAttempts \in Nat \ {0}
  /\ MaxFailures \in Nat /\ MaxUpgrades \in Nat

VARIABLES
  version,      \* what CUCM runs
  detected,     \* self._detected_cucm_version
  schema,       \* self._schema_version
  wsdl,         \* the schema self._resolved_wsdl_path holds
  client,       \* the schema self._client was made from
  service,      \* the schema self._service is bound to
  pc,           \* where each call is
  attempt,      \* the attempt the call is making, of discovery or of the operation
  answered,     \* the version the answer to getCCMVersion named
  inflight,     \* requests of the operation CUCM has neither carried out nor dropped
  performed,    \* requests of the operation it has carried out
  outcome,      \* how the call ended
  excused,      \* history: something failed, or no schema fitted, during the call
  reported,     \* history: the versions CUCM has named in its answers
  failures, upgrades    \* what is left of the bounds

attributes == <<detected, schema, wsdl, client, service>>
callVars   == <<pc, attempt, answered, inflight, performed, outcome>>
history    == <<excused, reported>>
bounds     == <<failures, upgrades>>
vars == <<version, attributes, callVars, history, bounds>>

Labels == {"new", "ensuring", "discovering", "detecting", "resolving", "locating",
           "building", "binding", "attempting", "done"}

TypeOK ==
  /\ version \in Versions
  /\ detected \in Versions \cup {None}
  /\ {schema, wsdl, client, service} \subseteq Schemas \cup {None}
  /\ pc \in [Calls -> Labels]
  /\ attempt \in [Calls -> 0..MaxAttempts]
  /\ answered \in [Calls -> Versions \cup {None}]
  /\ inflight \in [Calls -> 0..MaxAttempts]
  /\ performed \in [Calls -> 0..MaxAttempts]
  /\ outcome \in [Calls -> {"none", "ok", "error", "escaped"}]
  /\ excused \in [Calls -> BOOLEAN] /\ reported \subseteq Versions
  /\ failures \in 0..MaxFailures /\ upgrades \in 0..MaxUpgrades

\* Some schema fits the version v.
Supported(v) == SchemaOf[v] \in Usable

Init ==
  /\ version \in Versions
  /\ detected = None /\ schema = None /\ wsdl = None /\ client = None /\ service = None
  /\ pc = [c \in Calls |-> "new"]
  /\ attempt = [c \in Calls |-> 0]
  /\ answered = [c \in Calls |-> None]
  /\ inflight = [c \in Calls |-> 0]
  /\ performed = [c \in Calls |-> 0]
  /\ outcome = [c \in Calls |-> "none"]
  /\ excused = [c \in Calls |-> FALSE] /\ reported = {}
  /\ failures = MaxFailures /\ upgrades = MaxUpgrades

At(c, label)   == pc[c] = label
Goto(c, label) == pc' = [pc EXCEPT ![c] = label]
End(c, result) == Goto(c, "done") /\ outcome' = [outcome EXCEPT ![c] = result]

Running(c) == pc[c] \notin {"new", "done"}

\* A failure is an excuse for every call under way.
FailureHappens == /\ failures > 0
                  /\ failures' = failures - 1
                  /\ excused' = [c \in Calls |-> excused[c] \/ Running(c)]

-----------------------------------------------------------------------------
(* _call_operation and _ensure_service, up to the discovery *)

\* _call_operation is entered.
Call(c) ==
  /\ At(c, "new")
  /\ Goto(c, "ensuring")
  /\ excused' = [excused EXCEPT ![c] = ~Supported(version)]
  /\ UNCHANGED <<version, attributes, attempt, answered, inflight, performed, outcome, reported, bounds>>

\* Attempt n of the operation: the request leaves.
Attempt(c, n) ==
  /\ Goto(c, "attempting")
  /\ attempt' = [attempt EXCEPT ![c] = n]
  /\ inflight' = [inflight EXCEPT ![c] = @ + 1]

\* Mutant: the detected version, set before all is done, is the sign of a service.
EnsureByVersion(c) ==
  /\ At(c, "ensuring")
  /\ \/ /\ detected # None /\ service # None
        /\ Attempt(c, 1)
        /\ UNCHANGED outcome
     \/ /\ detected # None /\ service = None
        /\ End(c, "escaped")
        /\ UNCHANGED <<attempt, inflight>>
     \/ /\ detected = None
        /\ Goto(c, "discovering")
        /\ attempt' = [attempt EXCEPT ![c] = 1]
        /\ UNCHANGED <<inflight, outcome>>
  /\ UNCHANGED <<version, attributes, answered, performed, history, bounds>>

\* Is there a service already?
Ensure(c) ==
  /\ At(c, "ensuring")
  /\ \/ /\ service # None
        /\ Attempt(c, 1)
     \/ /\ service = None
        /\ Goto(c, "discovering")
        /\ attempt' = [attempt EXCEPT ![c] = 1]
        /\ UNCHANGED inflight
  /\ UNCHANGED <<version, attributes, answered, performed, outcome, history, bounds>>

-----------------------------------------------------------------------------
(* _discover_cucm_version *)

Discover(c) ==
  /\ At(c, "discovering")
  /\ answered' = [answered EXCEPT ![c] = version]
  /\ reported' = reported \cup {version}
  /\ Goto(c, "detecting")
  /\ UNCHANGED <<version, attributes, attempt, inflight, performed, outcome, excused, bounds>>

\* Mutant: a connection error while discovering is not counted.
DiscoverTransientForever(c) ==
  /\ At(c, "discovering")
  /\ FailureHappens
  /\ UNCHANGED <<version, attributes, pc, attempt, answered, inflight, performed, outcome, reported, upgrades>>

\* Mutant: the attempts at discovery are counted one short.
DiscoverTransientExtra(c) ==
  /\ At(c, "discovering")
  /\ FailureHappens
  /\ attempt' = [attempt EXCEPT ![c] = @ + 1]
  /\ UNCHANGED <<version, attributes, pc, answered, inflight, performed, outcome, reported, upgrades>>

\* A connection error, a timeout or a transient HTTP status.
DiscoverTransient(c) ==
  /\ At(c, "discovering")
  /\ FailureHappens
  /\ \/ /\ attempt[c] < MaxAttempts
        /\ attempt' = [attempt EXCEPT ![c] = @ + 1]
        /\ UNCHANGED <<pc, outcome>>
     \/ /\ attempt[c] = MaxAttempts
        /\ End(c, "error")
        /\ UNCHANGED attempt
  /\ UNCHANGED <<version, attributes, answered, inflight, performed, reported, upgrades>>

\* Any other request error, a permanent status, a SOAP fault, no version.
DiscoverPermanent(c) ==
  /\ At(c, "discovering")
  /\ FailureHappens
  /\ End(c, "error")
  /\ UNCHANGED <<version, attributes, attempt, answered, inflight, performed, reported, upgrades>>

-----------------------------------------------------------------------------
(* The rest of _ensure_service, one assignment to an attribute at a time *)

Detect(c) ==
  /\ At(c, "detecting")
  /\ detected' = answered[c]
  /\ Goto(c, "resolving")
  /\ UNCHANGED <<version, schema, wsdl, client, service, attempt, answered, inflight, performed,
                 outcome, history, bounds>>

\* resolve_axl_schema_version of the attribute
Resolve(c) ==
  /\ At(c, "resolving")
  /\ \/ /\ SchemaOf[detected] # None
        /\ schema' = SchemaOf[detected]
        /\ Goto(c, "locating")
        /\ UNCHANGED outcome
     \/ /\ SchemaOf[detected] = None
        /\ End(c, "error")
        /\ UNCHANGED schema
  /\ UNCHANGED <<version, detected, wsdl, client, service, attempt, answered, inflight, performed,
                 history, bounds>>

\* Mutant: for a schema that is not on disk another one is taken.
LocateFallback(c) ==
  /\ At(c, "locating")
  /\ wsdl' \in IF schema \in Vendored THEN {schema} ELSE Vendored
  /\ Goto(c, "building")
  /\ UNCHANGED <<version, detected, schema, client, service, attempt, answered, inflight, performed,
                 outcome, history, bounds>>

\* resolve_axl_wsdl_path
Locate(c) ==
  /\ At(c, "locating")
  /\ \/ /\ schema \in Vendored
        /\ wsdl' = schema
        /\ Goto(c, "building")
        /\ UNCHANGED outcome
     \/ /\ schema \notin Vendored
        /\ End(c, "error")
        /\ UNCHANGED wsdl
  /\ UNCHANGED <<version, detected, schema, client, service, attempt, answered, inflight, performed,
                 history, bounds>>

\* client_factory.  A schema that is of no use is found out here or when it is
\* bound, by an exception that no handler of the loop or of the service expects.
Build(c) ==
  /\ At(c, "building")
  /\ \/ /\ client' = wsdl
        /\ Goto(c, "binding")
        /\ UNCHANGED outcome
     \/ /\ wsdl \notin Usable
        /\ End(c, "escaped")
        /\ UNCHANGED client
  /\ UNCHANGED <<version, detected, schema, wsdl, service, attempt, answered, inflight, performed,
                 history, bounds>>

\* create_service, of the attribute.  The exception leaves no service behind.
Bind(c) ==
  /\ At(c, "binding")
  /\ \/ /\ client \in Usable
        /\ service' = client
        /\ Attempt(c, 1)
        /\ UNCHANGED outcome
     \/ /\ client \notin Usable
        /\ End(c, "escaped")
        /\ UNCHANGED <<service, attempt, inflight>>
  /\ UNCHANGED <<version, detected, schema, wsdl, client, answered, performed, history, bounds>>

-----------------------------------------------------------------------------
(* The retry loop *)

\* CUCM carries a request out, while the call waits or long after it gave up.
Perform(c) ==
  /\ inflight[c] > 0
  /\ inflight' = [inflight EXCEPT ![c] = @ - 1]
  /\ performed' = [performed EXCEPT ![c] = @ + 1]
  /\ UNCHANGED <<version, attributes, pc, attempt, answered, outcome, history, bounds>>

\* The answer to a request that was carried out.
Succeed(c) ==
  /\ At(c, "attempting")
  /\ performed[c] > 0
  /\ End(c, "ok")
  /\ UNCHANGED <<version, attributes, attempt, answered, inflight, performed, history, bounds>>

\* Fault, or a TransportError with a permanent status: no further attempt.
Refuse(c) ==
  /\ At(c, "attempting")
  /\ FailureHappens
  /\ End(c, "error")
  /\ UNCHANGED <<version, attributes, attempt, answered, inflight, performed, reported, upgrades>>

\* Mutant: one attempt too many.
RetryExtra(c) ==
  /\ At(c, "attempting")
  /\ FailureHappens
  /\ attempt[c] <= MaxAttempts
  /\ Attempt(c, attempt[c] + 1)
  /\ UNCHANGED <<version, attributes, answered, performed, outcome, reported, upgrades>>

\* requests.ConnectionError or Timeout, or a transient TransportError.
Retry(c) ==
  /\ At(c, "attempting")
  /\ FailureHappens
  /\ \/ /\ attempt[c] < MaxAttempts
        /\ Attempt(c, attempt[c] + 1)
        /\ UNCHANGED outcome
     \/ /\ attempt[c] = MaxAttempts
        /\ End(c, "error")
        /\ UNCHANGED <<attempt, inflight>>
  /\ UNCHANGED <<version, attributes, answered, performed, reported, upgrades>>

\* Any exception that the loop has no handler for: a reset while the answer is
\* read (requests.ChunkedEncodingError, which is not a requests.ConnectionError),
\* another requests.RequestException, XML that zeep cannot make sense of.
Cut(c) ==
  /\ At(c, "attempting")
  /\ FailureHappens
  /\ End(c, "escaped")
  /\ UNCHANGED <<version, attributes, attempt, answered, inflight, performed, reported, upgrades>>

\* get_line cannot find a line in what the operation returned: CucmAxlError without
\* return or line, AttributeError if the line is nil or a list.
Misread(c) ==
  /\ At(c, "attempting")
  /\ performed[c] > 0
  /\ FailureHappens
  /\ \E result \in {"error", "escaped"} : End(c, result)
  /\ UNCHANGED <<version, attributes, attempt, answered, inflight, performed, reported, upgrades>>

\* CUCM is upgraded; a version without a schema is an excuse for the calls under way.
Upgrade ==
  /\ upgrades > 0
  /\ upgrades' = upgrades - 1
  /\ \E v \in Versions \ {version} :
       /\ version' = v
       /\ excused' = [c \in Calls |-> excused[c] \/ (Running(c) /\ ~Supported(v))]
  /\ UNCHANGED <<attributes, callVars, reported, failures>>

Step(c) == \/ Ensure(c) \/ Discover(c) \/ DiscoverTransient(c) \/ DiscoverPermanent(c)
           \/ Detect(c) \/ Resolve(c) \/ Locate(c) \/ Build(c) \/ Bind(c)
           \/ Succeed(c) \/ Refuse(c) \/ Retry(c) \/ Cut(c) \/ Misread(c)

Next == \/ \E c \in Calls : Call(c) \/ Step(c) \/ Perform(c)
        \/ Upgrade

Spec == Init /\ [][Next]_vars

-----------------------------------------------------------------------------
(* Properties *)

Abstract == INSTANCE AxlCall WITH
  result    <- [c \in Calls |-> CASE outcome[c] = "none" -> "pending"
                                  [] outcome[c] = "ok"   -> "ok"
                                  [] OTHER               -> "error"],
  sent      <- [c \in Calls |-> inflight[c] + performed[c]],
  performed <- performed

(***************************************************************************)
(* A call is sent at most MaxAttempts times in all, whether it found a     *)
(* service or discovered one, and it returns normally only when CUCM has   *)
(* carried it out (cucm_axl_client.py:235-280).                            *)
(***************************************************************************)
ImplementsAxlCall == Abstract!Spec

(***************************************************************************)
(* However calls interleave in _ensure_service, and whatever they read of  *)
(* each other's attributes while CUCM is upgraded, a service they use is   *)
(* bound to a schema that zeep can use and that is mapped to a version     *)
(* CUCM has reported, perhaps to another call: never to a schema that is   *)
(* merely there (cucm_axl_client.py:76-111, 285-309).                      *)
(***************************************************************************)
ServiceFits ==
  service # None => service \in Usable /\ \E v \in reported : SchemaOf[v] = service

(***************************************************************************)
(* A failure is not remembered: as long as CUCM is not upgraded, a call    *)
(* fails only if something failed while it was under way, or no usable     *)
(* schema fits.  A discovery that failed earlier, or fails in another      *)
(* thread, leaves nothing behind that would break it                       *)
(* (cucm_axl_client.py:286-309).                                           *)
(***************************************************************************)
FailuresAreForgotten ==
  upgrades = MaxUpgrades => \A c \in Calls : outcome[c] \in {"error", "escaped"} => excused[c]

\* The most steps of _call_operation and _ensure_service call c can still take.
StepsLeft(c) ==
  CASE pc[c] = "done"        -> 0
    [] pc[c] = "attempting"  -> 1 + (MaxAttempts - attempt[c])
    [] pc[c] = "binding"     -> 1 + MaxAttempts
    [] pc[c] = "building"    -> 2 + MaxAttempts
    [] pc[c] = "locating"    -> 3 + MaxAttempts
    [] pc[c] = "resolving"   -> 4 + MaxAttempts
    [] pc[c] = "detecting"   -> 5 + MaxAttempts
    [] pc[c] = "discovering" -> 6 + MaxAttempts + (MaxAttempts - attempt[c])
    [] pc[c] = "ensuring"    -> 6 + 2 * MaxAttempts
    [] pc[c] = "new"         -> 7 + 2 * MaxAttempts

(***************************************************************************)
(* A call runs out of steps: each of its own brings it nearer to its       *)
(* return, and what other calls do to the attributes it reads back, or     *)
(* CUCM to its requests, does not send it around again.  The attempts at   *)
(* discovery and those of the operation are counted apart, so that a call  *)
(* waits for CUCM 2 * MaxAttempts times at most                            *)
(* (cucm_axl_client.py:235-283, 285-309, 324-384).                         *)
(***************************************************************************)
CallsRunOut ==
  [][\A c \in Calls :
       \/ StepsLeft(c)' < StepsLeft(c)
       \/ StepsLeft(c)' = StepsLeft(c) /\ ~Call(c) /\ ~Step(c)]_vars

(***************************************************************************)
(* A call that fails does so with CucmAxlError, the error the service      *)
(* turns into the unavailable screen (cucm_axl_client.py:254-283).         *)
(***************************************************************************)
NothingEscapes == \A c \in Calls : outcome[c] # "escaped"
=============================================================================
