--------------------------- MODULE ServiceProcess ---------------------------
(***************************************************************************)
(* One worker process from the inside: the objects its requests create on  *)
(* first use and share, the calls a request waits for and every answer     *)
(* they may get, and the audit record it leaves.                           *)
(*                                                                         *)
(* Under gunicorn a process handles one request at a time and is killed    *)
(* when that takes too long, which it may at any point: the timeouts of    *)
(* the calls bound connecting and each read, not a call, and loading the   *)
(* WSDL has none.  runserver (dev.sh) handles each request in a thread and *)
(* kills nothing.  get_diversion_service (services.py) and                 *)
(* configure_logging (logging_utils.py) test a global, do their work and   *)
(* set it, without a lock.  What the calls do to the lines and the caches  *)
(* is in Diversion.                                                        *)
(***************************************************************************)
EXTENDS Integers, PhoneManager, CucmAnswers

CONSTANTS
  Threads,        \* threads that handle requests
  Answers,        \* the answers Phone Manager may give
  ApplyLine,      \* CUCM_APPLY_LINE_AFTER_UPDATE, and the AXL schema has applyLine
  MaxAttempts,    \* attempts of one AXL call (3 in the code)
  None            \* Python's None

ASSUME ConstantsAssumption ==
  /\ Answers \subseteq Answer
  /\ ApplyLine \in BOOLEAN
  /\ MaxAttempts \in Nat \ {0}
  /\ None \notin Threads

VARIABLES
  server,      \* what runs the process
  service,     \* _service_instance, named by the thread that built it, or None
  discovered,  \* service objects whose AXL client is bound to a schema
  configured,  \* logging_utils._configured
  handlers,    \* number of file handlers the audit logger has
  pc,          \* where each thread is in its request
  request,     \* the request's operation and local variables until its answer is known
  outcome,     \* the answer to the thread's latest request, or how it ended without one
  written,     \* records the thread's latest request has left
  asked,       \* history: Phone Manager has been asked for that request
  odd,         \* history: that request got an answer no interface has
  troubled,    \* the log or its directory is out of reach: opening it may fail
  overlapped   \* history: two threads of this process have configured the log together

globals == <<service, discovered, configured, handlers>>
ends    == <<outcome, written>>
met     == <<asked, odd>>
vars == <<server, globals, pc, request, ends, met, troubled, overlapped>>

Operations  == {"query", "enable", "disable"}
CucmCalls   == {"discovering", "reading", "updating", "applying", "confirming"}
Configuring == {"clearing", "opening", "marking"}
Logging     == Configuring \cup {"logging", "emitting"}
Busy        == CucmCalls \cup Logging
                 \cup {"entering", "building", "returning", "validating", "normalizing"}

\* Answers that are a screen.
Screens  == {"success", "unavailable", "invalid", "malformed"}
Outcomes == Screens \cup {"none", "raised", "killed"}

Request == [op      : Operations,
            service : Threads \cup {None},  \* the service object it uses
            attempt : 1..MaxAttempts,       \* of the AXL call it makes
            vouched : BOOLEAN]              \* history: Phone Manager vouched for the handset

TypeOK ==
  /\ server \in {"gunicorn", "runserver"}
  /\ service \in Threads \cup {None}
  /\ discovered \subseteq Threads
  /\ configured \in BOOLEAN
  /\ handlers \in Nat
  /\ pc \in [Threads -> {"idle"} \cup Busy]
  /\ request \in [Threads -> Request \cup {None}]
  /\ \A t \in Threads : pc[t] \in Busy \ Logging => request[t] \in Request
  /\ outcome \in [Threads -> Outcomes]
  /\ written \in [Threads -> Nat]
  /\ asked \in [Threads -> BOOLEAN]
  /\ odd \in [Threads -> BOOLEAN]
  /\ troubled \in BOOLEAN /\ overlapped \in BOOLEAN

Init ==
  /\ server \in {"gunicorn", "runserver"}
  /\ service = None /\ discovered = {} /\ configured = FALSE /\ handlers = 0
  /\ pc = [t \in Threads |-> "idle"]
  /\ request = [t \in Threads |-> None]
  /\ outcome = [t \in Threads |-> "none"]
  /\ written = [t \in Threads |-> 0]
  /\ asked = [t \in Threads |-> FALSE]
  /\ odd = [t \in Threads |-> FALSE]
  /\ troubled \in BOOLEAN /\ overlapped = FALSE

Active(t)      == pc[t] # "idle"
At(t, label)   == pc[t] = label
Goto(t, label) == pc' = [pc EXCEPT ![t] = label]

\* The request ends, with a screen or without one.
End(t, result) == /\ Goto(t, "idle")
                  /\ request' = [request EXCEPT ![t] = None]
                  /\ outcome' = [outcome EXCEPT ![t] = result]

\* The answer is known; what is left is the record.
Conclude(t, result) == /\ Goto(t, "logging")
                       /\ request' = [request EXCEPT ![t] = None]
                       /\ outcome' = [outcome EXCEPT ![t] = result]

-----------------------------------------------------------------------------
(* A request arrives and gets the service object *)

Receive(t, o) ==
  /\ At(t, "idle")
  /\ server = "gunicorn" => \A u \in Threads : ~Active(u)
  /\ Goto(t, "entering")
  /\ request' = [request EXCEPT ![t] = [op |-> o, service |-> None, attempt |-> 1, vouched |-> FALSE]]
  /\ outcome' = [outcome EXCEPT ![t] = "none"]
  /\ written' = [written EXCEPT ![t] = 0]
  /\ asked' = [asked EXCEPT ![t] = FALSE]
  /\ odd' = [odd EXCEPT ![t] = FALSE]
  /\ UNCHANGED <<server, globals, troubled, overlapped>>

\* parse_handset_request before the service is asked, and _validate_destination
\* after, refuse what they were sent; neither leaves a record.
Malformed(t) ==
  /\ At(t, "entering") \/ (At(t, "validating") /\ request[t].op = "enable")
  /\ End(t, "malformed")
  /\ UNCHANGED <<server, globals, written, met, troubled, overlapped>>

\* Mutant: each request builds a service object.
EnterUnchecked(t) ==
  /\ At(t, "entering")
  /\ Goto(t, "building")
  /\ UNCHANGED <<server, globals, request, ends, met, troubled, overlapped>>

\* Is there a service object already?
Enter(t) ==
  /\ At(t, "entering")
  /\ Goto(t, IF service = None THEN "building" ELSE "returning")
  /\ UNCHANGED <<server, globals, request, ends, met, troubled, overlapped>>

Build(t) ==
  /\ At(t, "building")
  /\ service' = t
  /\ Goto(t, "returning")
  /\ UNCHANGED <<server, discovered, configured, handlers, request, ends, met, troubled, overlapped>>

\* What is returned is the global, which may be another thread's object by now.
Return(t) ==
  /\ At(t, "returning")
  /\ request' = [request EXCEPT ![t].service = service]
  /\ Goto(t, "validating")
  /\ UNCHANGED <<server, globals, ends, met, troubled, overlapped>>

-----------------------------------------------------------------------------
(* Phone Manager *)

\* The first AXL call of a client finds out the version of CUCM.
FirstCall(t) == IF request[t].service \in discovered THEN "reading" ELSE "discovering"

Validate(t) ==
  /\ At(t, "validating")
  /\ \E a \in Answers :
       LET r == [request[t] EXCEPT !.vouched = Vouches(a)]
       IN /\ \/ /\ DeviceContext(a) = "ok"
                /\ \/ /\ Goto(t, IF r.op = "enable" THEN "normalizing" ELSE FirstCall(t))
                      /\ request' = [request EXCEPT ![t] = r]
                      /\ UNCHANGED outcome
                   \/ r.op = "query" /\ Conclude(t, "success")   \* a cache hit
             \/ DeviceContext(a) \in {"unavailable", "refused"} /\ Conclude(t, "unavailable")
             \/ DeviceContext(a) = "raised" /\ End(t, "raised")
          /\ odd' = [odd EXCEPT ![t] = @ \/ MisshapenContext(a)]
  /\ asked' = [asked EXCEPT ![t] = TRUE]
  /\ UNCHANGED <<server, globals, written, troubled, overlapped>>

Normalize(t) ==
  /\ At(t, "normalizing")
  /\ \E a \in Answers :
       /\ \/ NormalizeNumber(a) = "ok" /\ Goto(t, FirstCall(t)) /\ UNCHANGED <<request, outcome>>
          \/ NormalizeNumber(a) = "invalid" /\ Conclude(t, "invalid")
          \/ NormalizeNumber(a) \in {"unavailable", "refused"} /\ Conclude(t, "unavailable")
          \/ NormalizeNumber(a) = "raised" /\ End(t, "raised")
       /\ odd' = [odd EXCEPT ![t] = @ \/ Misshapen(a)]
  /\ UNCHANGED <<server, globals, written, asked, troubled, overlapped>>

-----------------------------------------------------------------------------
(* The AXL calls *)

\* An attempt of the call the thread is at is answered, or not, with the result.
Attempt(t, result) ==
  \E a \in Discoveries \cup LineReplies :
    /\ \/ At(t, "discovering") /\ a \in Discoveries /\ Discovery(a) = result
       \/ pc[t] \in {"reading", "confirming"} /\ a \in LineReplies /\ GetLine(a) = result
       \/ pc[t] \in {"updating", "applying"} /\ a \in Replies /\ Operation(a) = result
    /\ odd' = [odd EXCEPT ![t] = @ \/ Unforeseen(a)]

\* The call is answered, and the handler makes another one.
NextCall(t) ==
  /\ Attempt(t, "ok")
  /\ \/ At(t, "discovering") /\ Goto(t, "reading")
     \/ At(t, "reading") /\ request[t].op # "query" /\ Goto(t, "updating")
     \/ At(t, "updating") /\ Goto(t, IF ApplyLine THEN "applying" ELSE "confirming")
     \/ At(t, "applying") /\ Goto(t, "confirming")
  /\ discovered' = IF At(t, "discovering") THEN discovered \cup {request[t].service} ELSE discovered
  /\ request' = [request EXCEPT ![t].attempt = 1]
  /\ UNCHANGED <<server, service, configured, handlers, ends, asked, troubled, overlapped>>

\* Mutant: an updateLine that is answered is a success.
LastCallUnconfirmed(t) ==
  /\ Attempt(t, "ok")
  /\ \/ pc[t] \in {"reading", "updating"} /\ Conclude(t, "success")
     \/ At(t, "confirming") /\ \E result \in {"success", "unavailable"} : Conclude(t, result)
  /\ UNCHANGED <<server, globals, written, asked, troubled, overlapped>>

\* The getLine of a query, of a change that is not needed or only simulated, or
\* the one that confirms is answered; the last may contradict the change.
LastCall(t) ==
  /\ Attempt(t, "ok")
  /\ \/ At(t, "reading") /\ Conclude(t, "success")
     \/ At(t, "confirming") /\ \E result \in {"success", "unavailable"} : Conclude(t, result)
  /\ UNCHANGED <<server, globals, written, asked, troubled, overlapped>>

\* Mutant: one attempt too many.
CallRetriedExtra(t) ==
  /\ Attempt(t, "again")
  /\ request[t].attempt <= MaxAttempts
  /\ request' = [request EXCEPT ![t].attempt = @ + 1]
  /\ UNCHANGED <<server, globals, pc, ends, asked, troubled, overlapped>>

\* Mutant: after the last attempt the call starts over.
CallRetriedForever(t) ==
  /\ Attempt(t, "again")
  /\ request' = [request EXCEPT ![t].attempt = IF @ = MaxAttempts THEN 1 ELSE @ + 1]
  /\ UNCHANGED <<server, globals, pc, ends, asked, troubled, overlapped>>

\* An attempt fails that is worth another, and one is left.
CallRetried(t) ==
  /\ Attempt(t, "again")
  /\ request[t].attempt < MaxAttempts
  /\ request' = [request EXCEPT ![t].attempt = @ + 1]
  /\ UNCHANGED <<server, globals, pc, ends, asked, troubled, overlapped>>

\* The last attempt fails, or one fails for good: CucmAxlError.
CallFailed(t) ==
  /\ Attempt(t, "failed") \/ (Attempt(t, "again") /\ request[t].attempt = MaxAttempts)
  /\ Conclude(t, "unavailable")
  /\ UNCHANGED <<server, globals, written, asked, troubled, overlapped>>

\* An exception that is none of CucmAxlError's leaves the handler.
CallRaised(t) ==
  /\ Attempt(t, "raised")
  /\ End(t, "raised")
  /\ UNCHANGED <<server, globals, written, asked, troubled, overlapped>>

-----------------------------------------------------------------------------
(* log_audit and configure_logging *)

Log(t) ==
  /\ At(t, "logging")
  /\ \/ /\ configured
        /\ Goto(t, "emitting")
        /\ UNCHANGED overlapped
     \/ /\ ~configured
        /\ Goto(t, "clearing")
        /\ overlapped' = (overlapped \/ \E u \in Threads : pc[u] \in Configuring)
  /\ UNCHANGED <<server, globals, request, ends, met, troubled>>

\* Mutant: _configured is set before the work is done.
ClearMarking(t) ==
  /\ At(t, "clearing")
  /\ handlers' = 0 /\ configured' = TRUE
  /\ Goto(t, "opening")
  /\ UNCHANGED <<server, service, discovered, request, ends, met, troubled, overlapped>>

Clear(t) ==
  /\ At(t, "clearing")
  /\ handlers' = 0
  /\ Goto(t, "opening")
  /\ UNCHANGED <<server, service, discovered, configured, request, ends, met, troubled, overlapped>>

\* The directory cannot be made, or the file not opened: OSError, after the
\* work of the request is done.
CannotOpen(t) ==
  /\ At(t, "clearing") \/ At(t, "opening")
  /\ troubled
  /\ End(t, "raised")
  /\ UNCHANGED <<server, globals, written, met, troubled, overlapped>>

\* Mutant: _configured is tested again before the handler is added.
AddHandlerChecked(t) ==
  /\ At(t, "opening")
  /\ handlers' = IF configured THEN handlers ELSE handlers + 1
  /\ Goto(t, "marking")
  /\ UNCHANGED <<server, service, discovered, configured, request, ends, met, troubled, overlapped>>

AddHandler(t) ==
  /\ At(t, "opening")
  /\ handlers' = handlers + 1
  /\ Goto(t, "marking")
  /\ UNCHANGED <<server, service, discovered, configured, request, ends, met, troubled, overlapped>>

Mark(t) ==
  /\ At(t, "marking")
  /\ configured' = TRUE
  /\ Goto(t, "emitting")
  /\ UNCHANGED <<server, service, discovered, handlers, request, ends, met, troubled, overlapped>>

\* Each handler writes the record; without one it is lost (INFO is below what
\* logging's handler of last resort shows).
Emit(t) ==
  /\ At(t, "emitting")
  /\ written' = [written EXCEPT ![t] = handlers]
  /\ End(t, outcome[t])
  /\ UNCHANGED <<server, globals, met, troubled, overlapped>>

-----------------------------------------------------------------------------
\* gunicorn kills the process over a request, and starts another.
Kill ==
  /\ server = "gunicorn"
  /\ \E t \in Threads : Active(t) /\ End(t, "killed")
  /\ service' = None /\ discovered' = {} /\ configured' = FALSE /\ handlers' = 0
  /\ overlapped' = FALSE
  /\ UNCHANGED <<server, written, met, troubled>>

\* The directory of the log is unmounted, or permissions change.
Trouble ==
  /\ ~troubled /\ troubled' = TRUE
  /\ UNCHANGED <<server, globals, pc, request, ends, met, overlapped>>

Step(t) == \/ Malformed(t) \/ Enter(t) \/ Build(t) \/ Return(t) \/ Validate(t) \/ Normalize(t)
           \/ NextCall(t) \/ LastCall(t) \/ CallRetried(t) \/ CallFailed(t) \/ CallRaised(t)
           \/ Log(t) \/ Clear(t) \/ CannotOpen(t) \/ AddHandler(t) \/ Mark(t) \/ Emit(t)

Next == \/ \E t \in Threads : (\E o \in Operations : Receive(t, o)) \/ Step(t)
        \/ Kill
        \/ Trouble

Spec == Init /\ [][Next]_vars

(* Connecting and each read have timeouts, and nothing here waits for another thread. *)
FairSpec == Spec /\ \A t \in Threads : WF_vars(Step(t))

-----------------------------------------------------------------------------
(* Properties *)

(***************************************************************************)
(* A request answered with a screen leaves exactly one audit record if     *)
(* Phone Manager was asked about it, and none if it was refused before, as *)
(* malformed: under gunicorn without exception; a record may be lost or    *)
(* doubled where two threads of one process have configured the log        *)
(* together (views.py:29-30, 57-62, services.py:132,                       *)
(* logging_utils.py:19-34).                                                *)
(***************************************************************************)
AuditedOnce ==
  \A t \in Threads : ~Active(t) /\ outcome[t] \in Screens =>
    /\ asked[t]  => written[t] = 1 \/ (overlapped /\ server = "runserver")
    /\ ~asked[t] => written[t] = 0

(***************************************************************************)
(* Threads that configured the log together may lose or double records,    *)
(* but not for good: when none of them is between clearing the handlers    *)
(* and adding its own, the log has one.  It stays without only where the   *)
(* file could not be opened by one of several that configured it together; *)
(* alone, that one would have tried again (logging_utils.py:27-34).        *)
(***************************************************************************)
LogComesBack ==
  configured /\ (\A t \in Threads : ~At(t, "opening"))
    => handlers > 0 \/ (troubled /\ overlapped)

(***************************************************************************)
(* CUCM is not called for a handset Phone Manager has not declared valid,  *)
(* of the supported model and with one line, whatever it answers.  It may  *)
(* be called for a handset whose mac or dn is null in that answer: the     *)
(* tests of lines 86-88 do not refuse it, and CUCM is asked for a line     *)
(* called None (phone_manager_client.py:61-88).                            *)
(***************************************************************************)
VouchedFirst == \A t \in Threads : pc[t] \in CucmCalls => request[t].vouched

(***************************************************************************)
(* Failures that can be foreseen end in a screen: no status, no timeout,   *)
(* lost connection, fault, refusal, version or body that is not JSON or    *)
(* XML makes a request end without one.  It does only if an answer was cut *)
(* short, parsed but of a shape that the interface does not have, or the   *)
(* schema unusable, or if the log could not be opened                      *)
(* (phone_manager_client.py:54-142, cucm_axl_client.py:179-201, 235-309,   *)
(* services.py:89, 155, 375, logging_utils.py:23-29).  The code promises   *)
(* less here than docs/phone_services_app_prompt.md:177, which asks for    *)
(* the unavailable screen on an unexpected schema, too.                    *)
(***************************************************************************)
ScreensUnlessOdd == \A t \in Threads : outcome[t] = "raised" => odd[t] \/ troubled

\* A thread, as a client that makes the calls of one request.
Kind(t) == IF pc[t] \in Logging \cup {"idle"} THEN "none" ELSE request[t].op

Stage(t) ==
  CASE pc[t] \in {"entering", "building", "returning", "validating"} -> "device"
    [] pc[t] = "normalizing"                -> "number"
    [] pc[t] \in {"discovering", "reading"} -> "read"
    [] pc[t] = "updating"                   -> "update"
    [] pc[t] = "applying"                   -> "apply"
    [] pc[t] = "confirming"                 -> "confirm"
    [] pc[t] \in Logging                    -> "over"
    [] OTHER                                -> "idle"

Verdict(t) == IF outcome[t] \in {"none", "success"} THEN outcome[t] ELSE "failed"

Protocol(t) == INSTANCE RequestProtocol WITH
  kind <- Kind(t), stage <- Stage(t), result <- Verdict(t)

(***************************************************************************)
(* The calls of a request follow the protocol that those of Diversion      *)
(* follow, under timeouts, retries, first use and any answer of Phone      *)
(* Manager: a request that fails while its record is written was over, and *)
(* none succeeds but after the calls that its success speaks of            *)
(* (services.py:82-421, phone_manager_client.py:48-118).                   *)
(***************************************************************************)
FollowsProtocol ==
  /\ \A t \in Threads : Protocol(t)!Init
  /\ [][\A t \in Threads : [Protocol(t)!Next]_(Protocol(t)!vars)]_vars

\* The most steps a request in hand can still take.
AttemptsLeft(t) == MaxAttempts - request[t].attempt

StepsLeft(t) ==
  CASE pc[t] = "idle"        -> 0
    [] pc[t] = "emitting"    -> 1
    [] pc[t] = "marking"     -> 2
    [] pc[t] = "opening"     -> 3
    [] pc[t] = "clearing"    -> 4
    [] pc[t] = "logging"     -> 5
    [] pc[t] = "confirming"  -> 6 + AttemptsLeft(t)
    [] pc[t] = "applying"    -> 6 + MaxAttempts + AttemptsLeft(t)
    [] pc[t] = "updating"    -> 6 + 2 * MaxAttempts + AttemptsLeft(t)
    [] pc[t] = "reading"     -> 6 + 3 * MaxAttempts + AttemptsLeft(t)
    [] pc[t] = "discovering" -> 6 + 4 * MaxAttempts + AttemptsLeft(t)
    [] pc[t] = "normalizing" -> 6 + 5 * MaxAttempts
    [] pc[t] = "validating"  -> 7 + 5 * MaxAttempts
    [] pc[t] = "returning"   -> 8 + 5 * MaxAttempts
    [] pc[t] = "building"    -> 9 + 5 * MaxAttempts
    [] pc[t] = "entering"    -> 10 + 5 * MaxAttempts

(***************************************************************************)
(* A request runs out of steps: each step of the process brings it nearer  *)
(* to its end, the record it leaves included, or is a step of another,     *)
(* which may replace the service object or configure the log meanwhile but *)
(* does not take this one back.  It waits at most twice for Phone Manager  *)
(* and MaxAttempts times for each of five AXL calls, whatever is answered; *)
(* how long that takes no timeout bounds (services.py:515-540,             *)
(* logging_utils.py:17-58, cucm_axl_client.py:235, 324).                   *)
(***************************************************************************)
RequestsRunOut ==
  [][\A t \in Threads :
       Active(t) => \/ StepsLeft(t)' < StepsLeft(t)
                    \/ /\ StepsLeft(t)' = StepsLeft(t)
                       /\ \/ \E u \in Threads \ {t} : StepsLeft(u)' # StepsLeft(u)
                          \/ troubled' # troubled]_vars

(***************************************************************************)
(* Threads that build a service object each, with a cache and a client of  *)
(* its own, soon all use the same one (services.py:515-540).               *)
(***************************************************************************)
OneServiceAtLast ==
  server = "runserver" /\ service # None
    ~> [](\A t \in Threads : request[t] # None => request[t].service \in {None, service})
=============================================================================
