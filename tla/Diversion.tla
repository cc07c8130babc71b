------------------------------ MODULE Diversion ------------------------------
(***************************************************************************)
(* The call-diversion service: the request handlers of CallDiversionService*)
(* (diversion/services.py), each worker process's cache of Call Forward All*)
(* states, and the CUCM lines they read and update over AXL.               *)
(*                                                                         *)
(* A worker handles one handset request at a time.  Between two of its     *)
(* steps anything else may happen: other workers, the CUCM administrator,  *)
(* an updateLine that timed out and takes effect late, a process restart.  *)
(* Calls that only read are one step, at the instant CUCM answers; an      *)
(* updateLine is sent, takes effect and is answered in separate steps.     *)
(***************************************************************************)
EXTENDS Naturals

CONSTANTS
  Workers,        \* threads that handle requests
  Processes,      \* gunicorn worker processes, each with its own service object
  ProcessOf,      \* the process each worker runs in
  Devices,        \* handsets (MAC addresses); a cache key is one handset's line
  Lines,          \* CUCM directory numbers in the route partition
  LineOf,         \* the one line Phone Manager reports for a handset
  Destinations,   \* normalised diversion destinations
  SearchSpaces,   \* the two calling search space names of callForwardAll, as one value
  None,           \* Python's None
  DryRun,         \* DRY_RUN
  ApplyLine,      \* CUCM_APPLY_LINE_AFTER_UPDATE, and the AXL schema has applyLine
  MaxAttempts,    \* attempts of one AXL call (3 in the code)
  FaultyCalls,    \* whether calls to Phone Manager and CUCM may fail
  MaxChanges,     \* bound: enable and disable requests
  MaxEdits,       \* bound: changes the CUCM administrator makes
  MaxRestarts     \* bound: process restarts

ASSUME ConstantsAssumption ==
  /\ ProcessOf \in [Workers -> Processes]
  /\ LineOf \in [Devices -> Lines]
  /\ None \notin Destinations
  /\ DryRun \in BOOLEAN /\ ApplyLine \in BOOLEAN /\ FaultyCalls \in BOOLEAN
  /\ MaxAttempts \in Nat \ {0}
  /\ MaxChanges \in Nat /\ MaxEdits \in Nat /\ MaxRestarts \in Nat

\* CallForwardAllState: diversion is enabled when the destination is not None.
CfaState == [destination : Destinations \cup {None}, searchSpace : SearchSpaces]

VARIABLES
  line,        \* the callForwardAll settings of each line at CUCM
  unapplied,   \* lines updated by the service and not applied since
  wire,        \* updateLine requests sent and not (yet) carried out by CUCM
  cache,       \* cache[p][d]: what _cfa_cache of process p serves for handset d
  pc,          \* where each worker is in its handler
  request,     \* the handler's arguments and local variables
  outcome,     \* how the latest request of the worker ended
  seen,        \* history: states the line has had since the request arrived
  held,        \* history: every state a line has had
  doubtful,    \* history: lines an updateLine was retried on, or not confirmed for
  budget       \* what is left of the bounds

cucmVars   == <<line, unapplied, wire>>
workerVars == <<pc, request, outcome, seen>>
vars == <<cucmVars, cache, workerVars, held, doubtful, budget>>

Operations == {"status", "refresh", "enable", "disable"}
Changing   == {"enable", "disable"}
\* The points at which a worker waits for Phone Manager or for CUCM.
Calling    == {"validating", "normalizing", "reading", "updating", "applying", "confirming"}
Writing    == {"updating", "applying", "confirming", "verifying"}
\* The points at which the handler has read a state of the line.
Holding    == Writing \cup {"filling", "deciding"}
Busy       == Calling \cup Holding \cup {"looking", "invalidating"}
\* Answers that report what CUCM has just said: of a refresh or a status that
\* missed the cache, of a change that was not needed, of one that was made.
Fresh      == {"refreshed", "unchanged", "changed"}
Outcomes   == Fresh \cup {"none", "cached", "simulated", "invalid", "unavailable", "raised", "lost"}

Update == [from : Nat, try : Nat, line : Lines,
           destination : Destinations \cup {None}, searchSpace : SearchSpaces]

Request == [op      : Operations,
            device  : Devices,
            wanted  : Destinations \cup {None},  \* normalized_destination; None for a disable
            current : CfaState \cup {None},      \* current_state, line_state or confirmed_state
            serial  : Nat,                       \* identity of the change, in wire
            attempt : 0..MaxAttempts]            \* attempts made of its updateLine

WorkersTypeOK ==
  /\ pc \in [Workers -> {"idle"} \cup Busy]
  /\ request \in [Workers -> Request \cup {None}]
  /\ outcome \in [Workers -> Outcomes]
  /\ seen \in [Workers -> SUBSET CfaState]
  /\ \A w \in Workers : /\ pc[w] # "idle" => request[w] \in Request
                        /\ pc[w] \in Holding => request[w].current \in CfaState

TypeOK ==
  /\ line \in [Lines -> CfaState]
  /\ unapplied \subseteq Lines
  /\ wire \subseteq Update
  /\ cache \in [Processes -> [Devices -> CfaState \cup {None}]]
  /\ WorkersTypeOK
  /\ held \in [Lines -> SUBSET CfaState]
  /\ doubtful \subseteq Lines
  /\ budget \in [changes : Nat, edits : Nat, restarts : Nat]

Init ==
  /\ line \in [Lines -> CfaState]
  /\ unapplied = {} /\ wire = {} /\ doubtful = {}
  /\ cache = [p \in Processes |-> [d \in Devices |-> None]]
  /\ pc = [w \in Workers |-> "idle"]
  /\ request = [w \in Workers |-> None]
  /\ outcome = [w \in Workers |-> "none"]
  /\ seen = [w \in Workers |-> {}]
  /\ held = [l \in Lines |-> {line[l]}]
  /\ budget = [changes |-> MaxChanges, edits |-> MaxEdits, restarts |-> MaxRestarts]

-----------------------------------------------------------------------------
(* Helpers *)

Active(w) == pc[w] # "idle"
At(w, label) == pc[w] = label
Goto(w, label) == pc' = [pc EXCEPT ![w] = label]

LineOfWorker(w) == LineOf[request[w].device]
Entry(w) == cache[ProcessOf[w]][request[w].device]

\* Leave the handler, with the result it returns or the error it raises.
Finish(w, result) == /\ Goto(w, "idle")
                     /\ outcome' = [outcome EXCEPT ![w] = result]
                     /\ request' = [request EXCEPT ![w] = None]
                     /\ seen' = [seen EXCEPT ![w] = {}]

\* Go on to the next step of the handler.
Proceed(w, label) == Goto(w, label) /\ UNCHANGED <<outcome, seen>>

\* _store_cache, InMemoryCfaCache.set, and with None invalidate
Store(w, state) ==
  cache' = [cache EXCEPT ![ProcessOf[w]] = [@ EXCEPT ![request[w].device] = state]]

\* CUCM's settings of line l become state; the requests being handled see it.
LineBecomes(l, state) ==
  /\ line' = [line EXCEPT ![l] = state]
  /\ held' = [held EXCEPT ![l] = @ \cup {state}]
  /\ seen' = [w \in Workers |-> IF Active(w) /\ LineOfWorker(w) = l
                                THEN seen[w] \cup {state} ELSE seen[w]]

\* Mutant: the state read is kept on the service object, not in a local variable.
GetLineShared(w) ==
  request' = [x \in Workers |-> IF Active(x) THEN [request[x] EXCEPT !.current = line[LineOfWorker(w)]]
                                             ELSE request[x]]

\* getLine: the state CUCM has at that instant.
GetLine(w) == request' = [request EXCEPT ![w].current = line[LineOfWorker(w)]]

\* Mutant: the first attempt consumes the destination.
UpdateRequestConsumed(w, n) ==
  [from |-> request[w].serial, try |-> n, line |-> LineOfWorker(w),
   destination |-> IF n = 1 THEN request[w].wanted ELSE None,
   searchSpace |-> request[w].current.searchSpace]

\* The updateLine request of attempt n: it carries the search spaces of the
\* state read earlier, and the destination or the empty string.
UpdateRequest(w, n) ==
  [from |-> request[w].serial, try |-> n, line |-> LineOfWorker(w),
   destination |-> request[w].wanted, searchSpace |-> request[w].current.searchSpace]

-----------------------------------------------------------------------------
(* A request arrives *)

Accept(w, d, o, id) ==
  /\ At(w, "idle")
  /\ Goto(w, "validating")
  /\ request' = [request EXCEPT ![w] = [op |-> o, device |-> d, wanted |-> None,
                                        current |-> None, serial |-> id, attempt |-> 0]]
  /\ seen' = [seen EXCEPT ![w] = {line[LineOf[d]]}]
  /\ outcome' = [outcome EXCEPT ![w] = "none"]
  /\ UNCHANGED <<cucmVars, cache, held, doubtful>>

\* status_view and enable_view (the input form), refresh_view
ReceiveQuery(w, d, o) ==
  /\ o \notin Changing
  /\ Accept(w, d, o, 0)
  /\ UNCHANGED budget

\* set_view, disable_view
ReceiveChange(w, d, o) ==
  /\ o \in Changing
  /\ budget.changes > 0
  /\ Accept(w, d, o, budget.changes)
  /\ budget' = [budget EXCEPT !.changes = @ - 1]

\* _validate_destination refuses what was entered before any call is made.
ReceiveMalformed(w) ==
  /\ At(w, "idle")
  /\ Finish(w, "invalid")
  /\ UNCHANGED <<cucmVars, cache, held, doubtful, budget>>

-----------------------------------------------------------------------------
(* Phone Manager *)

\* Mutant: a disable looks into the cache before it asks CUCM.
ValidateCached(w) ==
  /\ At(w, "validating")
  /\ Proceed(w, CASE request[w].op = "refresh" -> "invalidating"
                  [] request[w].op = "enable"  -> "normalizing"
                  [] OTHER                     -> "looking")
  /\ UNCHANGED <<cucmVars, cache, request, held, doubtful, budget>>

\* validate_device_context succeeds: each operation goes its own way.
Validate(w) ==
  /\ At(w, "validating")
  /\ Proceed(w, CASE request[w].op = "status"  -> "looking"
                  [] request[w].op = "refresh" -> "invalidating"
                  [] request[w].op = "enable"  -> "normalizing"
                  [] request[w].op = "disable" -> "reading")
  /\ UNCHANGED <<cucmVars, cache, request, held, doubtful, budget>>

\* Phone Manager does not vouch for the handset, or refuses to normalise for it.
Refuse(w) ==
  /\ At(w, "validating") \/ At(w, "normalizing")
  /\ Finish(w, "unavailable")
  /\ UNCHANGED <<cucmVars, cache, held, doubtful, budget>>

\* normalize_number: a destination, or a 400 or an answer without one.
Normalize(w) ==
  /\ At(w, "normalizing")
  /\ \/ /\ \E d \in Destinations : request' = [request EXCEPT ![w].wanted = d]
        /\ Proceed(w, "reading")
     \/ Finish(w, "invalid")
  /\ UNCHANGED <<cucmVars, cache, held, doubtful, budget>>

-----------------------------------------------------------------------------
(* _get_line_state: the cache, and getLine *)

\* Mutant: a hit is stored again, which gives the entry a new lease.
LookSliding(w) ==
  /\ At(w, "looking")
  /\ \/ /\ Entry(w) # None
        /\ request' = [request EXCEPT ![w].current = Entry(w)]
        /\ Proceed(w, "filling")
     \/ /\ Entry(w) = None
        /\ Proceed(w, "reading")
        /\ UNCHANGED request
  /\ UNCHANGED <<cucmVars, cache, held, doubtful, budget>>

Look(w) ==
  /\ At(w, "looking")
  /\ \/ /\ Entry(w) # None
        /\ Finish(w, "cached")
     \/ /\ Entry(w) = None
        /\ Proceed(w, "reading")
        /\ UNCHANGED request
  /\ UNCHANGED <<cucmVars, cache, held, doubtful, budget>>

Invalidate(w) ==
  /\ At(w, "invalidating")
  /\ Store(w, None)
  /\ Proceed(w, "reading")
  /\ UNCHANGED <<cucmVars, request, held, doubtful, budget>>

Read(w) ==
  /\ At(w, "reading")
  /\ GetLine(w)
  /\ Proceed(w, IF request[w].op \in Changing THEN "deciding" ELSE "filling")
  /\ UNCHANGED <<cucmVars, cache, held, doubtful, budget>>

Fill(w) ==
  /\ At(w, "filling")
  /\ Store(w, request[w].current)
  /\ Finish(w, "refreshed")
  /\ UNCHANGED <<cucmVars, held, doubtful, budget>>

-----------------------------------------------------------------------------
(* enable_diversion and disable_diversion, from the state read to the update *)

AsWanted(w) == request[w].current.destination = request[w].wanted

\* "idempotent" or "already-disabled"
DecideUnchanged(w) ==
  /\ At(w, "deciding")
  /\ AsWanted(w)
  /\ Store(w, request[w].current)
  /\ Finish(w, "unchanged")
  /\ UNCHANGED <<cucmVars, held, doubtful, budget>>

\* Mutant: the simulated state is cached.
DecideSimulatedStored(w) ==
  /\ At(w, "deciding")
  /\ ~AsWanted(w) /\ DryRun
  /\ Store(w, [request[w].current EXCEPT !.destination = request[w].wanted])
  /\ Finish(w, "simulated")
  /\ UNCHANGED <<cucmVars, held, doubtful, budget>>

\* "dry-run": the state an update would lead to is returned and not stored.
DecideSimulated(w) ==
  /\ At(w, "deciding")
  /\ ~AsWanted(w) /\ DryRun
  /\ Finish(w, "simulated")
  /\ UNCHANGED <<cucmVars, cache, held, doubtful, budget>>

SendUpdate(w, n) ==
  /\ wire' = wire \cup {UpdateRequest(w, n)}
  /\ request' = [request EXCEPT ![w].attempt = n]
  /\ UNCHANGED <<line, unapplied>>

\* Mutant: the dry run is forgotten on disable.
DecideUpdateDisabling(w) ==
  /\ At(w, "deciding")
  /\ ~AsWanted(w) /\ (DryRun => request[w].op = "disable")
  /\ SendUpdate(w, 1)
  /\ Proceed(w, "updating")
  /\ UNCHANGED <<cache, held, doubtful, budget>>

\* Mutant: the cache is given the new state before CUCM has confirmed it.
DecideUpdateOptimistic(w) ==
  /\ At(w, "deciding")
  /\ ~AsWanted(w) /\ ~DryRun
  /\ SendUpdate(w, 1)
  /\ Store(w, [request[w].current EXCEPT !.destination = request[w].wanted])
  /\ Proceed(w, "updating")
  /\ UNCHANGED <<held, doubtful, budget>>

DecideUpdate(w) ==
  /\ At(w, "deciding")
  /\ ~AsWanted(w) /\ ~DryRun
  /\ SendUpdate(w, 1)
  /\ Proceed(w, "updating")
  /\ UNCHANGED <<cache, held, doubtful, budget>>

-----------------------------------------------------------------------------
(* The updateLine call *)

\* CUCM carries out an updateLine request, perhaps long after the client that
\* sent it has given up on it.
CucmUpdate(m) ==
  /\ wire' = wire \ {m}
  /\ LineBecomes(m.line, [destination |-> m.destination, searchSpace |-> m.searchSpace])
  /\ unapplied' = unapplied \cup {m.line}
  /\ UNCHANGED <<cache, pc, request, outcome, doubtful, budget>>

LatestUpdate(w) == UpdateRequest(w, request[w].attempt)

\* Mutant: a disable is not followed by applyLine.
UpdateReplyUnapplied(w) ==
  /\ At(w, "updating")
  /\ LatestUpdate(w) \notin wire
  /\ Proceed(w, IF ApplyLine /\ request[w].op = "enable" THEN "applying" ELSE "confirming")
  /\ UNCHANGED <<cucmVars, cache, request, held, doubtful, budget>>

\* The answer to the latest attempt.
UpdateReply(w) ==
  /\ At(w, "updating")
  /\ LatestUpdate(w) \notin wire
  /\ Proceed(w, IF ApplyLine THEN "applying" ELSE "confirming")
  /\ UNCHANGED <<cucmVars, cache, request, held, doubtful, budget>>

\* Mutant: one attempt too many.
UpdateRetryExtra(w) ==
  /\ FaultyCalls
  /\ At(w, "updating")
  /\ request[w].attempt <= MaxAttempts
  /\ SendUpdate(w, request[w].attempt + 1)
  /\ doubtful' = doubtful \cup {LineOfWorker(w)}
  /\ UNCHANGED <<cache, pc, outcome, seen, held, budget>>

\* Mutant: attempts are not counted.
UpdateRetryForever(w) ==
  /\ FaultyCalls
  /\ At(w, "updating")
  /\ SendUpdate(w, request[w].attempt)
  /\ doubtful' = doubtful \cup {LineOfWorker(w)}
  /\ UNCHANGED <<cache, pc, outcome, seen, held, budget>>

\* A timeout, a lost connection or a transient status: send it again, whether
\* or not CUCM has carried it out.
UpdateRetry(w) ==
  /\ FaultyCalls
  /\ At(w, "updating")
  /\ request[w].attempt < MaxAttempts
  /\ SendUpdate(w, request[w].attempt + 1)
  /\ doubtful' = doubtful \cup {LineOfWorker(w)}
  /\ UNCHANGED <<cache, pc, outcome, seen, held, budget>>

\* A SOAP fault: CUCM does not carry the request out, and it is not repeated.
UpdateFault(w) ==
  /\ FaultyCalls
  /\ At(w, "updating")
  /\ LatestUpdate(w) \in wire
  /\ wire' = wire \ {LatestUpdate(w)}
  /\ Finish(w, "unavailable")
  /\ UNCHANGED <<line, unapplied, cache, held, doubtful, budget>>

-----------------------------------------------------------------------------
(* applyLine, and the getLine that confirms *)

Apply(w) ==
  /\ At(w, "applying")
  /\ unapplied' = unapplied \ {LineOfWorker(w)}
  /\ Proceed(w, "confirming")
  /\ UNCHANGED <<line, wire, cache, request, held, doubtful, budget>>

Confirm(w) ==
  /\ At(w, "confirming")
  /\ GetLine(w)
  /\ Proceed(w, "verifying")
  /\ UNCHANGED <<cucmVars, cache, held, doubtful, budget>>

\* Mutant: whatever getLine answers confirms the change.
VerifyUnchecked(w) ==
  /\ At(w, "verifying")
  /\ Store(w, request[w].current)
  /\ Finish(w, "changed")
  /\ UNCHANGED <<cucmVars, held, doubtful, budget>>

\* Mutant: the confirmed state is not stored.
VerifyUnstored(w) ==
  /\ At(w, "verifying")
  /\ AsWanted(w)
  /\ Finish(w, "changed")
  /\ UNCHANGED <<cucmVars, cache, held, doubtful, budget>>

VerifyConfirmed(w) ==
  /\ At(w, "verifying")
  /\ AsWanted(w)
  /\ Store(w, request[w].current)
  /\ Finish(w, "changed")
  /\ UNCHANGED <<cucmVars, held, doubtful, budget>>

\* "CUCM confirmation mismatch": another change came in between.
VerifyMismatch(w) ==
  /\ At(w, "verifying")
  /\ ~AsWanted(w)
  /\ Finish(w, "unavailable")
  /\ doubtful' = doubtful \cup {LineOfWorker(w)}
  /\ UNCHANGED <<cucmVars, cache, held, budget>>

-----------------------------------------------------------------------------
(* Failures, time, restarts and the CUCM administrator *)

\* Lines of the changes these workers have begun and not confirmed.
InDoubt(W) == {LineOfWorker(w) : w \in {x \in W : pc[x] \in Writing}}

\* A call fails for good.  PhoneManagerError and CucmAxlError are answered with
\* the unavailable screen; any other exception leaves the handler.  An applyLine
\* whose answer is lost may have been carried out.
Fail(w) ==
  /\ FaultyCalls
  /\ pc[w] \in Calling
  /\ \E result \in {"unavailable", "raised"} : Finish(w, result)
  /\ doubtful' = doubtful \cup InDoubt({w})
  /\ \/ UNCHANGED unapplied
     \/ At(w, "applying") /\ unapplied' = unapplied \ {LineOfWorker(w)}
  /\ UNCHANGED <<line, wire, cache, held, budget>>

\* The TTL of an entry runs out (CfaCache.tla has the clock).
Expire(p, d) ==
  /\ cache[p][d] # None
  /\ cache' = [cache EXCEPT ![p] = [@ EXCEPT ![d] = None]]
  /\ UNCHANGED <<cucmVars, workerVars, held, doubtful, budget>>

\* A worker process is killed, by gunicorn's timeout or with the service, and
\* replaced: its cache is empty and the requests it handled are never answered.
Restart(p) ==
  LET Killed == {w \in Workers : ProcessOf[w] = p /\ Active(w)}
  IN /\ budget.restarts > 0
     /\ budget' = [budget EXCEPT !.restarts = @ - 1]
     /\ cache' = [cache EXCEPT ![p] = [d \in Devices |-> None]]
     /\ pc' = [w \in Workers |-> IF w \in Killed THEN "idle" ELSE pc[w]]
     /\ request' = [w \in Workers |-> IF w \in Killed THEN None ELSE request[w]]
     /\ outcome' = [w \in Workers |-> IF w \in Killed THEN "lost" ELSE outcome[w]]
     /\ seen' = [w \in Workers |-> IF w \in Killed THEN {} ELSE seen[w]]
     /\ doubtful' = doubtful \cup InDoubt(Killed)
     /\ UNCHANGED <<cucmVars, held>>

\* The administrator changes the Call Forward All settings of a line.
AdminEdit(l) ==
  /\ budget.edits > 0
  /\ budget' = [budget EXCEPT !.edits = @ - 1]
  /\ \E state \in CfaState \ {line[l]} : LineBecomes(l, state)
  /\ UNCHANGED <<unapplied, wire, cache, pc, request, outcome, doubtful>>

-----------------------------------------------------------------------------
Receive(w) == \/ \E d \in Devices, o \in Operations : ReceiveQuery(w, d, o) \/ ReceiveChange(w, d, o)
              \/ ReceiveMalformed(w)

\* One step of the handler worker w is running.
Handle(w) == \/ Validate(w) \/ Refuse(w) \/ Normalize(w)
             \/ Look(w) \/ Invalidate(w) \/ Read(w) \/ Fill(w)
             \/ DecideUnchanged(w) \/ DecideSimulated(w) \/ DecideUpdate(w)
             \/ UpdateReply(w) \/ UpdateRetry(w) \/ UpdateFault(w)
             \/ Apply(w) \/ Confirm(w) \/ VerifyConfirmed(w) \/ VerifyMismatch(w)
             \/ Fail(w)

Next == \/ \E w \in Workers : Receive(w) \/ Handle(w)
        \/ \E m \in wire : CucmUpdate(m)
        \/ \E p \in Processes, d \in Devices : Expire(p, d)
        \/ \E p \in Processes : Restart(p)
        \/ \E l \in Lines : AdminEdit(l)

Spec == Init /\ [][Next]_vars

(***************************************************************************)
(* Every call has a timeout for connecting and for each read (settings.py, *)
(* 5 s and 10 s), so that a silent Phone Manager or CUCM never holds a     *)
(* handler for good, and a cache entry always expires.  CUCM owes nothing: *)
(* a request that timed out may take effect late or never.                 *)
(***************************************************************************)
Fairness == /\ \A w \in Workers : WF_vars(Handle(w))
            /\ \A p \in Processes, d \in Devices : WF_vars(Expire(p, d))

FairSpec == Spec /\ Fairness

-----------------------------------------------------------------------------
(* Properties *)

Quiet == wire = {} /\ \A w \in Workers : ~Active(w)

CacheAgrees(p, d) == cache[p][d] \in {None, line[LineOf[d]]}

(***************************************************************************)
(* What a cache serves is a state the handset's line has really had: never *)
(* the simulated state of a dry run (services.py:193-196), never the       *)
(* destination of an update CUCM has not confirmed.                        *)
(***************************************************************************)
CacheHoldsRealStates ==
  \A p \in Processes, d \in Devices : cache[p][d] \in held[LineOf[d]] \cup {None}

(***************************************************************************)
(* An answer that does not come from the cache is linearizable: the state  *)
(* it reports is one the line had between the request and the answer, and  *)
(* after a change it has the destination asked for (services.py:166, 247,  *)
(* 307, 386), whatever other workers, retries and late updates do.         *)
(***************************************************************************)
AnswersAreFresh ==
  [][\A w \in Workers : Active(w) /\ pc'[w] = "idle" /\ outcome'[w] \in Fresh =>
       /\ request[w].current \in seen[w]
       /\ request[w].op \in Changing => AsWanted(w)]_vars

\* The operation of worker w, as a client of the lines.
OperationOnLine(w) ==
  IF Active(w) THEN [kind |-> IF request[w].op \in Changing THEN "change" ELSE "query",
                     line |-> LineOfWorker(w), wanted |-> request[w].wanted, tries |-> request[w].attempt]
               ELSE [kind |-> "none"]

Result(w) ==
  CASE outcome[w] = "none"                     -> "none"
    [] outcome[w] \in {"changed", "unchanged"} -> "done"
    [] outcome[w] \in {"refreshed", "cached"}  -> "answered"
    [] outcome[w] = "simulated"                -> "simulated"
    [] OTHER                                   -> "failed"

Register == INSTANCE LineRegister WITH
  Clients   <- Workers,
  value     <- line,
  writes    <- wire,
  operation <- [w \in Workers |-> OperationOnLine(w)],
  window    <- seen,
  result    <- [w \in Workers |-> Result(w)]

(***************************************************************************)
(* The service is a register for each line, written at least once and at   *)
(* most MaxAttempts times by each change: only changes write, a try writes *)
(* what its handler was asked for and the search space its handler read,   *)
(* every try takes effect at most once, and a change reported as made or   *)
(* not needed was in effect while it was handled (services.py:221-281,     *)
(* 360-421, cucm_axl_client.py:203-219, 235-280).                          *)
(***************************************************************************)
ImplementsRegister == Register!Spec

\* A worker, as a client that makes the calls of one request.
Kind(w) == IF ~Active(w) THEN "none" ELSE IF request[w].op \in Changing THEN request[w].op ELSE "query"

Stage(w) ==
  CASE pc[w] \in {"validating", "looking", "invalidating"} -> "device"
    [] pc[w] = "normalizing"                               -> "number"
    [] pc[w] \in {"reading", "filling", "deciding"}        -> "read"
    [] pc[w] = "updating"                                  -> "update"
    [] pc[w] = "applying"                                  -> "apply"
    [] pc[w] \in {"confirming", "verifying"}               -> "confirm"
    [] OTHER                                               -> "idle"

Verdict(w) == CASE outcome[w] = "none"                             -> "none"
                [] outcome[w] \in Fresh \cup {"cached", "simulated"} -> "success"
                [] OTHER                                            -> "failed"

Protocol(w) == INSTANCE RequestProtocol WITH
  kind <- Kind(w), stage <- Stage(w), result <- Verdict(w)

(***************************************************************************)
(* Whatever fails, each request makes its calls in the protocol's order: a *)
(* query never gets to an update, nobody is told of a success before CUCM  *)
(* has been read (or, for a query, the cache), and a change that was sent  *)
(* succeeds only after the getLine that confirms it (services.py:82-421).  *)
(***************************************************************************)
FollowsProtocol ==
  /\ \A w \in Workers : Protocol(w)!Init
  /\ [][\A w \in Workers : [Protocol(w)!Next]_(Protocol(w)!vars)]_vars

(***************************************************************************)
(* With DRY_RUN no updateLine and no applyLine is ever sent, on any path   *)
(* (services.py:192, 332), whatever was read before.  The handset is shown *)
(* the success screen all the same (views.py:77-84, 112-118).              *)
(***************************************************************************)
DryRunInert == DryRun => wire = {} /\ \A w \in Workers : pc[w] \notin Writing

(***************************************************************************)
(* Only the administrator changes the calling search spaces of a line: an  *)
(* update rewrites the ones it read (cucm_axl_client.py:215-216).          *)
(***************************************************************************)
OnlyAdminChangesSearchSpaces ==
  [][\A l \in Lines : line'[l].searchSpace # line[l].searchSpace
                        => budget'.edits < budget.edits]_vars

(***************************************************************************)
(* With nothing else in progress, a status request answered from a cache   *)
(* shows what CUCM has: no entry, of this process or of another, outlives  *)
(* the update that changed the line (services.py:236-245, 441-445).        *)
(***************************************************************************)
StatusShowsLine ==
  [][\A w \in Workers :
       /\ Look(w) /\ outcome'[w] = "cached"
       /\ wire = {} /\ \A x \in Workers \ {w} : ~Active(x)
       => Entry(w) = line[LineOfWorker(w)]]_vars

(***************************************************************************)
(* A change invalidates: when the handler of a change that has sent its    *)
(* update ends, however it ends, and no update is on its way, the cache of *)
(* its process holds nothing for the handset but what CUCM has             *)
(* (services.py:236-245, 375-384).                                         *)
(***************************************************************************)
UpdatesInvalidate ==
  [][\A w \in Workers :
       pc[w] \in Writing /\ pc'[w] = "idle" /\ wire = {}
         => cache'[ProcessOf[w]][request[w].device] \in {None, line'[LineOfWorker(w)]}]_vars

(***************************************************************************)
(* Where one process serves handsets that each have a line of their own,   *)
(* wait for each answer, and nobody else changes the lines, a cache is     *)
(* stale only after an updateLine that was repeated or that the service    *)
(* could not confirm (services.py:236-245, 375-384).                       *)
(***************************************************************************)
StaleOnlyIfDoubtful ==
  Quiet => \A p \in Processes, d \in Devices : LineOf[d] \notin doubtful => CacheAgrees(p, d)

(***************************************************************************)
(* With applyLine configured, a line CUCM has updated is left unapplied    *)
(* only by a request that was repeated or reported as failed: concurrent   *)
(* changes of one line cannot leave it so (services.py:229, 368).          *)
(***************************************************************************)
AppliedUnlessDoubtful ==
  ApplyLine /\ Quiet => unapplied \subseteq doubtful

\* The most steps the handler of worker w can still take.
StepsLeft(w) ==
  CASE pc[w] = "idle"                                       -> 0
    [] pc[w] \in {"filling", "verifying"}                   -> 1
    [] pc[w] = "confirming"                                 -> 2
    [] pc[w] = "applying"                                   -> 3
    [] pc[w] = "updating"                                   -> 4 + (MaxAttempts - request[w].attempt)
    [] pc[w] = "deciding"                                   -> 4 + MaxAttempts
    [] pc[w] = "reading"                                    -> 5 + MaxAttempts
    [] pc[w] \in {"looking", "invalidating", "normalizing"} -> 6 + MaxAttempts
    [] pc[w] = "validating"                                 -> 7 + MaxAttempts

(***************************************************************************)
(* A handler runs out of steps: each of its own brings it nearer to its    *)
(* answer, and nothing that other workers, CUCM, the administrator or the  *)
(* clock do takes it back.  No handler takes more than MaxAttempts + 7     *)
(* (services.py:124-281, 283-421, cucm_axl_client.py:235).                 *)
(***************************************************************************)
HandlersRunOut ==
  [][\A w \in Workers :
       Active(w) => \/ StepsLeft(w)' < StepsLeft(w)
                    \/ StepsLeft(w)' = StepsLeft(w) /\ ~Handle(w)]_vars

(***************************************************************************)
(* Every request is answered: attempts are bounded and no failure, retry   *)
(* or concurrent change keeps a handler going for ever.                    *)
(***************************************************************************)
RequestsAnswered == \A w \in Workers : Active(w) ~> ~Active(w)

\* No change of any line is under way, and no handler holds a state to store
\* that the line no longer has.
Calm ==
  /\ wire = {}
  /\ \A w \in Workers : Active(w) =>
       /\ request[w].op \notin Changing
       /\ At(w, "filling") => request[w].current = line[LineOfWorker(w)]

(***************************************************************************)
(* A calm service heals: until the next change or edit it stays calm, and  *)
(* an entry of a cache is only replaced by what its line has, or dropped.  *)
(* A stale entry is never renewed, nor given to another process            *)
(* (services.py:82-122, 424-446, cache.py).                                *)
(***************************************************************************)
CachesHeal ==
  [][Calm /\ budget'.changes = budget.changes /\ budget'.edits = budget.edits =>
       /\ Calm'
       /\ \A p \in Processes, d \in Devices :
            cache'[p][d] = cache[p][d] \/ CacheAgrees(p, d)']_vars

(***************************************************************************)
(* Once changes stop, status and refresh requests that never stop do not   *)
(* keep a stale state alive: each cache comes to agree with CUCM for good. *)
(***************************************************************************)
CachesConverge == <>[](\A p \in Processes, d \in Devices : CacheAgrees(p, d))
=============================================================================
