# yealinkService in TLA+

A verification project for yealinkService, the Django service that lets Yealink
SIP-T33G handsets show and change Call Forward All (CFA) of their line at a Cisco
CUCM. It contains TLA+ modules, the TLC configurations that model-check them, and
theorems whose proofs TLAPS checks. Paths below are relative to the repository.

## 1. The system

| component | state it keeps | operations | interacts with |
|---|---|---|---|
| views and screens (`diversion/views.py`, `yealink_xml.py`, templates) | none; the handset's next request is a URL in the screen | status, enable (input form), set, disable, refresh, health | calls the service object; each exception of the service is one error screen |
| diversion service (`diversion/services.py`) | one service object per process, created on first use | `get_status`, `enable_diversion`, `disable_diversion` | Phone Manager, AXL client, cache, audit log |
| CFA cache (`diversion/cache.py`) | dict of entries with an expiry, behind one lock; one per process | get, set, invalidate, clear | called by the service; lock held inside one operation only |
| AXL client (`diversion/cucm_axl_client.py`) | detected version, schema, WSDL path, client, service, all unlocked | `get_line`, `update_call_forward_all`, `apply_line`, discovery of the version | CUCM over HTTPS, three attempts, each with 10 s to connect and 10 s for each read |
| Phone Manager client (`diversion/phone_manager_client.py`) | an HTTP session | validate a handset, normalise a number | Phone Manager over HTTP, one attempt, 5 s to connect and 5 s for each read |
| audit log (`diversion/logging_utils.py`) | append-only file | one record at the end of each handler | called by the service |
| settings, URLs (`yealinkService/`) | static | | read by all |
| supervision (`deployment/phone-services.service`) | two gunicorn worker processes, 60 s timeout | kill and replace a worker, restart the service | the processes |
| `dev.sh`, `scripts/` | pid file; checkout, virtualenv, units | start, stop, install, upgrade | the processes |
| CUCM, Phone Manager, the administrator (external) | the CFA settings of each line | `getLine`, `updateLine`, `applyLine` | the AXL client |

What is hard here:

* **Concurrency.** Two processes (production) or the threads of one (`dev.sh`,
  `runserver`) work on the same lines. Nothing is locked between reading a line and
  storing it in the cache, between reading it and updating it, or in
  `_ensure_service`.
* **Failure.** Each call to CUCM may time out after having been carried out, or be
  carried out after the client has given up; updateLine is repeated without knowing.
  applyLine and the confirming getLine come after the point of no return.
* **Staleness.** A cache per process, keyed by handset and not by line.
* **Restarts.** A worker is killed between two steps; its cache is lost, the update it
  sent is not. gunicorn kills it after 60 s, and a request can take longer: the timeouts of the
  calls bound connecting and each read, not a call, and loading the WSDL has none.
* **First use.** The service object, the AXL client's service and the audit logger are each
  created on first use, by a test and a set without a lock.

What makes each part correct: a cache answers with the last value stored and not yet
expired (`CfaCache`); an answer that claims to come from CUCM is one CUCM gave during
the request, and "Call Diversion Enabled" was true of the line while it was handled
(`AnswersAreFresh`); a cache shows only states the line has had
(`CacheHoldsRealStates`) and comes to agree with CUCM (`CachesConverge`), because nothing renews a
stale entry (`CachesHeal`); a change
touches nothing but the destination (`OnlyAdminChangesSearchSpaces`), is applied
(`AppliedUnlessDoubtful`), and in dry-run is not made (`DryRunInert`); every request
is answered (`RequestsAnswered`), because no step of anyone sends it back (`HandlersRunOut`,
`RequestsRunOut`, `CallsRunOut`); it makes its calls in one order, in which success can be reported
at three places only (`FollowsProtocol`), and all of this is a register for each line, written at
least once (`ImplementsRegister`); a call of the AXL client is at-least-once with a
bound (`ImplementsAxlCall`), and its lazy start forgets failures
(`FailuresAreForgotten`) and binds a usable schema of a version CUCM reported (`ServiceFits`); CUCM is called only for a handset Phone Manager vouches for
(`VouchedFirst`); failures that can be foreseen end in a screen (`ScreensUnlessOdd`), and a screen leaves one audit record, or
none if the request was malformed (`AuditedOnce`); what is created on first use is
created once in the end (`OneServiceAtLast`, `LogComesBack`).

The hazards this list comes from are in `PROJECT.json`, each at its line.

## 2. Modules

| module | models | state and actions |
|---|---|---|
| `ExpiringMap` | what the cache promises | a map whose entries may lapse; no clock |
| `CfaCache` | `cache.py` | `entries` is `_entries`; the lock is the variable `reading` (only a get is more than one step). A get is two actions, because it reads the clock twice: `GetBegin` prunes, `GetEnd` tests the entry again. |
| `CfaCacheProofs` | proofs | |
| `Diversion` | `services.py`, the views that call it, the caches, CUCM, restarts | see below |
| `MCDiversion` | deployments for TLC | `Forked`: a process per worker (gunicorn); `Threaded`: one process (runserver); `OwnLine`, `SharedLine`: which line a handset has |
| `DiversionProofs` | proofs | |
| `LineRegister` | what the service promises about the lines | see below |
| `RegisterProofs` | `Diversion` implements it | |
| `RequestProtocol` | what a handset may rely on about the calls of one request | see below |
| `RequestProofs` | `Diversion` implements it; steps of a handler; healing of caches | |
| `Handset` | the screens and the views, in front of `Diversion` | see below |
| `MCHandset` | the same deployments, with handsets | |
| `HandsetProofs` | proofs | |
| `LineProofs` | proofs about applied lines and stale caches | |
| `AxlCall` | what a call of the AXL client promises | send at most `MaxAttempts` times, return normally only if carried out |
| `AxlClient` | `cucm_axl_client.py` | one action for each assignment to an attribute in `_ensure_service`, the discovery, the retry loop |
| `MCAxlClient` | versions and schemas for TLC | |
| `AxlClientProofs` | proofs | |
| `PhoneManager` | `phone_manager_client.py` | no state: what one answer, or none, is turned into, testing it in the order of the code |
| `CucmAnswers` | `cucm_axl_client.py` | no state: what comes of one attempt of a call to CUCM: the result, another attempt, `CucmAxlError`, or an exception no handler expects |
| `ServiceProcess` | one worker process: `get_diversion_service`, `logging_utils.py`, the calls of one request and every answer to them, gunicorn | see below |
| `MCServiceProcess` | the answers of Phone Manager for TLC | |
| `ServiceProcessProofs` | proofs | |

### Diversion

`pc[w]` says where worker `w` is in its handler: `validating` and `normalizing` (calls
to Phone Manager), `looking` and `invalidating` (the cache, one lock acquisition each),
`reading` (the first getLine), `filling` (storing what a status read), `deciding` (the
comparisons that choose between idempotent, dry run and update), `updating`,
`applying`, `confirming` (updateLine, applyLine, the second getLine) and `verifying`
(the comparison with the confirmed state, the store, the answer).

`request[w]` holds the handler's arguments and locals: the operation, the handset, the
normalised destination (`wanted`, `None` for a disable), the latest state read
(`current`), and how many attempts of its updateLine were sent. It is `None` between
requests, so that states which differ only in dead locals are one.

Calls that only read (Phone Manager, getLine) are one step, at the instant they are
answered. An updateLine is three: it is sent (`DecideUpdate`, `UpdateRetry` put it into
`wire`), CUCM carries it out (`CucmUpdate`, at any later time, even after the sender
has gone), and it is answered (`UpdateReply`). A SOAP fault (`UpdateFault`) means it
never will be. `Fail` is any call failing for good: `unavailable` if the exception is one
the handlers catch, `raised` if it is not. applyLine is one step, since carrying it out
twice or late is the same as once; if its answer is lost it may or may not have
happened. A retried getLine or applyLine is the same as a slow one.

A disable and an enable are the same actions with `wanted = None` or a destination: the
two handlers have the same steps (`services.py:166/307`, `192/332`, `221-235/360-374`,
`247/386`, `258/399`). The two search space names travel together as one value.

`seen`, `held` and `doubtful` are history: the states a line had since a request arrived,
the states it ever had, and the lines on which an updateLine was repeated or not
confirmed.

### LineRegister

The abstract specification of `Diversion`: no handlers, no caches, no processes. A client begins a
query or a change on a register, tries its write at most `MaxAttempts` times, and ends; each try
takes effect at any later time, or never. It is not an atomic register, and cannot be: a change that
timed out for the service may still happen after a later one was confirmed. What it promises is
that tries are bounded, that each writes the destination of its change with a search space
the line had meanwhile, that a change is `done` only if its destination was the line's at some time
while it was under way, that a simulated change and a query write nothing, and that an operation
which is over leaves no more than tries already sent. In `Diversion`, `Register` is the INSTANCE:
`value` is `line`, `writes` is `wire`, `window` is `seen`, and the operation and the
result of a client are `OperationOnLine` and `Result` of a worker.

### RequestProtocol

The abstract specification of one client that handles one request after the other: which call
follows which for a query, an enable and a disable, at which of them success may be reported, that any of them
may be the last, and that a request may be turned away before the first. `Diversion` and
`ServiceProcess` model one handler from two sides, and both implement this module, once per worker
or thread (`Protocol(w)`, `Protocol(t)`; `Kind`, `Stage` and `Verdict` are the mapping). It is
where the two models meet: what one leaves out (caches and lines there, objects and records here) is
a stutter of the protocol, and neither has an order of calls that the other lacks a name for. A retry, the discovery
of the version, and the comparison after a getLine are stutters; a kill is an `Answer` that failed, at
whatever stage; writing the record is `Leave`, which only `ServiceProcess` has as a step of its own.

`FollowsProtocol` is written out as `Protocol(w)!Init` and `[][...]_vars` under the quantifier, because
the worker is a parameter of the INSTANCE.

### Handset

`Handset` EXTENDS `Diversion` and composes its actions with what the handset does: `screen[d]`
is the template a handset shows, `pending[d]` the URL it waits for and the worker that handles it.
`Links` is the URLs in each template (soft keys, `URL`, `CancelURL`, `doneAction`,
`cancelAction`), `OperationOf` the URL patterns, `Rendered` the views' choice of a template.
`Press` conjoins `ReceiveQuery` or `ReceiveChange`; `Serve` conjoins `Handle` and, in the step in
which the handler ends, shows the screen; `Crash` conjoins `Restart`. A handset waits for one
answer at a time but may `Abandon` it: the worker goes on, and the handset may ask again.

### AxlClient

The attributes of the client object are variables shared by all calls, as in the
code: a call that has detected version 14 may resolve the schema of the version
another thread detected a moment later. `Build` and `Bind` fail, with an exception that
no handler expects, for a schema that is on disk but not `Usable`: one zeep cannot load, or
without the AXL binding. `excused` is history: for a call under way, that something failed or
that CUCM had a version without a usable schema; so is `reported`, the versions CUCM has named.
A call is `getLine`, `updateLine` or `applyLine`; the client treats them alike but for `Misread`: get_line
looks into the answer, and raises if there is no line in it.

### PhoneManager, CucmAnswers and ServiceProcess

`PhoneManager` and `CucmAnswers` say what each possible answer of the two servers becomes, testing it in the
order of the code. A JSON null for `mac` or `dn` is one of them: `str` makes it `NONE` or `None`, which is not empty, so
that the answer passes and CUCM is asked for a line of that name. For a normalised destination null is
the same as absent.

`Diversion` has the effect of the calls on lines and caches. `ServiceProcess` has the other half of a
request: the objects it creates, every answer it may get, and the record it leaves. It has one process;
processes do not share objects.

`server` is chosen at the start. Under `gunicorn` (sync workers) a request begins when no other is
in hand, and `Kill` may end the process at any point of it, and with it everything
created in it. Under `runserver` each thread of `Threads`
takes requests, and nothing is killed. `pc[t]` goes through `entering`, `building`, `returning` (the test, the set and the return
of `get_diversion_service`: what is returned is the global, not the object just built),
`validating`, `normalizing`, the AXL calls (`discovering` is `_ensure_service` in the first call
of a client, then `reading`, `updating`, `applying`, `confirming`), and `log_audit`: `logging` (the test
of `_configured`), `clearing`, `opening`, `marking`, `emitting`. `service` is `_service_instance`, named by
the thread that built it; `handlers` counts the file handlers of the logger. `outcome[t]` is the answer to the
latest request: `success`, `unavailable`, `invalid`, `malformed` (refused before anything is called, without a record), `raised`
(an exception no handler expects: an HTTP error instead of a screen), or `killed`.

`Attempt(t, result)` chooses an answer to the attempt the thread waits for, and each of `NextCall`, `LastCall`, `CallRetried`,
`CallFailed` and `CallRaised` is what the code does with one class of results. `troubled` says that the log is out of reach, from
the start or from some point on; opening it may then fail (`CannotOpen`).

There is no clock. `timeout=10` in requests and zeep bounds connecting and each read from the socket, so that a call may take any
multiple of it, and loading a WSDL has no timeout of its own. How long a request takes is therefore
bounded only by gunicorn, which the model lets kill at any point; what the code does bound is the number of calls and attempts
(`RequestsRunOut`).

`asked`, `odd`, `overlapped` and the field `vouched` are history.

## 3. Runs

Every run explores the whole state space of its instance.

| run | asks | bounds |
|---|---|---|
| `CfaCache` | does the cache implement `ExpiringMap`, and does a TTL of 0 switch it off? | 2 keys, 2 values, TTL 0 or 2, clock to 5: an entry can be renewed, expire between the two clock readings of a get, and be pruned by a get of the other key |
| `DivForked` | are caches real, answers linearizable, lines applied and calls in order in production's two processes? | 2 processes, 1 handset, 2 destinations, 2 changes, 2 attempts, all failures |
| `DivDryRun` | is a dry run one? | 2 threads, 2 handsets on one line, 2 changes, 1 edit |
| `DivLive` | is every request answered, do the caches recover, and by which steps; is the service a `LineRegister`? | 2 threads, 1 change, 1 edit, 1 restart, 2 attempts; requests that read are unbounded |
| `AxlClient` | do threads that discover the service together break each other, what is bound while CUCM is upgraded, is a call at-least-once, at most three times, and does it run out of steps? | 3 calls, 3 attempts, 3 failures, 1 upgrade, 4 versions (one unsupported, one whose schema is missing from disk, one whose schema is unusable) |
| `Handset` | is what the screens say true, and does it stay so when another process answers next? | 1 handset, 2 processes, 2 changes, 1 edit, 1 restart, 1 request given up, 1 attempt |
| `HandsetAlone` | can a change of one line disturb another, and when can a cache nobody works behind be stale? | 2 handsets with a line each, 2 threads of one process, 1 destination, 2 search spaces, 2 changes, 1 attempt, failures; no edits, restarts or abandons |
| `ServiceProcess` | does a process that creates its objects on first use settle, is each answer recorded once, is each answer of Phone Manager and CUCM classified and turned into a screen, does every request end, after calls in order? | gunicorn or runserver, 2 threads, 2 attempts, 42 answers of Phone Manager, all of CUCM; requests are unbounded |

Two of each thing are enough for the races here: each property speaks of one line, one
cache entry and one answer, and a race needs one other actor (another worker, the
administrator, or a late update). A change's attempts interact only through `wire`,
where two stragglers already arrive in both orders; `AxlClient` has all
three, and the theorems about `Diversion`, `AxlClient` and `ServiceProcess` any number. In `ServiceProcess` an attempt is a
first, a last, or both, and two show that the count starts anew with each call.
The bounds are `MaxChanges` (enables and disables), `MaxEdits`, `MaxRestarts`,
`MaxAttempts` (3 in the code), `MaxAbandons`, `MaxClock`, `MaxFailures` and `MaxUpgrades`. Requests that
only read are not bounded, and neither is any request in `ServiceProcess`; two threads are
enough there because the races are between a test and a set, of one global each.

Runs that expect a violation, each of a statement of the documentation:

| run | what it shows |
|---|---|
| `DivTwoCaches` | after a successful change, a status request to the other process still shows the old destination |
| `DivFailedChange` | a status fills the cache, a disable is carried out by CUCM but its answer lost: the handler ends with the old state still in the cache of its own process |
| `DivLostEdit` | an administrator's change of the search space between the getLine and the updateLine of a disable is undone |
| `AxlReset` | a connection reset in the body of an answer is neither retried nor turned into the unavailable screen |

The success screens lead to a refresh, so that `DivTwoCaches` is not what the handset that made the
change sees next (`SuccessThenTruth`); it is what it sees when the service is opened again, until
the entry expires or someone presses Refresh.

`DivTwoCaches` violates `StatusShowsLine`, which speaks of what a status shows, whichever process answers; `DivFailedChange`
violates `UpdatesInvalidate`, which speaks of the change itself and the one cache it could clear. `StatusShowsLine` has two more
violations, with other constants: with two threads
(`Threaded`), a status request that read the line before a change stores what it read
after the change stored its own; with two handsets on one line (`SharedLine`), the
other handset keeps its entry. `DivLostEdit` is the edge of `HandsetAlone`, and of the
theorem `SearchSpacesPreserved`, both of which exclude edits.

The code differs from the documentation in two more places, which the models have as the code does, and no run of their own shows:

* `docs/phone_services_app_prompt.md:177` asks for the unavailable screen when an answer of Phone Manager has an unexpected schema. JSON
  that is not an object, and a `line_count` that is a list or an object, raise past the handlers
  (`phone_manager_client.py:75`, `83`, `138`): an HTTP error and no record. `ScreensUnlessOdd` has them under `odd`.
* A null `mac` or `dn` is not an incomplete answer (`phone_manager_client.py:86-88`): CUCM is asked about a line called `None`.

`AxlClient` and `AxlReset` switch deadlock checking off because their calls are made once and all
end. All others check it.

Definitions preceded by "Mutant:" are plausible mistakes in the action below them;
`PROJECT.json` says which property each of them violates when it takes the action's
place.

### Fairness

`DivLive` assumes weak fairness of each worker's own steps and of the expiry of each
cache entry. The code justifies both: connecting and each read of a call have a timeout (`settings.py:103`, `110`),
each loop is over `range(1, 4)`, the cache's lock is never held across a call, and the TTL is finite.
Nothing is assumed of CUCM: a request in `wire` may stay there for ever, since
the worker's fair steps include giving up. Requests need not arrive.

`ServiceProcess` assumes weak fairness of each thread's own steps, justified in the same way, and
by the fact that a thread never waits for another. `Kill` and the arrival of
requests are not fair; `OneServiceAtLast` holds without them.

The invariants of `ServiceProcess` excuse exactly what goes wrong in the code; each excuse was found by
leaving it out. Threads of runserver that configure the logger together lose a record or write it twice
(`overlapped`; never under gunicorn). A request ends without a screen if an answer was cut short or has a shape the interface
does not have, or zeep cannot use the schema (`odd`), or if the log cannot be opened (`troubled`). `odd` is a property of the answer
(`Misshapen`, `MisshapenContext`, `Unforeseen`), defined apart from what the code makes of it (`DeviceContext`,
`NormalizeNumber`, `Discovery`, `Operation`, `GetLine`): the claim is that every other answer
is caught. The doubtful lines of `Diversion` are excused in the same way: an update that was repeated or reported as
failed may leave a line unapplied or a cache stale, and these hazards are not covered by the properties that excuse them
(`PROJECT.json` says which are).

## 4. Proofs

TLAPS checks the following for all values of the constants that satisfy the named
assumptions (`ConstantsAssumption` in `Diversion`, `AxlClient` and `ServiceProcess`; TTLs are integers and `Nothing` is
neither key nor value in `CfaCache`). In particular for any number of processes, workers,
handsets and lines, any retry limit, and any number of changes, edits and restarts.

* `CfaCacheProofs!TypeCorrect`, `CacheImplementsMap`: the refinement of `ExpiringMap`. The map
  a reader sees (`Visible`) holds the entries still live at the current clock. A prune never
  changes it, because what it removes was not visible; a tick makes entries lapse; a
  set with a TTL of zero or less is a lapse, not a set.
* `CfaCacheProofs!ZeroTtlSwitchesOff`: the property alone is not inductive; the invariant adds
  that every entry is dead already.
* `DiversionProofs!TypeCorrect`: with the clause that a worker which has read the line holds a
  state (the handlers use `current_state` without a test for `None`).
* `DiversionProofs!CacheReal` and `AnswersFresh`: both follow from `HistoryInv`. A state held
  by a worker is in `seen` of that worker from the read on; `seen` of a worker is part of `held`
  of its line; a line's present state is in `held` and, for each active worker on it, in `seen`. A store can
  only put a held state into a cache, and an answer can only report one.
* `DiversionProofs!DryRunSendsNothing`: the property is inductive with the types: no worker gets past the decision, which
  is where the dry run branches off.
* `DiversionProofs!SearchSpacesPreserved`: while nobody edits (`MaxEdits = 0`), each worker that
  has read its line holds its search space, and so does each request in `wire`, so that an
  update writes back what is there. Without the assumption it is false (`DivLostEdit`).
* `HandsetProofs!HandsetsUseService`: each step of handsets and service is a step of `Diversion` or leaves it
  alone, so everything above holds behind any number of handsets.
* `HandsetProofs!HandsetsTyped`: strengthened by "what a handset waits for is a link of the screen it shows".
* `HandsetProofs!SuccessTrue` and `TruthAfterSuccess`: `PathInv` says which operation can be at which point of the
  handlers, `HandleEnds` with which outcomes each can therefore end, `ScreenIsAnswer` that a status or success screen
  appears only in the step that ends the request the handset waits for; the rest is `HistoryInv`.
* `RegisterProofs!ServiceImplementsRegister`: `DivLive`'s refinement, for any deployment. To `HistoryInv` (what a worker
  has read is in its `seen`) the invariant adds that nothing is sent before the decision to update and that only an enable has
  a number to normalise; each step of `Diversion` is then one of `LineRegister` or leaves it alone.
  A restart ends the operations of all clients of the process in one step.
* `LineProofs!AppliedOrDoubtful`: an update is known by its serial and attempt, so that a line is either applied, or in
  doubt, or the update that changed it last has a handler which will still apply it. `AppliedInv` says who that is.
* `LineProofs!StaleOrDoubtful`: for handsets that wait for each answer, in one process, with a line each that nobody
  else edits. Then at most one worker is on a line, and `StaleInv` says what it owes to the cache at each point: the cache agrees with the
  line, or the worker's update is under way, or it has the confirmed state in hand and will store it. Without
  the assumptions it is false: with two processes (`DivTwoCaches`), two workers for one handset, or two handsets on one line
  (section 3).
* `AxlClientProofs!TypeCorrect`, `ServiceBound`, `FailuresForgotten`, `ClientImplementsAxlCall`: no attribute is ever
  reset, so a call finds what it has set, though perhaps another's value. The invariant has two parts: what a call reads back at its
  place in the code has been set (`FoundBy`), and the requests it has sent are the attempts it counts (`Counted`). `ServiceBound` rests on
  `FitsInv`: every attribute holds a version CUCM has reported or the schema of one, and `service` only a usable one.
* `ServiceProcessProofs`: `RecordsComplete` (between `clearing` and `marking` a thread that is alone accounts for every
  handler, and a configured log has exactly one, unless threads overlapped; under gunicorn they never do; a request is asked about
  before it gets to the log, and a malformed one never is), `LogRestored` (a
  configured log without a handler has a thread that will add one), `CucmVouched`, and `ScreensShown` (by cases on
  the classification of each answer).
* `RequestProofs!StepsRunOut`, `ServiceProcessProofs!StepsRunOut`, `AxlClientProofs!StepsRunOut`: `StepsLeft` is a
  variant. It is a natural number with a bound given by the retry limit (`MaxAttempts + 7`, `10 + 5 * MaxAttempts`,
  `7 + 2 * MaxAttempts`), each step of a handler, thread or call lowers its own, and no step of another, of CUCM or of the
  administrator raises it. In `ServiceProcess` a kill needs `ServiceFound`: under gunicorn no other
  request can be in hand, so it ends this one. In `Diversion` the retry bound of an updateLine enters through
  the type of `request.attempt`.
* `RequestProofs!CalmHeals`: `Calm` (nothing in `wire`, no handler of a change, and each handler that will store a state
  holds the line's present one) is kept by every step but a change or an edit. `PathInv` excludes
  the steps that only changes take; then a store is of what the line has, and all other steps drop entries.
* `RequestProofs!ServiceFollowsProtocol`, `ServiceProcessProofs!ProcessFollowsProtocol`: one step of the protocol or a stutter
  for each action. `PathInv` is what the first needs: only a status looks into the cache (where success is
  allowed to a query only), only a refresh goes through `invalidating` and only a change gets to `deciding`. The second needs that a request not yet
  answered has its record (`TypeOK`) and that a kill hits the request in hand, at any stage, the one whose record is being written included.

Every safety property a passing run checks is proved. Model-checked only are the liveness properties
(`RequestsAnswered`, `CachesConverge`, `OneServiceAtLast`) and everything that speaks of fairness or `ENABLED`, which the prover does not
handle. Of the first two the safety half is proved: that steps run out (`HandlersRunOut`), and that nothing but what the line has
gets into a cache (`CachesHeal`). What TLC adds on its instance is that an active handler always has a step to take, and that fair
steps are taken: a stale entry then expires, or is replaced. The violations are shown by TLC alone.

## 5. What is not modelled

* The text of the screens, the prefilled destination, and the health page, which reads nothing that changes.
* Encoding and parsing (SOAP, JSON, URLs, XML screens), TLS and a TLS set-up that fails, configuration, the format of a log record: I/O without
  state of its own. The settings are constants of the modules; a setting that is not a number stops Django at its start.
* CUCM's own behaviour beyond "an updateLine takes effect atomically, at some time after it was sent, or never".
* `clear` of the cache in `Diversion` (nothing calls it; `CfaCache` has it).
* The vendored schemas; the version-to-schema mapping is a constant of `AxlClient`.
* The seconds a call or a request takes, which the code does not bound: entries expire and workers are killed at any moment.
* A write to the log that fails once it is open: `logging` reports it to stderr and goes on, and the record is lost.
* Installation and upgrade scripts, `dev.sh`: each is one sequence of commands of other programs (git, pip, systemctl,
  restorecon), stopped by `set -e` at the first failure. A model would be the list of the commands; the
  two hazards they have are in `PROJECT.json`, each a single order of events.
* Two service objects in `Diversion`: while a thread uses an object that another has replaced it works on a cache of its own, like a
  worker of another process, which `Forked` has.

## 6. Plan

The project was built in this order:

1. `ExpiringMap`, `CfaCache`, its proofs.
2. `Diversion`: all operations, failures, retries, restarts; its proofs.
3. `AxlCall`, `AxlClient`, its proofs.
4. `Handset`: screens and requests, composed with the service; its proofs.
5. `LineRegister`: the abstract specification of the service, its refinement checked (`DivLive`) and proved.
6. `PhoneManager`, `CucmAnswers`, `ServiceProcess`: single answers, first use by several threads, audit records; its proofs.
7. `LineProofs`: `AppliedUnlessDoubtful` and `StaleOnlyIfDoubtful`.
8. `RequestProtocol`, implemented by `Diversion` and `ServiceProcess`; the steps of handlers, requests and calls; `CachesHeal`:
   `RequestProofs` and the last parts of `ServiceProcessProofs` and `AxlClientProofs`.

Open: `SearchSpacesPreserved` line by line, for lines nobody has edited yet; the scripts, should they grow steps that can be interrupted and resumed; liveness, when the prover handles it.
