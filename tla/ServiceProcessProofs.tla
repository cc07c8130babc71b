------------------------- MODULE ServiceProcessProofs -------------------------
(* Theorems about ServiceProcess.tla, for any number of threads and attempts, *)
(* any answers of Phone Manager and every answer of CUCM.                     *)
EXTENDS ServiceProcess, TLAPS

\* Answers that leave a record.
Results == {"success", "unavailable", "invalid"}

\* What the tests of PhoneManagerClient amount to.
LEMMA Classification ==
  ASSUME NEW a \in Answers
  PROVE  /\ DeviceContext(a) = "ok" => Vouches(a)
         /\ DeviceContext(a) = "raised" => MisshapenContext(a)
         /\ NormalizeNumber(a) = "raised" => Misshapen(a)
<1>1. a \in Answer
  BY ConstantsAssumption
<1> QED BY <1>1 DEF Answer, DeviceContext, NormalizeNumber, Vouches, Misshapen, MisshapenContext

\* And those of CucmAxlClient: what escapes is an answer no interface has.
LEMMA EscapesUnforeseen ==
  /\ \A a \in Discoveries : Discovery(a) = "raised" => Unforeseen(a)
  /\ \A a \in LineReplies : GetLine(a) = "raised" => Unforeseen(a)
  /\ \A a \in Replies : Operation(a) = "raised" => Unforeseen(a)
BY DEF Discoveries, LineReplies, Replies, Failures, Discovery, GetLine, Operation, Unforeseen

\* An attempt at a call moves nothing but the history of the answers.
LEMMA AttemptTyped ==
  ASSUME TypeOK, NEW t \in Threads, NEW result, Attempt(t, result)
  PROVE  /\ pc[t] \in CucmCalls
         /\ odd' \in [Threads -> BOOLEAN]
         /\ result = "raised" => odd'[t]
         /\ \A u \in Threads \ {t} : odd'[u] = odd[u]
<1>1. PICK a \in Discoveries \cup LineReplies : Attempt(t, result)!(a)
  BY DEF Attempt
<1>2. Unforeseen(a) \in BOOLEAN
  BY DEF Unforeseen
<1> QED BY <1>1, <1>2, EscapesUnforeseen DEF TypeOK, At, CucmCalls

-----------------------------------------------------------------------------
(* Types *)

\* What is known of a thread's request and of the way it ends.
RequestsTyped ==
  /\ pc \in [Threads -> {"idle"} \cup Busy]
  /\ request \in [Threads -> Request \cup {None}]
  /\ \A t \in Threads : pc[t] \in Busy \ Logging => request[t] \in Request
  /\ outcome \in [Threads -> Outcomes]

\* Under gunicorn a request has the process to itself, which is why a process
\* that is killed leaves no other request without its service object.
OneAtATime == server = "gunicorn" =>
                \A t, u \in Threads : pc[t] # "idle" /\ pc[u] # "idle" => t = u

ServiceFound ==
  /\ OneAtATime
  /\ \A t \in Threads :
       /\ pc[t] = "returning" => service # None
       /\ pc[t] \in CucmCalls \cup {"validating", "normalizing"} => request[t].service # None

LEMMA EndTyped ==
  ASSUME TypeOK, NEW t \in Threads, NEW result \in Outcomes, End(t, result)
  PROVE  RequestsTyped'
BY DEF TypeOK, RequestsTyped, End, Goto, Busy, CucmCalls, Logging, Configuring

LEMMA ConcludeTyped ==
  ASSUME TypeOK, NEW t \in Threads, NEW result \in Results, Conclude(t, result)
  PROVE  RequestsTyped'
BY DEF TypeOK, RequestsTyped, Conclude, Goto, Busy, CucmCalls, Logging, Configuring, Outcomes, Screens, Results

\* A thread whose request is under way goes on with it.
LEMMA GotoTyped ==
  ASSUME TypeOK, NEW t \in Threads, NEW label \in Busy, Goto(t, label), request' = request,
         outcome' = outcome, request[t] \in Request \/ label \in Logging
  PROVE  RequestsTyped'
BY DEF TypeOK, RequestsTyped, Goto

LEMMA RequestTyped ==
  ASSUME TypeOK, NEW t \in Threads, NEW label \in Busy, Goto(t, label),
         NEW r \in Request, request' = [request EXCEPT ![t] = r], outcome' = outcome
  PROVE  RequestsTyped'
BY DEF TypeOK, RequestsTyped, Goto

LEMMA ReceiveTyped ==
  ASSUME TypeOK, NEW t \in Threads, NEW o \in Operations, Receive(t, o)
  PROVE  TypeOK'
<1> DEFINE r == [op |-> o, service |-> None, attempt |-> 1, vouched |-> FALSE]
<1>1. r \in Request
  BY ConstantsAssumption DEF Request
<1>2. outcome' \in [Threads -> Outcomes]
  BY DEF TypeOK, Receive, Outcomes, Screens
<1> HIDE DEF r
<1>3. RequestsTyped'
  <2>1. request' = [request EXCEPT ![t] = r] /\ pc' = [pc EXCEPT ![t] = "entering"]
    BY DEF Receive, r, Goto
  <2> QED BY <1>1, <1>2, <2>1 DEF TypeOK, RequestsTyped, Busy
<1> QED BY <1>3 DEF Receive, TypeOK, RequestsTyped, globals

LEMMA CallTyped ==
  ASSUME TypeOK, NEW t \in Threads, pc[t] \in CucmCalls
  PROVE  /\ request[t] \in Request /\ request[t].service \in Threads \cup {None}
         /\ request[t].attempt \in 1..MaxAttempts /\ request[t].op \in Operations
         /\ pc[t] # "idle" /\ request[t].vouched \in BOOLEAN
BY DEF TypeOK, Request, CucmCalls, Busy, Logging, Configuring

LEMMA TypeInit == Init => TypeOK
<1> SUFFICES ASSUME Init PROVE TypeOK
  OBVIOUS
<1>1. configured \in BOOLEAN /\ overlapped \in BOOLEAN /\ troubled \in BOOLEAN
  BY DEF Init
<1>2. odd \in [Threads -> BOOLEAN] /\ asked \in [Threads -> BOOLEAN] /\ written \in [Threads -> Nat]
  BY DEF Init
<1>3. RequestsTyped
  BY DEF Init, RequestsTyped, Outcomes, Screens, Busy, CucmCalls, Logging, Configuring
<1> QED BY <1>1, <1>2, <1>3 DEF Init, TypeOK, RequestsTyped

LEMMA TypeStep == TypeOK /\ ServiceFound /\ [Next]_vars => TypeOK'
<1> SUFFICES ASSUME TypeOK, ServiceFound, [Next]_vars PROVE TypeOK'
  OBVIOUS
<1> USE DEF globals, ends, met
<1>1. CASE UNCHANGED vars
  <2>1. UNCHANGED <<server, service, discovered, configured, handlers, pc, request, outcome,
                    written, asked, odd, troubled, overlapped>>
    BY <1>1 DEF vars
  <2> QED BY <2>1 DEF TypeOK
<1>2. CASE Kill
  <2>1. PICK t \in Threads : End(t, "killed")
    BY <1>2 DEF Kill
  <2>2. RequestsTyped'
    BY <2>1, EndTyped DEF Outcomes, Screens
  <2> QED BY <1>2, <2>2 DEF Kill, TypeOK, RequestsTyped
<1>3. ASSUME NEW t \in Threads, NEW o \in Operations, Receive(t, o) PROVE TypeOK'
  BY <1>3, ReceiveTyped
<1>4. ASSUME NEW t \in Threads, Step(t) PROVE TypeOK'
  <2> USE DEF At
  <2>1. CASE Malformed(t)
    <3>1. RequestsTyped'
      BY <2>1, EndTyped DEF Malformed, Outcomes, Screens
    <3> QED BY <2>1, <3>1 DEF Malformed, TypeOK, RequestsTyped
  <2>2. CASE Enter(t) \/ Build(t)
    <3>1. request[t] \in Request
      BY <2>2 DEF TypeOK, Enter, Build, Busy, Logging, Configuring
    <3>2. RequestsTyped'
      BY <2>2, <3>1, GotoTyped DEF Enter, Build, Busy
    <3> QED BY <2>2, <3>2 DEF Enter, Build, TypeOK, RequestsTyped
  <2>3. CASE Return(t)
    <3>1. request[t] \in Request /\ service \in Threads \cup {None}
      BY <2>3 DEF TypeOK, Return, Busy, Logging, Configuring
    <3> DEFINE r == [request[t] EXCEPT !.service = service]
    <3>2. r \in Request
      BY <3>1 DEF Request
    <3>3. request' = [request EXCEPT ![t] = r]
      BY <2>3 DEF Return
    <3> HIDE DEF r
    <3>4. RequestsTyped'
      BY <2>3, <3>2, <3>3, RequestTyped DEF Return, Busy
    <3> QED BY <2>3, <3>4 DEF Return, TypeOK, RequestsTyped
  <2>4. CASE Validate(t)
    <3>1. request[t] \in Request
      BY <2>4 DEF TypeOK, Validate, Busy, Logging, Configuring
    <3>2. PICK a \in Answers : Validate(t)!2!(a)
      BY <2>4 DEF Validate
    <3> DEFINE r == [request[t] EXCEPT !.vouched = Vouches(a)]
    <3>3. r \in Request
      BY <3>1 DEF Request, Vouches
    <3>4. odd' \in [Threads -> BOOLEAN] /\ asked' \in [Threads -> BOOLEAN]
      BY <2>4, <3>2 DEF Validate, TypeOK, MisshapenContext, Misshapen
    <3>5. RequestsTyped'
      <4>1. CASE End(t, "raised")
        BY <4>1, EndTyped DEF Outcomes, Screens
      <4>2. CASE \E result \in Results : Conclude(t, result)
        BY <4>2, ConcludeTyped
      <4>3. CASE /\ Goto(t, IF r.op = "enable" THEN "normalizing" ELSE FirstCall(t))
                 /\ request' = [request EXCEPT ![t] = r] /\ UNCHANGED outcome
        <5>1. (IF r.op = "enable" THEN "normalizing" ELSE FirstCall(t)) \in Busy
          BY DEF FirstCall, Busy, CucmCalls
        <5> HIDE DEF r
        <5> QED BY <3>3, <4>3, <5>1, RequestTyped
      <4> QED BY <3>2, <4>1, <4>2, <4>3 DEF Results
    <3> QED BY <2>4, <3>4, <3>5 DEF Validate, TypeOK, RequestsTyped
  <2>5. CASE Normalize(t)
    <3>1. request[t] \in Request
      BY <2>5 DEF TypeOK, Normalize, Busy, Logging, Configuring
    <3>2. PICK a \in Answers : Normalize(t)!2!(a)
      BY <2>5 DEF Normalize
    <3>3. odd' \in [Threads -> BOOLEAN]
      BY <3>2 DEF TypeOK, Misshapen
    <3>4. RequestsTyped'
      <4>1. CASE End(t, "raised")
        BY <4>1, EndTyped DEF Outcomes, Screens
      <4>2. CASE \E result \in Results : Conclude(t, result)
        BY <4>2, ConcludeTyped
      <4>3. CASE Goto(t, FirstCall(t)) /\ UNCHANGED <<request, outcome>>
        <5>1. FirstCall(t) \in Busy
          BY DEF FirstCall, Busy, CucmCalls
        <5> QED BY <3>1, <4>3, <5>1, GotoTyped
      <4> QED BY <3>2, <4>1, <4>2, <4>3 DEF Results
    <3> QED BY <2>5, <3>3, <3>4 DEF Normalize, TypeOK, RequestsTyped
  <2>6. CASE NextCall(t) \/ CallRetried(t)
    <3>1. /\ request[t] \in Request /\ request[t].service \in Threads \cup {None}
          /\ request[t].attempt \in 1..MaxAttempts
      BY <2>6, CallTyped, AttemptTyped DEF NextCall, CallRetried
    <3>2. \E label \in Busy, n \in 1..MaxAttempts :
             Goto(t, label) /\ request' = [request EXCEPT ![t].attempt = n]
      <4>1. CASE NextCall(t)
        <5>1. \E label \in CucmCalls : Goto(t, label)
          BY <4>1 DEF NextCall, CucmCalls
        <5>2. 1 \in 1..MaxAttempts /\ request' = [request EXCEPT ![t].attempt = 1]
          BY <4>1, ConstantsAssumption DEF NextCall
        <5> QED BY <5>1, <5>2 DEF Busy
      <4>2. CASE CallRetried(t)
        <5>1. Goto(t, pc[t]) /\ pc[t] \in Busy
          BY <4>2, AttemptTyped DEF CallRetried, Goto, TypeOK, Busy
        <5>2. request[t].attempt + 1 \in 1..MaxAttempts
          BY <3>1, <4>2, ConstantsAssumption DEF CallRetried
        <5> QED BY <4>2, <5>1, <5>2 DEF CallRetried
      <4> QED BY <2>6, <4>1, <4>2
    <3>3. PICK label \in Busy, n \in 1..MaxAttempts :
             Goto(t, label) /\ request' = [request EXCEPT ![t].attempt = n]
      BY <3>2
    <3> DEFINE r == [request[t] EXCEPT !.attempt = n]
    <3>4. r \in Request /\ request' = [request EXCEPT ![t] = r]
      BY <3>1, <3>3 DEF Request
    <3> HIDE DEF r
    <3>5. RequestsTyped'
      BY <2>6, <3>3, <3>4, RequestTyped DEF NextCall, CallRetried
    <3>6. odd' \in [Threads -> BOOLEAN]
      BY <2>6, AttemptTyped DEF NextCall, CallRetried
    <3>7. discovered' \subseteq Threads
      <4>1. CASE NextCall(t)
        <5>1. request[t].service \in Threads
          BY <3>1, <4>1, AttemptTyped DEF NextCall, ServiceFound
        <5> QED BY <4>1, <5>1 DEF NextCall, TypeOK
      <4> QED BY <2>6, <4>1 DEF CallRetried, TypeOK
    <3> QED BY <2>6, <3>5, <3>6, <3>7 DEF NextCall, CallRetried, TypeOK, RequestsTyped
  <2>7. CASE LastCall(t) \/ CallFailed(t)
    <3>1. \E result \in Results : Conclude(t, result)
      BY <2>7 DEF LastCall, CallFailed, Results
    <3>2. RequestsTyped'
      BY <3>1, ConcludeTyped
    <3>3. odd' \in [Threads -> BOOLEAN]
      BY <2>7, AttemptTyped DEF LastCall, CallFailed
    <3> QED BY <2>7, <3>2, <3>3 DEF LastCall, CallFailed, TypeOK, RequestsTyped
  <2>8. CASE CallRaised(t) \/ CannotOpen(t)
    <3>1. RequestsTyped'
      BY <2>8, EndTyped DEF CallRaised, CannotOpen, Outcomes
    <3>2. odd' \in [Threads -> BOOLEAN]
      BY <2>8, AttemptTyped DEF CallRaised, CannotOpen, TypeOK
    <3> QED BY <2>8, <3>1, <3>2 DEF CallRaised, CannotOpen, TypeOK, RequestsTyped
  <2>9. CASE Log(t) \/ Clear(t) \/ AddHandler(t) \/ Mark(t)
    <3>1. RequestsTyped'
      BY <2>9, GotoTyped DEF Log, Clear, AddHandler, Mark, Busy, Logging, Configuring
    <3>2. CASE Log(t)
      <4>1. overlapped' \in BOOLEAN
        BY <3>2 DEF Log, TypeOK
      <4> QED BY <3>1, <3>2, <4>1 DEF Log, TypeOK, RequestsTyped
    <3>3. CASE Clear(t)
      BY <3>1, <3>3 DEF Clear, TypeOK, RequestsTyped
    <3>4. CASE AddHandler(t)
      BY <3>1, <3>4 DEF AddHandler, TypeOK, RequestsTyped
    <3>5. CASE Mark(t)
      <4>1. configured' \in BOOLEAN
        BY <3>5 DEF Mark
      <4> QED BY <3>1, <3>5, <4>1 DEF Mark, TypeOK, RequestsTyped
    <3> QED BY <2>9, <3>2, <3>3, <3>4, <3>5
  <2>10. CASE Emit(t)
    <3>1. RequestsTyped'
      BY <2>10, EndTyped DEF Emit, TypeOK
    <3> QED BY <2>10, <3>1 DEF Emit, TypeOK, RequestsTyped
  <2> QED BY <1>4, <2>1, <2>2, <2>3, <2>4, <2>5, <2>6, <2>7, <2>8, <2>9, <2>10 DEF Step
<1>5. CASE Trouble
  BY <1>5 DEF Trouble, TypeOK
<1> QED BY <1>1, <1>2, <1>3, <1>4, <1>5 DEF Next

\* A step of one thread moves no other thread; under gunicorn there is none.
LEMMA StepAlone ==
  ASSUME TypeOK, NEW t \in Threads, Step(t)
  PROVE  /\ pc[t] # "idle" /\ server' = server
         /\ \A u \in Threads \ {t} : pc'[u] = pc[u] /\ request'[u] = request[u]
                                     /\ outcome'[u] = outcome[u] /\ written'[u] = written[u]
                                     /\ asked'[u] = asked[u] /\ odd'[u] = odd[u]
<1> USE DEF TypeOK, Goto, At, End, Conclude, ends, met, globals
<1>1. CASE \/ Malformed(t) \/ Enter(t) \/ Build(t) \/ Return(t)
  BY <1>1 DEF Malformed, Enter, Build, Return
<1>2. CASE Validate(t)
  BY <1>2 DEF Validate
<1>3. CASE Normalize(t)
  BY <1>3 DEF Normalize
<1>4. CASE NextCall(t) \/ LastCall(t) \/ CallRetried(t) \/ CallFailed(t) \/ CallRaised(t)
  BY <1>4, AttemptTyped DEF NextCall, LastCall, CallRetried, CallFailed, CallRaised, CucmCalls
<1>5. CASE Log(t) \/ Clear(t) \/ CannotOpen(t) \/ AddHandler(t) \/ Mark(t) \/ Emit(t)
  BY <1>5 DEF Log, Clear, CannotOpen, AddHandler, Mark, Emit
<1> QED BY <1>1, <1>2, <1>3, <1>4, <1>5 DEF Step

LEMMA FoundStep == TypeOK /\ ServiceFound /\ [Next]_vars => ServiceFound'
<1> SUFFICES ASSUME TypeOK, ServiceFound, [Next]_vars PROVE ServiceFound'
  OBVIOUS
<1>1. CASE UNCHANGED vars
  BY <1>1 DEF vars, globals, ServiceFound, OneAtATime
<1>2. CASE Kill
  <2>1. \A t \in Threads : pc'[t] = "idle"
    BY <1>2 DEF Kill, End, Goto, Active, ServiceFound, OneAtATime, TypeOK
  <2> QED BY <2>1 DEF ServiceFound, OneAtATime, CucmCalls
<1>3. ASSUME NEW t \in Threads, NEW o \in Operations, Receive(t, o) PROVE ServiceFound'
  BY <1>3 DEF Receive, Goto, At, Active, ServiceFound, OneAtATime, TypeOK, globals, CucmCalls
<1>4. ASSUME NEW t \in Threads, Step(t) PROVE ServiceFound'
  <2>1. OneAtATime'
    BY <1>4, StepAlone DEF ServiceFound, OneAtATime, TypeOK
  <2>2. service' = service \/ (service' = t /\ t # None)
    BY <1>4, ConstantsAssumption DEF Step, Malformed, Enter, Build, Return, Validate, Normalize, NextCall,
       LastCall, CallRetried, CallFailed, CallRaised, Log, Clear, CannotOpen, AddHandler, Mark, Emit, globals
  <2>3. /\ pc'[t] = "returning" => service' # None
        /\ pc'[t] \in CucmCalls \cup {"validating", "normalizing"} => request'[t].service # None
    <3> USE DEF TypeOK, Goto, At, CucmCalls
    <3>1. CASE Enter(t)
      BY <3>1 DEF Enter, globals
    <3>2. CASE Build(t)
      BY <3>2, ConstantsAssumption DEF Build
    <3>3. CASE Return(t)
      <4>1. request[t] \in Request /\ service # None
        BY <3>3 DEF Return, ServiceFound, Busy, Logging, Configuring
      <4> QED BY <3>3, <4>1 DEF Return, Request
    <3>4. CASE Malformed(t) \/ LastCall(t) \/ CallFailed(t) \/ CallRaised(t) \/ Emit(t)
      BY <3>4 DEF Malformed, LastCall, CallFailed, CallRaised, Emit, End, Conclude
    <3>5. CASE Log(t) \/ Clear(t) \/ CannotOpen(t) \/ AddHandler(t) \/ Mark(t)
      BY <3>5 DEF Log, Clear, CannotOpen, AddHandler, Mark, End
    <3>6. CASE Validate(t)
      <4>1. request[t] \in Request /\ request[t].service # None
        BY <3>6 DEF Validate, ServiceFound, Busy, Logging, Configuring
      <4>2. FirstCall(t) \in CucmCalls
        BY DEF FirstCall
      <4> QED BY <3>6, <4>1, <4>2 DEF Validate, Request, End, Conclude
    <3>7. CASE Normalize(t)
      <4>1. request[t].service # None /\ FirstCall(t) \in CucmCalls
        BY <3>7 DEF Normalize, ServiceFound, FirstCall
      <4> QED BY <3>7, <4>1 DEF Normalize, End, Conclude
    <3>8. CASE NextCall(t) \/ CallRetried(t)
      <4>1. request[t] \in Request /\ request[t].service # None
        BY <3>8, CallTyped, AttemptTyped DEF NextCall, CallRetried, ServiceFound
      <4>2. request'[t].service = request[t].service
        BY <3>8, <4>1 DEF NextCall, CallRetried, Request
      <4>3. pc'[t] # "returning"
        BY <3>8, AttemptTyped DEF NextCall, CallRetried
      <4> QED BY <4>1, <4>2, <4>3
    <3> QED BY <1>4, <3>1, <3>2, <3>3, <3>4, <3>5, <3>6, <3>7, <3>8 DEF Step
  <2> QED BY <2>1, <2>2, <2>3, <1>4, StepAlone DEF ServiceFound
<1>5. CASE Trouble
  BY <1>5 DEF Trouble, globals, ServiceFound, OneAtATime
<1> QED BY <1>1, <1>2, <1>3, <1>4, <1>5 DEF Next

LEMMA FoundInit == Init => ServiceFound
BY DEF Init, ServiceFound, OneAtATime, CucmCalls

LEMMA Found == Spec => [](TypeOK /\ ServiceFound)
<1>1. TypeOK /\ ServiceFound /\ [Next]_vars => (TypeOK /\ ServiceFound)'
  BY TypeStep, FoundStep
<1> QED BY <1>1, TypeInit, FoundInit, PTL DEF Spec

(***************************************************************************)
(* The types of the process, for any number of threads and attempts.       *)
(***************************************************************************)
THEOREM TypeCorrect == Spec => []TypeOK
BY Found, PTL

-----------------------------------------------------------------------------
(* The audit log *)

\* One thread configures the log, and does so once.
Orderly ==
  /\ \A t, u \in Threads : pc[t] \in Configuring /\ pc[u] \in Configuring => t = u
  /\ \A t \in Threads :
       /\ pc[t] \in Configuring => ~configured
       /\ pc[t] = "opening"  => handlers = 0
       /\ pc[t] = "marking"  => handlers = 1
       /\ pc[t] = "emitting" => configured
  /\ configured => handlers = 1

Settled == ~overlapped => Orderly

\* What a thread that configures the log has done, or another has yet to do.
Restored ==
  configured \/ (\E t \in Threads : pc[t] = "marking")
    => handlers > 0 \/ (troubled /\ overlapped) \/ \E t \in Threads : pc[t] = "opening"

\* The record is the last thing a request does; Phone Manager was asked before.
Unasked == {"entering", "building", "returning", "validating"}

Recorded ==
  \A t \in Threads : pc[t] # "idle" => /\ written[t] = 0
                                       /\ pc[t] \in Unasked => ~asked[t]
                                       /\ pc[t] \notin Unasked => asked[t]

LogInv == /\ server = "gunicorn" => ~overlapped
          /\ Settled /\ Restored /\ Recorded /\ AuditedOnce

\* A step that has nothing to do with the log, and ends without a record, if it ends.
Unlogged(t) == /\ UNCHANGED <<configured, handlers, overlapped, troubled, written>>
               /\ pc[t] \in Busy \ (Configuring \cup {"emitting"})
               /\ pc'[t] \notin Configuring \cup {"emitting"}
               /\ pc'[t] = "idle" => /\ outcome'[t] \in {"malformed", "raised"}
                                     /\ outcome'[t] = "malformed" => ~asked'[t]
               /\ pc'[t] \in Unasked => ~asked'[t]
               /\ pc'[t] \notin Unasked \cup {"idle"} => asked'[t]

LEMMA UnloggedSteps ==
  ASSUME TypeOK, Recorded, NEW t \in Threads,
         \/ Malformed(t) \/ Enter(t) \/ Build(t) \/ Return(t) \/ Validate(t) \/ Normalize(t)
         \/ NextCall(t) \/ LastCall(t) \/ CallRetried(t) \/ CallFailed(t) \/ CallRaised(t)
  PROVE  Unlogged(t)
<1> USE DEF TypeOK, Goto, At, End, Conclude, globals, ends, met, Busy, CucmCalls, Logging, Configuring,
            Recorded, Unasked, Unlogged
<1>1. CASE \/ Malformed(t) \/ Enter(t) \/ Build(t) \/ Return(t)
  <2>1. CASE Malformed(t)
    BY <2>1 DEF Malformed
  <2>2. CASE Enter(t)
    BY <2>2 DEF Enter
  <2>3. CASE Build(t) \/ Return(t)
    BY <2>3 DEF Build, Return
  <2> QED BY <1>1, <2>1, <2>2, <2>3
<1>2. CASE Validate(t)
  BY <1>2 DEF Validate, FirstCall
<1>3. CASE Normalize(t)
  BY <1>3 DEF Normalize, FirstCall
<1>4. CASE NextCall(t)
  BY <1>4 DEF NextCall
<1>5. CASE LastCall(t) \/ CallRetried(t) \/ CallFailed(t) \/ CallRaised(t)
  BY <1>5, AttemptTyped DEF LastCall, CallRetried, CallFailed, CallRaised
<1> QED BY <1>1, <1>2, <1>3, <1>4, <1>5

LEMMA LogStep == TypeOK /\ ServiceFound /\ LogInv /\ [Next]_vars => LogInv'
<1> SUFFICES ASSUME TypeOK, ServiceFound, LogInv, [Next]_vars PROVE LogInv'
  OBVIOUS
<1>1. CASE UNCHANGED vars
  BY <1>1 DEF vars, globals, ends, met, LogInv, Settled, Orderly, Restored, Recorded, AuditedOnce, Active
<1>2. CASE Kill
  <2>1. PICK t \in Threads : Active(t) /\ End(t, "killed")
    BY <1>2 DEF Kill
  <2>2. /\ \A u \in Threads : pc'[u] = "idle"
        /\ \A u \in Threads \ {t} : pc[u] = "idle" /\ outcome'[u] = outcome[u]
        /\ outcome'[t] \notin Screens
    BY <1>2, <2>1 DEF Kill, End, Goto, Active, ServiceFound, OneAtATime, TypeOK, Screens
  <2> QED BY <1>2, <2>2 DEF Kill, met, LogInv, Settled, Orderly, Restored, Recorded, AuditedOnce, Active,
                            Configuring
<1>3. ASSUME NEW t \in Threads, NEW o \in Operations, Receive(t, o) PROVE LogInv'
  BY <1>3 DEF Receive, Goto, At, Active, TypeOK, globals, LogInv, Settled, Orderly, Restored, Recorded,
              Unasked, AuditedOnce, Configuring
<1>4. ASSUME NEW t \in Threads, Step(t) PROVE LogInv'
  <2> DEFINE others == Threads \ {t}
  <2>0. ~overlapped => Orderly
    BY DEF LogInv, Settled
  <2>1. /\ server' = server
        /\ \A u \in others : /\ pc'[u] = pc[u] /\ outcome'[u] = outcome[u] /\ written'[u] = written[u]
                             /\ asked'[u] = asked[u]
    BY <1>4, StepAlone
  <2>2. CASE Unlogged(t)
    <3>1. Settled' /\ Restored'
      BY <2>1, <2>2 DEF Unlogged, LogInv, Settled, Orderly, Restored, Configuring
    <3>2. Recorded'
      <4>1. pc[t] # "idle"
        BY <1>4, StepAlone
      <4> QED BY <2>1, <2>2, <4>1 DEF Unlogged, LogInv, Recorded
    <3>3. AuditedOnce'
      <4>1. written'[t] = 0
        BY <1>4, <2>2, StepAlone DEF Unlogged, LogInv, Recorded
      <4>2. \A u \in others : AuditedOnce!(u) => AuditedOnce!(u)'
        BY <2>1, <2>2 DEF Active, Unlogged
      <4>3. AuditedOnce!(t)'
        BY <2>2, <4>1 DEF Active, Unlogged, Screens
      <4> QED BY <4>2, <4>3 DEF AuditedOnce, LogInv
    <3> QED BY <2>1, <2>2, <3>1, <3>2, <3>3 DEF Unlogged, LogInv
  <2> USE DEF TypeOK, Goto, At, Configuring
\* Within the log nothing is recorded before the last step, and nothing asked.
  <2>3. ASSUME pc[t] \in Logging, pc'[t] \in Logging, UNCHANGED <<written, asked>>,
               overlapped => overlapped'
        PROVE  Recorded' /\ AuditedOnce'
    <3>1. Recorded'
      BY <2>1, <2>3 DEF LogInv, Recorded, Unasked, Logging
    <3>2. AuditedOnce'
      BY <2>1, <2>3 DEF LogInv, AuditedOnce, Active, Logging
    <3> QED BY <3>1, <3>2
  <2>4. CASE Log(t)
    <3>1. server = "gunicorn" => ~overlapped'
      BY <2>4 DEF Log, ServiceFound, OneAtATime, LogInv
    <3>2. Settled'
      BY <2>1, <2>4 DEF Log, globals, LogInv, Settled, Orderly
    <3>3. Restored'
      BY <2>1, <2>4 DEF Log, globals, LogInv, Restored
    <3>4. Recorded' /\ AuditedOnce'
      BY <2>3, <2>4 DEF Log, ends, met, Logging
    <3> QED BY <2>1, <3>1, <3>2, <3>3, <3>4 DEF LogInv
  <2>5. CASE Clear(t)
    <3>1. Settled'
      <4>1. overlapped' = overlapped /\ configured' = configured /\ handlers' = 0
        BY <2>5 DEF Clear
      <4>2. pc[t] \in Configuring /\ pc'[t] = "opening"
        BY <2>5 DEF Clear
      <4>3. SUFFICES ASSUME ~overlapped PROVE Orderly'
        BY <4>1 DEF Settled
      <4>4. ~configured /\ \A u \in others : pc'[u] \notin Configuring
        BY <2>0, <2>1, <4>2, <4>3 DEF Orderly
      <4>5. \A u \in others : pc'[u] # "emitting"
        BY <2>0, <2>1, <4>3, <4>4 DEF Orderly
      <4> QED BY <4>1, <4>2, <4>4, <4>5 DEF Orderly
    <3>2. Restored'
      BY <2>5 DEF Clear, Restored
    <3>3. Recorded' /\ AuditedOnce'
      BY <2>3, <2>5 DEF Clear, ends, met, Logging
    <3> QED BY <2>1, <2>5, <3>1, <3>2, <3>3 DEF LogInv, Clear
  <2>6. CASE CannotOpen(t)
    <3>1. Settled'
      BY <2>1, <2>6 DEF CannotOpen, End, globals, LogInv, Settled, Orderly
    <3>2. Restored'
      <4>1. UNCHANGED <<configured, handlers, overlapped, troubled>> /\ troubled /\ pc'[t] = "idle"
            /\ pc[t] \in Configuring
        BY <2>6 DEF CannotOpen, End, globals
      <4>2. CASE overlapped
        BY <4>1, <4>2 DEF Restored
      <4>3. CASE ~overlapped
        BY <2>0, <2>1, <4>1, <4>3 DEF Orderly, Restored
      <4> QED BY <4>2, <4>3
    <3>3. Recorded'
      BY <2>1, <2>6 DEF CannotOpen, End, LogInv, Recorded
    <3>4. AuditedOnce'
      BY <2>1, <2>6 DEF CannotOpen, End, LogInv, AuditedOnce, Active, Screens
    <3> QED BY <2>1, <2>6, <3>1, <3>2, <3>3, <3>4 DEF LogInv, CannotOpen
  <2>7. CASE AddHandler(t)
    <3>1. Settled'
      <4>1. overlapped' = overlapped /\ configured' = configured /\ handlers' = handlers + 1
        BY <2>7 DEF AddHandler
      <4>2. pc[t] = "opening" /\ pc[t] \in Configuring /\ pc'[t] = "marking"
        BY <2>7 DEF AddHandler
      <4>3. SUFFICES ASSUME ~overlapped PROVE Orderly'
        BY <4>1 DEF Settled
      <4>4. ~configured /\ handlers = 0 /\ \A u \in others : pc'[u] \notin Configuring
        BY <2>0, <2>1, <4>2, <4>3 DEF Orderly
      <4>5. \A u \in others : pc'[u] # "emitting"
        BY <2>0, <2>1, <4>3, <4>4 DEF Orderly
      <4> QED BY <4>1, <4>2, <4>4, <4>5 DEF Orderly
    <3>2. Restored'
      BY <2>7 DEF AddHandler, Restored
    <3>3. Recorded' /\ AuditedOnce'
      BY <2>3, <2>7 DEF AddHandler, ends, met, Logging
    <3> QED BY <2>1, <2>7, <3>1, <3>2, <3>3 DEF LogInv, AddHandler
  <2>8. CASE Mark(t)
    <3>1. Settled'
      <4>1. overlapped' = overlapped /\ configured' /\ handlers' = handlers
        BY <2>8 DEF Mark
      <4>2. pc[t] = "marking" /\ pc[t] \in Configuring /\ pc'[t] = "emitting"
        BY <2>8 DEF Mark
      <4>3. SUFFICES ASSUME ~overlapped PROVE Orderly'
        BY <4>1 DEF Settled
      <4>4. handlers = 1 /\ \A u \in others : pc'[u] \notin Configuring
        BY <2>0, <2>1, <4>2, <4>3 DEF Orderly
      <4> QED BY <4>1, <4>2, <4>4 DEF Orderly
    <3>2. Restored'
      BY <2>1, <2>8 DEF Mark, LogInv, Restored
    <3>3. Recorded' /\ AuditedOnce'
      BY <2>3, <2>8 DEF Mark, ends, met, Logging
    <3> QED BY <2>1, <2>8, <3>1, <3>2, <3>3 DEF LogInv, Mark
  <2>9. CASE Emit(t)
    <3>1. Settled'
      BY <2>1, <2>9 DEF Emit, End, globals, LogInv, Settled, Orderly
    <3>2. Restored'
      BY <2>1, <2>9 DEF Emit, End, globals, LogInv, Restored
    <3>3. Recorded'
      BY <2>1, <2>9 DEF Emit, End, met, LogInv, Recorded
    <3>4. AuditedOnce'
      <4>1. overlapped' = overlapped /\ written'[t] = handlers /\ asked'[t]
        BY <2>9 DEF Emit, met, LogInv, Recorded, Unasked
      <4>2. (overlapped /\ server' = "runserver") \/ handlers = 1
        BY <2>0, <2>1, <2>9 DEF Emit, Orderly, LogInv
      <4>3. \A u \in others : AuditedOnce!(u) => AuditedOnce!(u)'
        BY <2>1, <4>1 DEF Active
      <4> QED BY <4>1, <4>2, <4>3 DEF AuditedOnce, LogInv
    <3> QED BY <2>1, <2>9, <3>1, <3>2, <3>3, <3>4 DEF LogInv, Emit
  <2>10. Recorded
    BY DEF LogInv
  <2> QED BY <1>4, <2>10, UnloggedSteps, <2>2, <2>4, <2>5, <2>6, <2>7, <2>8, <2>9 DEF Step
<1>5. CASE Trouble
  BY <1>5 DEF Trouble, globals, ends, met, LogInv, Settled, Orderly, Restored, Recorded, AuditedOnce, Active
<1> QED BY <1>1, <1>2, <1>3, <1>4, <1>5 DEF Next

LEMMA Logged == Spec => []LogInv
<1>1. Init => LogInv
  BY DEF Init, LogInv, Settled, Orderly, Restored, Recorded, AuditedOnce, Configuring, Screens
<1> QED BY <1>1, LogStep, Found, PTL DEF Spec

(***************************************************************************)
(* Every screen of a request that Phone Manager was asked about has        *)
(* exactly one audit record, and every other screen, malformed, has none,  *)
(* unless threads configured the log together; under gunicorn they never   *)
(* do, so that the exception is runserver's alone.                         *)
(***************************************************************************)
THEOREM RecordsComplete == Spec => [](AuditedOnce /\ (server = "gunicorn" => ~overlapped))
BY Logged, PTL DEF LogInv

(***************************************************************************)
(* However many threads configure the log together, once they have done    *)
(* so it has a handler, if the file could be opened by each; a thread that *)
(* configures it alone leaves it with one, or not configured.              *)
(***************************************************************************)
THEOREM LogRestored == Spec => []LogComesBack
<1>1. LogInv => LogComesBack
  BY DEF LogInv, Restored, LogComesBack, At
<1> QED BY <1>1, Logged, PTL

-----------------------------------------------------------------------------
(* Phone Manager and the exceptions *)

VouchInv == \A t \in Threads : pc[t] \in CucmCalls \cup {"normalizing"} => request[t].vouched

LEMMA VouchStep == TypeOK /\ VouchInv /\ [Next]_vars => VouchInv'
<1> SUFFICES ASSUME TypeOK, VouchInv, [Next]_vars PROVE VouchInv'
  OBVIOUS
<1> USE DEF TypeOK, Goto, At, CucmCalls
<1>1. CASE UNCHANGED vars
  BY <1>1 DEF vars, VouchInv
<1>2. CASE Kill \/ Trouble
  BY <1>2 DEF Kill, Trouble, End, VouchInv
<1>3. ASSUME NEW t \in Threads, NEW o \in Operations, Receive(t, o) PROVE VouchInv'
  BY <1>3 DEF Receive, VouchInv
<1>4. ASSUME NEW t \in Threads, Step(t) PROVE VouchInv'
  <2>1. pc'[t] \in CucmCalls \cup {"normalizing"} => request'[t].vouched
    <3>1. CASE \/ Malformed(t) \/ Enter(t) \/ Build(t) \/ Return(t) \/ LastCall(t) \/ CallFailed(t) \/ CallRaised(t)
      BY <3>1 DEF Malformed, Enter, Build, Return, LastCall, CallFailed, CallRaised, End, Conclude
    <3>2. CASE Log(t) \/ Clear(t) \/ CannotOpen(t) \/ AddHandler(t) \/ Mark(t) \/ Emit(t)
      BY <3>2 DEF Log, Clear, CannotOpen, AddHandler, Mark, Emit, End
    <3>3. CASE Validate(t)
      <4>1. request[t] \in Request
        BY <3>3 DEF Validate, Busy, Logging, Configuring
      <4> QED BY <3>3, <4>1, Classification DEF Validate, Request, End, Conclude
    <3>4. CASE Normalize(t)
      BY <3>4 DEF Normalize, VouchInv, End, Conclude
    <3>5. CASE NextCall(t) \/ CallRetried(t)
      <4>1. request[t] \in Request /\ request[t].vouched
        BY <3>5, CallTyped, AttemptTyped DEF NextCall, CallRetried, VouchInv
      <4> QED BY <3>5, <4>1 DEF NextCall, CallRetried, Request
    <3> QED BY <1>4, <3>1, <3>2, <3>3, <3>4, <3>5 DEF Step
  <2> QED BY <1>4, <2>1, StepAlone DEF VouchInv
<1> QED BY <1>1, <1>2, <1>3, <1>4 DEF Next

(***************************************************************************)
(* CUCM is never called for a handset Phone Manager has not vouched for,   *)
(* whatever Phone Manager answers; that its mac and dn are not null is not *)
(* part of vouching.                                                       *)
(***************************************************************************)
THEOREM CucmVouched == Spec => []VouchedFirst
<1>1. Init => VouchInv
  BY DEF Init, VouchInv, CucmCalls
<1>2. VouchInv => VouchedFirst
  BY DEF VouchInv, VouchedFirst
<1> QED BY <1>1, <1>2, VouchStep, Found, PTL DEF Spec

LEMMA OddStep == TypeOK /\ ScreensUnlessOdd /\ [Next]_vars => ScreensUnlessOdd'
<1> SUFFICES ASSUME TypeOK, ScreensUnlessOdd, [Next]_vars PROVE ScreensUnlessOdd'
  OBVIOUS
<1> USE DEF TypeOK, ScreensUnlessOdd, ends, met
<1>1. CASE UNCHANGED vars
  BY <1>1 DEF vars
<1>2. CASE Kill \/ Trouble
  BY <1>2 DEF Kill, Trouble, End
<1>3. ASSUME NEW t \in Threads, NEW o \in Operations, Receive(t, o) PROVE ScreensUnlessOdd'
  BY <1>3 DEF Receive
<1>4. ASSUME NEW t \in Threads, Step(t) PROVE ScreensUnlessOdd'
\* What was odd stays so while the request lasts.
  <2>1. odd[t] => odd'[t]
    <3>1. CASE Validate(t) \/ Normalize(t)
      BY <3>1 DEF Validate, Normalize, Misshapen, MisshapenContext
    <3>2. CASE NextCall(t) \/ LastCall(t) \/ CallRetried(t) \/ CallFailed(t) \/ CallRaised(t)
      <4>1. \E result : Attempt(t, result)
        BY <3>2 DEF NextCall, LastCall, CallRetried, CallFailed, CallRaised
      <4> QED BY <4>1 DEF Attempt, Unforeseen
    <3>3. CASE odd' = odd
      BY <3>3
    <3> QED BY <1>4, <3>1, <3>2, <3>3
            DEF Step, Malformed, Enter, Build, Return, Log, Clear, CannotOpen, AddHandler, Mark, Emit
  <2>2. outcome'[t] = "raised" => outcome[t] = "raised" \/ odd'[t] \/ troubled
    <3>1. CASE \/ Enter(t) \/ Build(t) \/ Return(t) \/ NextCall(t) \/ CallRetried(t)
               \/ Log(t) \/ Clear(t) \/ AddHandler(t) \/ Mark(t)
      BY <3>1 DEF Enter, Build, Return, NextCall, CallRetried, Log, Clear, AddHandler, Mark
    <3>2. CASE Malformed(t) \/ LastCall(t) \/ CallFailed(t) \/ Emit(t)
      BY <3>2 DEF Malformed, LastCall, CallFailed, Emit, End, Conclude
    <3>3. CASE CallRaised(t)
      BY <3>3, AttemptTyped DEF CallRaised
    <3>4. CASE CannotOpen(t)
      BY <3>4 DEF CannotOpen
    <3>5. CASE Validate(t)
      <4>1. PICK a \in Answers : Validate(t)!2!(a)
        BY <3>5 DEF Validate
      <4> QED BY <4>1, Classification DEF End, Conclude
    <3>6. CASE Normalize(t)
      <4>1. PICK a \in Answers : Normalize(t)!2!(a)
        BY <3>6 DEF Normalize
      <4> QED BY <4>1, Classification DEF End, Conclude
    <3> QED BY <1>4, <3>1, <3>2, <3>3, <3>4, <3>5, <3>6 DEF Step
  <2>3. troubled' = troubled
    BY <1>4 DEF Step, Malformed, Enter, Build, Return, Validate, Normalize, NextCall, LastCall, CallRetried,
                CallFailed, CallRaised, Log, Clear, CannotOpen, AddHandler, Mark, Emit
  <2> QED BY <1>4, <2>1, <2>2, <2>3, StepAlone
<1> QED BY <1>1, <1>2, <1>3, <1>4 DEF Next

(***************************************************************************)
(* No screen is missing but where an answer was cut short or of another    *)
(* shape, the schema unusable, or the log could not be opened: every other *)
(* answer of Phone Manager and of CUCM, in any order and at any attempt,   *)
(* ends in one.                                                            *)
(***************************************************************************)
THEOREM ScreensShown == Spec => []ScreensUnlessOdd
<1>1. Init => ScreensUnlessOdd
  BY DEF Init, ScreensUnlessOdd
<1> QED BY <1>1, OddStep, Found, PTL DEF Spec

-----------------------------------------------------------------------------
(* The steps of a request *)

LEMMA StepsTyped ==
  ASSUME TypeOK, NEW t \in Threads
  PROVE  /\ StepsLeft(t) \in 0..(10 + 5 * MaxAttempts)
         /\ Active(t) => StepsLeft(t) > 0
<1>1. pc[t] \in CucmCalls => AttemptsLeft(t) \in 0..(MaxAttempts - 1)
  BY CallTyped, ConstantsAssumption DEF AttemptsLeft
<1>2. pc[t] \in {"idle"} \cup Busy
  BY DEF TypeOK
<1>3. CASE pc[t] \in CucmCalls
  <2>1. StepsLeft(t) \in {6 + AttemptsLeft(t), 6 + MaxAttempts + AttemptsLeft(t),
                         6 + 2 * MaxAttempts + AttemptsLeft(t), 6 + 3 * MaxAttempts + AttemptsLeft(t),
                         6 + 4 * MaxAttempts + AttemptsLeft(t)}
    BY <1>3 DEF StepsLeft, CucmCalls
  <2> QED BY <1>1, <1>3, <2>1, ConstantsAssumption
<1>4. CASE pc[t] \notin CucmCalls
  <2>1. /\ StepsLeft(t) \in 0..5 \cup {6 + 5 * MaxAttempts, 7 + 5 * MaxAttempts, 8 + 5 * MaxAttempts,
                                    9 + 5 * MaxAttempts, 10 + 5 * MaxAttempts}
        /\ StepsLeft(t) = 0 => pc[t] = "idle"
    BY <1>2, <1>4, ConstantsAssumption DEF StepsLeft, Busy, CucmCalls, Logging, Configuring
  <2> QED BY <2>1, ConstantsAssumption DEF Active
<1> QED BY <1>3, <1>4

\* Each step of a thread leaves its request fewer.
LEMMA StepRunsOut ==
  ASSUME TypeOK, NEW t \in Threads, Step(t)
  PROVE  StepsLeft(t)' < StepsLeft(t)
<1> DEFINE n == StepsLeft(t)
<1> USE DEF At, Goto, TypeOK
<1>1. pc[t] # "idle" /\ n \in Nat /\ n > 0
  BY StepAlone, StepsTyped DEF Active
<1>2. /\ pc[t] \in {"entering", "building", "returning", "validating", "normalizing"} =>
           n \in {6 + 5 * MaxAttempts, 7 + 5 * MaxAttempts, 8 + 5 * MaxAttempts, 9 + 5 * MaxAttempts,
                  10 + 5 * MaxAttempts}
      /\ pc[t] \in CucmCalls => n > 5 /\ AttemptsLeft(t) \in 0..(MaxAttempts - 1)
  <2>1. pc[t] \in CucmCalls => AttemptsLeft(t) \in 0..(MaxAttempts - 1)
    BY CallTyped, ConstantsAssumption DEF AttemptsLeft
  <2> QED BY <2>1, ConstantsAssumption DEF StepsLeft, CucmCalls
<1>3. ASSUME pc'[t] = "idle" PROVE n' < n
  BY <1>1, <1>3 DEF StepsLeft
<1>4. ASSUME pc'[t] = "logging", n > 5 PROVE n' < n
  BY <1>4 DEF StepsLeft
<1>5. ASSUME pc'[t] \in {"reading", "discovering"}, request'[t].attempt \in 1..MaxAttempts,
             n >= 6 + 5 * MaxAttempts
      PROVE  n' < n
  <2>1. n' \in {6 + 3 * MaxAttempts + AttemptsLeft(t)', 6 + 4 * MaxAttempts + AttemptsLeft(t)'}
    BY <1>5 DEF StepsLeft
  <2>2. AttemptsLeft(t)' \in 0..(MaxAttempts - 1)
    BY <1>5, ConstantsAssumption DEF AttemptsLeft
  <2> HIDE DEF n
  <2> QED BY <1>1, <1>5, <2>1, <2>2, ConstantsAssumption
<1>6. CASE Malformed(t) \/ CallRaised(t) \/ CannotOpen(t) \/ Emit(t)
  BY <1>3, <1>6 DEF Malformed, CallRaised, CannotOpen, Emit, End
<1>7. CASE Enter(t) \/ Build(t) \/ Return(t)
  BY <1>7, ConstantsAssumption DEF Enter, Build, Return, StepsLeft
<1>8. CASE LastCall(t) \/ CallFailed(t)
  BY <1>2, <1>4, <1>8, AttemptTyped DEF LastCall, CallFailed, Conclude
<1>9. CASE Log(t) \/ Clear(t) \/ AddHandler(t) \/ Mark(t)
  BY <1>9 DEF Log, Clear, AddHandler, Mark, StepsLeft
<1>10. FirstCall(t) \in {"reading", "discovering"}
  BY DEF FirstCall
<1>11. CASE Validate(t)
  <2>1. request[t] \in Request /\ n = 7 + 5 * MaxAttempts /\ pc[t] = "validating"
    BY <1>11 DEF Validate, StepsLeft, Busy, Logging, Configuring
  <2>2. PICK a \in Answers : Validate(t)!2!(a)
    BY <1>11 DEF Validate
  <2>3. CASE End(t, "raised")
    BY <1>3, <2>3 DEF End
  <2>4. CASE \E result \in Results : Conclude(t, result)
    BY <1>4, <2>1, <2>4, ConstantsAssumption DEF Conclude
  <2> DEFINE r == [request[t] EXCEPT !.vouched = Vouches(a)]
  <2>5. CASE /\ Goto(t, IF r.op = "enable" THEN "normalizing" ELSE FirstCall(t))
             /\ request' = [request EXCEPT ![t] = r]
    <3>1. request'[t].attempt \in 1..MaxAttempts
      BY <2>1, <2>5 DEF Request
    <3>2. CASE pc'[t] = "normalizing"
      BY <2>1, <3>2, ConstantsAssumption DEF StepsLeft
    <3>3. CASE pc'[t] = FirstCall(t)
      BY <1>5, <1>10, <2>1, <3>1, <3>3, ConstantsAssumption
    <3> QED BY <2>5, <3>2, <3>3
  <2> QED BY <2>2, <2>3, <2>4, <2>5 DEF Results
<1>12. CASE Normalize(t)
  <2>1. request[t] \in Request /\ n = 6 + 5 * MaxAttempts
    BY <1>12 DEF Normalize, StepsLeft, Busy, Logging, Configuring
  <2>2. PICK a \in Answers : Normalize(t)!2!(a)
    BY <1>12 DEF Normalize
  <2>3. CASE End(t, "raised")
    BY <1>3, <2>3 DEF End
  <2>4. CASE \E result \in Results : Conclude(t, result)
    BY <1>4, <2>1, <2>4, ConstantsAssumption DEF Conclude
  <2>5. CASE Goto(t, FirstCall(t)) /\ UNCHANGED request
    <3>1. request'[t].attempt \in 1..MaxAttempts /\ pc'[t] = FirstCall(t)
      BY <2>1, <2>5 DEF Request
    <3> QED BY <1>5, <1>10, <2>1, <3>1, ConstantsAssumption
  <2> QED BY <2>2, <2>3, <2>4, <2>5 DEF Results
<1>13. CASE NextCall(t)
  <2>1. request[t] \in Request /\ AttemptsLeft(t) \in 0..(MaxAttempts - 1)
    BY <1>2, <1>13, CallTyped, AttemptTyped DEF NextCall
  <2>2. AttemptsLeft(t)' = MaxAttempts - 1
    BY <1>13, <2>1, ConstantsAssumption DEF NextCall, AttemptsLeft, Request
  <2>3. \/ pc[t] = "discovering" /\ pc'[t] = "reading"
        \/ pc[t] = "reading" /\ pc'[t] = "updating"
        \/ pc[t] = "updating" /\ pc'[t] \in {"applying", "confirming"}
        \/ pc[t] = "applying" /\ pc'[t] = "confirming"
    BY <1>13 DEF NextCall
  <2> QED BY <2>1, <2>2, <2>3, ConstantsAssumption DEF StepsLeft
<1>14. CASE CallRetried(t)
  <2>1. request[t] \in Request /\ AttemptsLeft(t) \in 0..(MaxAttempts - 1) /\ request[t].attempt \in 1..MaxAttempts
    BY <1>2, <1>14, CallTyped, AttemptTyped DEF CallRetried
  <2>2. AttemptsLeft(t)' = AttemptsLeft(t) - 1
    BY <1>14, <2>1, ConstantsAssumption DEF CallRetried, AttemptsLeft, Request
  <2>3. pc[t] \in CucmCalls /\ pc'[t] = pc[t]
    BY <1>14, AttemptTyped DEF CallRetried
  <2> QED BY <2>1, <2>2, <2>3, ConstantsAssumption DEF StepsLeft, CucmCalls
<1> QED BY <1>6, <1>7, <1>8, <1>9, <1>11, <1>12, <1>13, <1>14 DEF Step

(***************************************************************************)
(* A request runs out of steps, for any number of threads and of attempts: *)
(* it takes at most 10 and five times the attempts of a call, of which     *)
(* each step of the process spends one, of this request or of another      *)
(* (services.py:515-540, logging_utils.py:17-61, cucm_axl_client.py:235).  *)
(***************************************************************************)
THEOREM StepsRunOut ==
  Spec => /\ RequestsRunOut
          /\ [](\A t \in Threads : StepsLeft(t) \in 0..(10 + 5 * MaxAttempts))
<1> DEFINE Spent == \A t \in Threads :
       Active(t) => \/ StepsLeft(t)' < StepsLeft(t)
                    \/ /\ StepsLeft(t)' = StepsLeft(t)
                       /\ \/ \E u \in Threads \ {t} : StepsLeft(u)' # StepsLeft(u)
                          \/ troubled' # troubled
<1>1. TypeOK => \A t \in Threads : StepsLeft(t) \in 0..(10 + 5 * MaxAttempts)
  BY StepsTyped
<1>2. TypeOK /\ ServiceFound /\ [Next]_vars => [Spent]_vars
  <2> SUFFICES ASSUME TypeOK, ServiceFound, Next, NEW t \in Threads, Active(t)
               PROVE  \/ StepsLeft(t)' < StepsLeft(t)
                      \/ /\ StepsLeft(t)' = StepsLeft(t)
                         /\ \/ \E u \in Threads \ {t} : StepsLeft(u)' # StepsLeft(u)
                            \/ troubled' # troubled
    OBVIOUS
  <2>1. ASSUME pc'[t] = pc[t], request'[t] = request[t] PROVE StepsLeft(t)' = StepsLeft(t)
    BY <2>1 DEF StepsLeft, AttemptsLeft
  <2>2. ASSUME NEW u \in Threads, Step(u)
        PROVE  \/ StepsLeft(t)' < StepsLeft(t)
               \/ /\ StepsLeft(t)' = StepsLeft(t)
                  /\ \E v \in Threads \ {t} : StepsLeft(v)' # StepsLeft(v)
    <3>1. StepsLeft(u)' < StepsLeft(u) /\ StepsLeft(u) \in Nat
      BY <2>2, StepRunsOut, StepsTyped
    <3>2. StepsLeft(u)' # StepsLeft(u)
      BY <3>1
    <3>3. CASE u # t
      BY <2>1, <2>2, <3>2, <3>3, StepAlone
    <3> QED BY <3>1, <3>3
  <2>3. ASSUME NEW u \in Threads, NEW o \in Operations, Receive(u, o)
        PROVE  StepsLeft(t)' = StepsLeft(t) /\ \E v \in Threads \ {t} : StepsLeft(v)' # StepsLeft(v)
    <3>1. /\ pc[u] = "idle" /\ pc'[u] = "entering" /\ u # t
          /\ pc'[t] = pc[t] /\ request'[t] = request[t]
      BY <2>3 DEF Receive, At, Goto, Active, TypeOK
    <3>2. StepsLeft(u) = 0 /\ StepsLeft(u)' = 10 + 5 * MaxAttempts
      BY <3>1 DEF StepsLeft
    <3>3. StepsLeft(u)' # StepsLeft(u)
      BY <3>2, ConstantsAssumption
    <3> QED BY <2>1, <3>1, <3>3
  <2>4. CASE Kill
    <3>1. pc'[t] = "idle"
      BY <2>4 DEF Kill, End, Goto, Active, ServiceFound, OneAtATime, TypeOK
    <3>2. StepsLeft(t)' = 0
      BY <3>1 DEF StepsLeft
    <3>3. StepsLeft(t) > 0
      BY StepsTyped
    <3> QED BY <3>2, <3>3
  <2>5. CASE Trouble
    BY <2>1, <2>5 DEF Trouble, StepsLeft, AttemptsLeft
  <2> QED BY <2>2, <2>3, <2>4, <2>5 DEF Next
<1> QED BY <1>1, <1>2, Found, PTL DEF Spec, RequestsRunOut

-----------------------------------------------------------------------------
(* The order of the calls *)

LEMMA UnansweredKind ==
  ASSUME TypeOK, NEW t \in Threads, pc[t] \in Busy \ Logging
  PROVE  Kind(t) = request[t].op /\ Kind(t) \in {"query", "enable", "disable"} /\ request[t] \in Request
BY DEF TypeOK, Busy, CucmCalls, Request, Kind, Operations

\* A step of a thread is one of the protocol.
LEMMA StepFollows ==
  ASSUME TypeOK, NEW t \in Threads, Step(t)
  PROVE  [Protocol(t)!Next]_(Protocol(t)!vars)
<1> DEFINE Follows == [Protocol(t)!Next]_(Protocol(t)!vars)
<1> USE DEF At, Goto, TypeOK
\* The answer is known, or the request ends without one.
<1>1. ASSUME pc[t] \in Busy \ Logging, NEW result \in Results, Conclude(t, result),
             result = "success" => Protocol(t)!MaySucceed
      PROVE  Follows
  <2>1. pc'[t] = "logging" /\ outcome'[t] = result
    BY <1>1 DEF Conclude
  <2>2. Kind(t)' = "none" /\ Stage(t)' = "over"
    BY <2>1 DEF Kind, Stage, Logging, Configuring
  <2>3. Verdict(t)' = IF result = "success" THEN "success" ELSE "failed"
    BY <2>1 DEF Verdict, Results
  <2>4. Kind(t) # "none"
    BY <1>1, UnansweredKind
  <2> QED BY <1>1, <2>2, <2>3, <2>4 DEF Protocol!Next, Protocol!Answer
<1>2. ASSUME pc[t] \in Busy \ Logging, NEW result \in {"malformed", "raised", "killed"}, End(t, result)
      PROVE  Follows
  <2>1. pc'[t] = "idle" /\ outcome'[t] = result
    BY <1>2 DEF End
  <2>2. Kind(t)' = "none" /\ Stage(t)' = "idle" /\ Verdict(t)' = "failed"
    BY <2>1 DEF Kind, Stage, Verdict, Logging, Configuring
  <2>3. Kind(t) # "none"
    BY <1>2, UnansweredKind
  <2> QED BY <2>2, <2>3 DEF Protocol!Next, Protocol!Answer
\* The request goes on.
<1>3. ASSUME pc[t] \in Busy \ Logging, pc'[t] \in Busy \ Logging,
             request'[t].op = request[t].op, outcome' = outcome,
             Stage(t)' = Stage(t) \/ Stage(t)' = Protocol(t)!Following
      PROVE  Follows
  <2>1. Kind(t)' = Kind(t) /\ Verdict(t)' = Verdict(t)
    BY <1>3 DEF Kind, Verdict, Busy, CucmCalls, Logging, Configuring
  <2> QED BY <1>3, <2>1 DEF Protocol!Next, Protocol!Advance, Protocol!vars
<1>4. FirstCall(t) \in {"discovering", "reading"}
  BY DEF FirstCall
<1>5. CASE Malformed(t) \/ CallRaised(t)
  <2>1. pc[t] \in Busy \ Logging /\ \E result \in {"malformed", "raised"} : End(t, result)
    BY <1>5, AttemptTyped DEF Malformed, CallRaised, Busy, CucmCalls, Logging, Configuring
  <2> QED BY <1>2, <2>1
<1>6. CASE Enter(t) \/ Build(t) \/ Return(t)
  <2>1. /\ pc[t] \in {"entering", "building", "returning"}
        /\ pc'[t] \in {"building", "returning", "validating"} /\ outcome' = outcome
    BY <1>6 DEF Enter, Build, Return, ends
  <2>2. pc[t] \in Busy \ Logging /\ pc'[t] \in Busy \ Logging
    BY <2>1 DEF Busy, Logging, Configuring
  <2>3. request[t] \in Request
    BY <2>2
  <2>4. request'[t].op = request[t].op
    BY <1>6, <2>3 DEF Enter, Build, Return, Request
  <2>5. Stage(t) = "device" /\ Stage(t)' = "device"
    BY <2>1 DEF Stage, Logging, Configuring
  <2> QED BY <1>3, <2>1, <2>2, <2>4, <2>5
<1>7. CASE Validate(t)
  <2>1. pc[t] = "validating" /\ pc[t] \in Busy \ Logging /\ Stage(t) = "device"
    BY <1>7 DEF Validate, Stage, Busy, Logging, Configuring
  <2>2. Kind(t) = request[t].op /\ request[t] \in Request
    BY <2>1, UnansweredKind
  <2>3. PICK a \in Answers : Validate(t)!2!(a)
    BY <1>7 DEF Validate
  <2> DEFINE r == [request[t] EXCEPT !.vouched = Vouches(a)]
  <2>4. r.op = request[t].op
    BY <2>2 DEF Request
  <2>5. CASE End(t, "raised")
    BY <1>2, <2>1, <2>5
  <2>6. CASE r.op = "query" /\ Conclude(t, "success")
    <3>1. Protocol(t)!MaySucceed
      BY <2>1, <2>2, <2>4, <2>6 DEF Protocol!MaySucceed
    <3> QED BY <1>1, <2>1, <2>6, <3>1 DEF Results
  <2>7. CASE Conclude(t, "unavailable")
    BY <1>1, <2>1, <2>7 DEF Results
  <2>8. CASE /\ Goto(t, IF r.op = "enable" THEN "normalizing" ELSE FirstCall(t))
             /\ request' = [request EXCEPT ![t] = r] /\ UNCHANGED outcome
    <3>1. pc'[t] = IF request[t].op = "enable" THEN "normalizing" ELSE FirstCall(t)
      BY <2>4, <2>8
    <3>2. pc'[t] \in Busy \ Logging
      BY <1>4, <3>1 DEF Busy, CucmCalls, Logging, Configuring
    <3>3. Stage(t)' = IF request[t].op = "enable" THEN "number" ELSE "read"
      BY <1>4, <3>1 DEF Stage, Logging, Configuring
    <3>4. Stage(t)' = Protocol(t)!Following
      BY <2>1, <2>2, <3>3 DEF Protocol!Following
    <3>5. request'[t].op = request[t].op
      BY <2>4, <2>8
    <3> QED BY <1>3, <2>1, <2>8, <3>2, <3>4, <3>5
  <2> QED BY <2>3, <2>5, <2>6, <2>7, <2>8
<1>8. CASE Normalize(t)
  <2>1. pc[t] = "normalizing" /\ pc[t] \in Busy \ Logging /\ Stage(t) = "number"
    BY <1>8 DEF Normalize, Stage, Busy, Logging, Configuring
  <2>2. PICK a \in Answers : Normalize(t)!2!(a)
    BY <1>8 DEF Normalize
  <2>3. CASE End(t, "raised")
    BY <1>2, <2>1, <2>3
  <2>4. CASE \E result \in {"invalid", "unavailable"} : Conclude(t, result)
    BY <1>1, <2>1, <2>4 DEF Results
  <2>5. CASE Goto(t, FirstCall(t)) /\ UNCHANGED <<request, outcome>>
    <3>1. pc'[t] \in {"discovering", "reading"}
      BY <1>4, <2>5
    <3>2. pc'[t] \in Busy \ Logging /\ Stage(t)' = "read"
      BY <3>1 DEF Stage, Busy, CucmCalls, Logging, Configuring
    <3>3. Stage(t)' = Protocol(t)!Following
      BY <2>1, <3>2 DEF Protocol!Following
    <3> QED BY <1>3, <2>1, <2>5, <3>2, <3>3
  <2> QED BY <2>2, <2>3, <2>4, <2>5
<1>9. CASE NextCall(t)
  <2>1. pc[t] \in CucmCalls /\ pc[t] \in Busy \ Logging /\ outcome' = outcome
    BY <1>9, AttemptTyped DEF NextCall, ends, Busy, CucmCalls, Logging, Configuring
  <2>2. Kind(t) = request[t].op /\ request[t] \in Request
    BY <2>1, UnansweredKind
  <2>3. request'[t].op = request[t].op
    BY <1>9, <2>2 DEF NextCall, Request
  <2>4. \/ pc[t] = "discovering" /\ pc'[t] = "reading"
        \/ pc[t] = "reading" /\ request[t].op # "query" /\ pc'[t] = "updating"
        \/ pc[t] = "updating" /\ pc'[t] = IF ApplyLine THEN "applying" ELSE "confirming"
        \/ pc[t] = "applying" /\ pc'[t] = "confirming"
    BY <1>9 DEF NextCall
  <2>5. pc'[t] \in Busy \ Logging
    BY <2>4 DEF Busy, CucmCalls, Logging, Configuring
  <2>6. Stage(t)' = Stage(t) \/ Stage(t)' = Protocol(t)!Following
    <3>1. CASE pc[t] = "discovering" /\ pc'[t] = "reading"
      BY <3>1 DEF Stage, Logging, Configuring
    <3>2. CASE pc[t] = "reading" /\ request[t].op # "query" /\ pc'[t] = "updating"
      <4>1. Stage(t) = "read" /\ Stage(t)' = "update"
        BY <3>2 DEF Stage, Logging, Configuring
      <4> QED BY <2>2, <3>2, <4>1 DEF Protocol!Following
    <3>3. CASE pc[t] = "updating" /\ pc'[t] = IF ApplyLine THEN "applying" ELSE "confirming"
      <4>1. Stage(t) = "update" /\ Stage(t)' = IF ApplyLine THEN "apply" ELSE "confirm"
        BY <3>3 DEF Stage, Logging, Configuring
      <4> QED BY <4>1 DEF Protocol!Following
    <3>4. CASE pc[t] = "applying" /\ pc'[t] = "confirming"
      <4>1. Stage(t) = "apply" /\ Stage(t)' = "confirm"
        BY <3>4 DEF Stage, Logging, Configuring
      <4> QED BY <4>1 DEF Protocol!Following
    <3> QED BY <2>4, <3>1, <3>2, <3>3, <3>4
  <2> QED BY <1>3, <2>1, <2>3, <2>5, <2>6
<1>10. CASE CallRetried(t)
  <2>1. /\ pc[t] \in CucmCalls /\ pc[t] \in Busy \ Logging /\ pc' = pc /\ outcome' = outcome
        /\ request[t] \in Request
    BY <1>10, CallTyped, AttemptTyped DEF CallRetried, ends, Busy, CucmCalls, Logging, Configuring
  <2>2. request'[t].op = request[t].op
    BY <1>10, <2>1 DEF CallRetried, Request
  <2>3. Stage(t)' = Stage(t)
    BY <2>1 DEF Stage
  <2> QED BY <1>3, <2>1, <2>2, <2>3
<1>11. CASE LastCall(t)
  <2>1. /\ pc[t] \in {"reading", "confirming"}
        /\ \E result \in {"success", "unavailable"} : Conclude(t, result)
    BY <1>11 DEF LastCall
  <2>2. pc[t] \in Busy \ Logging /\ Protocol(t)!MaySucceed
    BY <2>1 DEF Stage, Busy, CucmCalls, Logging, Configuring, Protocol!MaySucceed
  <2> QED BY <1>1, <2>1, <2>2 DEF Results
<1>12. CASE CallFailed(t)
  <2>1. pc[t] \in Busy \ Logging /\ Conclude(t, "unavailable")
    BY <1>12, AttemptTyped DEF CallFailed, Busy, CucmCalls, Logging, Configuring
  <2> QED BY <1>1, <2>1 DEF Results
<1>13. CASE Log(t) \/ Clear(t) \/ AddHandler(t) \/ Mark(t)
  <2>1. pc[t] \in Logging /\ pc'[t] \in Logging /\ outcome' = outcome
    BY <1>13 DEF Log, Clear, AddHandler, Mark, ends, Logging, Configuring
  <2>2. Kind(t) = "none" /\ Kind(t)' = "none" /\ Verdict(t)' = Verdict(t)
    BY <2>1 DEF Kind, Verdict
  <2>3. Stage(t) = "over" /\ Stage(t)' = "over"
    BY <2>1 DEF Stage, Logging, Configuring
  <2> QED BY <2>2, <2>3 DEF Protocol!vars
\* The record is left, or cannot be.
<1>14. CASE CannotOpen(t) \/ Emit(t)
  <2>1. /\ pc[t] \in Logging /\ pc'[t] = "idle"
        /\ outcome'[t] = outcome[t] \/ outcome'[t] = "raised"
    BY <1>14 DEF CannotOpen, Emit, End, Logging, Configuring
  <2>2. Kind(t) = "none" /\ Kind(t)' = "none" /\ Verdict(t)' \in {Verdict(t), "failed"}
    BY <2>1 DEF Kind, Verdict
  <2>3. Stage(t) = "over" /\ Stage(t)' = "idle"
    BY <2>1 DEF Stage, Logging, Configuring
  <2> QED BY <2>2, <2>3 DEF Protocol!Next, Protocol!Leave
<1> QED BY <1>5, <1>6, <1>7, <1>8, <1>9, <1>10, <1>11, <1>12, <1>13, <1>14 DEF Step

(***************************************************************************)
(* The process refines the protocol of Diversion's handlers, once for each *)
(* thread, for any number of threads and attempts, whatever Phone Manager  *)
(* and CUCM answer: the first use of a client, repeated calls, exceptions, *)
(* a kill by gunicorn and a log that cannot be opened change no request's  *)
(* order of calls, and none is answered as a success that its calls do not *)
(* bear out (services.py:82-421).                                          *)
(***************************************************************************)
THEOREM ProcessFollowsProtocol == Spec => FollowsProtocol
<1>1. Init => \A t \in Threads : Protocol(t)!Init
  BY DEF Init, Protocol!Init, Kind, Stage, Verdict, Logging, Configuring
<1>2. ASSUME TypeOK, ServiceFound, [Next]_vars, NEW t \in Threads
      PROVE  [Protocol(t)!Next]_(Protocol(t)!vars)
  <2>1. ASSUME pc'[t] = pc[t], request'[t] = request[t], outcome'[t] = outcome[t]
        PROVE  UNCHANGED Protocol(t)!vars
    BY <2>1 DEF Kind, Stage, Verdict, Protocol!vars
  <2>2. ASSUME NEW u \in Threads, Step(u) PROVE [Protocol(t)!Next]_(Protocol(t)!vars)
    BY <1>2, <2>1, <2>2, StepAlone, StepFollows
  <2>3. ASSUME NEW u \in Threads, NEW o \in Operations, Receive(u, o)
        PROVE  [Protocol(t)!Next]_(Protocol(t)!vars)
    <3>1. CASE u # t
      <4>1. pc'[t] = pc[t] /\ request'[t] = request[t] /\ outcome'[t] = outcome[t]
        BY <1>2, <2>3, <3>1 DEF Receive, Goto, TypeOK
      <4> QED BY <2>1, <4>1
    <3>2. CASE u = t
      <4>1. /\ pc[t] = "idle" /\ pc'[t] = "entering" /\ request'[t].op = o /\ outcome'[t] = "none"
        BY <1>2, <2>3, <3>2 DEF Receive, At, Goto, TypeOK
      <4>2. Stage(t) = "idle" /\ Stage(t)' = "device" /\ Verdict(t)' = "none"
        BY <4>1 DEF Stage, Verdict, Logging, Configuring
      <4>3. Kind(t)' \in {"query", "enable", "disable"}
        BY <4>1 DEF Kind, Logging, Configuring, Operations
      <4> QED BY <4>2, <4>3 DEF Protocol!Next, Protocol!Begin
    <3> QED BY <3>1, <3>2
  <2>4. CASE Kill
    <3>1. PICK u \in Threads : pc[u] # "idle" /\ End(u, "killed")
      BY <2>4 DEF Kill, Active
    <3>2. CASE u # t
      <4>1. pc'[t] = pc[t] /\ request'[t] = request[t] /\ outcome'[t] = outcome[t]
        BY <1>2, <3>1, <3>2 DEF End, Goto, TypeOK
      <4> QED BY <2>1, <4>1
    <3>3. CASE u = t
      <4>1. pc[t] # "idle" /\ pc'[t] = "idle" /\ outcome'[t] = "killed"
        BY <1>2, <3>1, <3>3 DEF End, Goto, TypeOK
      <4>2. Kind(t)' = "none" /\ Stage(t)' = "idle" /\ Verdict(t)' = "failed"
        BY <4>1 DEF Kind, Stage, Verdict, Logging, Configuring
      <4>3. CASE pc[t] \in Logging
        <5>1. Kind(t) = "none" /\ Stage(t) = "over"
          BY <4>3 DEF Kind, Stage, Logging, Configuring
        <5> QED BY <4>2, <5>1 DEF Protocol!Next, Protocol!Leave
      <4>4. CASE pc[t] \in Busy \ Logging
        <5>1. Kind(t) # "none"
          BY <1>2, <4>4, UnansweredKind
        <5> QED BY <4>2, <5>1 DEF Protocol!Next, Protocol!Answer
      <4> QED BY <1>2, <4>1, <4>3, <4>4 DEF TypeOK, Busy
    <3> QED BY <3>2, <3>3
  <2>5. CASE UNCHANGED vars \/ Trouble
    BY <2>1, <2>5 DEF vars, ends, Trouble
  <2> QED BY <1>2, <2>2, <2>3, <2>4, <2>5 DEF Next
<1>3. TypeOK /\ ServiceFound /\ [Next]_vars
        => [\A t \in Threads : [Protocol(t)!Next]_(Protocol(t)!vars)]_vars
  BY <1>2
<1> QED BY <1>1, <1>3, Found, PTL DEF Spec, FollowsProtocol
=============================================================================
