----------------------------- MODULE RequestProofs -----------------------------
(* Theorems about one request in Diversion.tla, for any deployment of the     *)
(* service: how many steps its handler takes, and what requests that change   *)
(* nothing do to the caches.                                                  *)
EXTENDS HandsetProofs

-----------------------------------------------------------------------------
(* The steps of a handler *)

\* A handler that waits for an updateLine has made at most MaxAttempts of it.
LEMMA StepsTyped ==
  ASSUME TypeOK, NEW w \in Workers
  PROVE  /\ StepsLeft(w) \in 0..(MaxAttempts + 7)
         /\ Active(w) => StepsLeft(w) > 0
<1>1. MaxAttempts \in Nat
  BY ConstantsAssumption
<1>2. pc[w] \in {"idle"} \cup Busy
  BY DEF TypeOK, WorkersTypeOK
<1>3. pc[w] = "updating" => MaxAttempts - request[w].attempt \in 0..MaxAttempts
  BY <1>1 DEF TypeOK, WorkersTypeOK, Request
<1>4. CASE pc[w] \in {"idle", "filling", "verifying", "confirming", "applying"}
  <2>1. StepsLeft(w) \in 0..3 /\ (Active(w) => StepsLeft(w) > 0)
    BY <1>4 DEF StepsLeft, Active
  <2> QED BY <1>1, <2>1
<1>5. CASE pc[w] = "updating"
  BY <1>1, <1>3, <1>5 DEF StepsLeft
<1>6. CASE pc[w] \in {"deciding", "reading", "validating"}
  <2>1. StepsLeft(w) \in {4 + MaxAttempts, 5 + MaxAttempts, 7 + MaxAttempts}
    BY <1>6 DEF StepsLeft
  <2> QED BY <1>1, <2>1
<1>7. CASE pc[w] \in {"looking", "invalidating", "normalizing"}
  <2>1. StepsLeft(w) = 6 + MaxAttempts
    BY <1>7 DEF StepsLeft
  <2> QED BY <1>1, <2>1
<1> QED BY <1>2, <1>4, <1>5, <1>6, <1>7 DEF Busy, Calling, Holding, Writing

\* Each step of a handler leaves it fewer.
LEMMA HandleRunsOut ==
  ASSUME TypeOK, NEW w \in Workers, Handle(w)
  PROVE  StepsLeft(w)' < StepsLeft(w)
<1>1. MaxAttempts \in Nat \ {0} /\ request[w] \in Request /\ pc[w] # "idle"
  BY ConstantsAssumption, HandleActive
<1>2. StepsLeft(w) \in Nat /\ StepsLeft(w) > 0 /\ request[w].attempt \in 0..MaxAttempts
  BY <1>1, StepsTyped DEF Active, Request
<1> DEFINE Becomes(label) == pc'[w] = label
<1> USE <1>1, <1>2 DEF At, Goto, TypeOK, WorkersTypeOK
<1>3. ASSUME pc'[w] = "idle" PROVE StepsLeft(w)' < StepsLeft(w)
  BY <1>3 DEF StepsLeft
<1>4. ASSUME NEW result, Finish(w, result) PROVE StepsLeft(w)' < StepsLeft(w)
  BY <1>3, <1>4 DEF Finish
<1>5. CASE Validate(w)
  <2>1. request[w].op \in Operations
    BY DEF Request
  <2> QED BY <1>5, <2>1 DEF Validate, Proceed, Operations, StepsLeft
<1>6. CASE Normalize(w)
  <2>1. CASE Proceed(w, "reading")
    BY <1>6, <2>1 DEF Normalize, Proceed, StepsLeft
  <2> QED BY <1>4, <1>6, <2>1 DEF Normalize
<1>7. CASE Look(w)
  <2>1. CASE Proceed(w, "reading")
    BY <1>7, <2>1 DEF Look, Proceed, StepsLeft
  <2> QED BY <1>4, <1>7, <2>1 DEF Look
<1>8. CASE Invalidate(w)
  BY <1>8 DEF Invalidate, Proceed, StepsLeft
<1>9. CASE Read(w)
  BY <1>9 DEF Read, Proceed, StepsLeft
<1>10. CASE DecideUpdate(w)
  <2>1. request'[w].attempt = 1 /\ pc'[w] = "updating" /\ pc[w] = "deciding"
    BY <1>10 DEF DecideUpdate, SendUpdate, Proceed, Request
  <2> QED BY <2>1 DEF StepsLeft
<1>11. CASE UpdateRetry(w)
  <2>1. /\ request'[w].attempt = request[w].attempt + 1 /\ request[w].attempt < MaxAttempts
        /\ pc'[w] = "updating" /\ pc[w] = "updating"
    BY <1>11 DEF UpdateRetry, SendUpdate, Request
  <2> QED BY <2>1 DEF StepsLeft
<1>12. CASE UpdateReply(w)
  BY <1>12 DEF UpdateReply, Proceed, StepsLeft
<1>13. CASE Apply(w)
  BY <1>13 DEF Apply, Proceed, StepsLeft
<1>14. CASE Confirm(w)
  BY <1>14 DEF Confirm, Proceed, StepsLeft
<1>15. CASE \/ Refuse(w) \/ Fill(w) \/ DecideUnchanged(w) \/ DecideSimulated(w) \/ UpdateFault(w)
            \/ VerifyConfirmed(w) \/ VerifyMismatch(w) \/ Fail(w)
  BY <1>4, <1>15 DEF Refuse, Fill, DecideUnchanged, DecideSimulated, UpdateFault, VerifyConfirmed,
                     VerifyMismatch, Fail
<1> QED BY <1>5, <1>6, <1>7, <1>8, <1>9, <1>10, <1>11, <1>12, <1>13, <1>14, <1>15 DEF Handle

\* What a step is to a worker: a request arrives, its handler goes on, it is
\* left alone, or its process is killed.
LEMMA WorkerStep ==
  ASSUME TypeOK, [Next]_vars, NEW w \in Workers, ~Handle(w)
  PROVE  \/ Receive(w)
         \/ pc'[w] = pc[w] /\ request'[w] = request[w] /\ outcome'[w] = outcome[w]
         \/ Active(w) /\ pc'[w] = "idle" /\ outcome'[w] = "lost"
<1> DEFINE Alone == pc'[w] = pc[w] /\ request'[w] = request[w] /\ outcome'[w] = outcome[w]
<1>1. ASSUME NEW x \in Workers \ {w}, Receive(x) PROVE Alone
  BY <1>1 DEF Receive, ReceiveQuery, ReceiveChange, ReceiveMalformed, Accept, Finish, Goto,
              TypeOK, WorkersTypeOK
<1>2. ASSUME NEW x \in Workers, Handle(x) PROVE Alone
  BY <1>2, HandleAlone
<1>3. ASSUME NEW p \in Processes, Restart(p)
      PROVE  Alone \/ (Active(w) /\ pc'[w] = "idle" /\ outcome'[w] = "lost")
  BY <1>3 DEF Restart
<1>4. CASE \/ \E m \in wire : CucmUpdate(m)
           \/ \E p \in Processes, d \in Devices : Expire(p, d)
           \/ \E l \in Lines : AdminEdit(l)
           \/ UNCHANGED vars
  BY <1>4 DEF CucmUpdate, Expire, AdminEdit, vars, workerVars
<1> QED BY <1>1, <1>2, <1>3, <1>4 DEF Next

(***************************************************************************)
(* A handler runs out of steps, whatever fails, is repeated or interferes, *)
(* for any number of workers and any retry limit: it takes at most         *)
(* MaxAttempts + 7 steps, each lowers what is left, and nothing raises it  *)
(* (services.py:82-281, 283-421).                                          *)
(***************************************************************************)
THEOREM StepsRunOut ==
  Spec => /\ HandlersRunOut
          /\ [](\A w \in Workers : StepsLeft(w) \in 0..(MaxAttempts + 7))
<1> DEFINE Step == \A w \in Workers :
                     Active(w) => \/ StepsLeft(w)' < StepsLeft(w)
                                  \/ StepsLeft(w)' = StepsLeft(w) /\ ~Handle(w)
<1>1. TypeOK => \A w \in Workers : StepsLeft(w) \in 0..(MaxAttempts + 7)
  BY StepsTyped
<1>2. TypeOK /\ [Next]_vars => [Step]_vars
  <2> SUFFICES ASSUME TypeOK, [Next]_vars, NEW w \in Workers, Active(w), ~Handle(w)
               PROVE  StepsLeft(w)' < StepsLeft(w) \/ StepsLeft(w)' = StepsLeft(w)
    BY HandleRunsOut
  <2>1. ~Receive(w)
    BY DEF Receive, ReceiveQuery, ReceiveChange, ReceiveMalformed, Accept, At, Active
  <2>2. CASE pc'[w] = pc[w] /\ request'[w] = request[w]
    BY <2>2 DEF StepsLeft
  <2>3. CASE pc'[w] = "idle"
    <3>1. StepsLeft(w)' = 0
      BY <2>3 DEF StepsLeft
    <3> QED BY <3>1, StepsTyped
  <2> QED BY <2>1, <2>2, <2>3, WorkerStep
<1> QED BY <1>1, <1>2, TypeCorrect, PTL DEF Spec, HandlersRunOut

-----------------------------------------------------------------------------
(* Caches while nothing changes *)

\* What the handler of a query does: it sends nothing, and stores what it has read.
LEMMA QueryStep ==
  ASSUME TypeOK, PathInv, NEW w \in Workers, Handle(w), request[w].op \notin Changing
  PROVE  /\ line' = line /\ wire' = wire
         /\ \/ UNCHANGED cache
            \/ Store(w, None)
            \/ At(w, "filling") /\ Store(w, request[w].current)
         /\ At(w, "filling")' => request'[w].current = line[LineOfWorker(w)]
<1>1. pc[w] # "deciding" /\ pc[w] \notin Writing /\ pc[w] # "idle"
  BY HandleActive DEF PathInv, OnPath, At
<1> USE <1>1 DEF At, Goto, cucmVars, TypeOK, WorkersTypeOK, Writing
<1>2. CASE Validate(w)
  <2>1. request[w].op \in Operations
    BY HandleActive DEF Request
  <2> QED BY <1>2, <2>1 DEF Validate, Proceed, Operations
<1>3. CASE Refuse(w)
  BY <1>3 DEF Refuse, Finish
<1>4. CASE Normalize(w)
  BY <1>4 DEF Normalize, Finish, Proceed
<1>5. CASE Look(w)
  BY <1>5 DEF Look, Finish, Proceed
<1>6. CASE Invalidate(w)
  BY <1>6 DEF Invalidate, Proceed
<1>7. CASE Read(w)
  <2>1. request[w] \in Request
    BY HandleActive
  <2>2. request'[w].current = line[LineOfWorker(w)]
    BY <1>7, <2>1 DEF Read, GetLine, Request
  <2> QED BY <1>7, <2>2 DEF Read, Proceed
<1>8. CASE Fill(w)
  BY <1>8 DEF Fill, Finish
<1>9. CASE Fail(w)
  BY <1>9 DEF Fail, Finish
<1>10. ~(\/ DecideUnchanged(w) \/ DecideSimulated(w) \/ DecideUpdate(w)
         \/ UpdateReply(w) \/ UpdateRetry(w) \/ UpdateFault(w)
         \/ Apply(w) \/ Confirm(w) \/ VerifyConfirmed(w) \/ VerifyMismatch(w))
  BY DEF DecideUnchanged, DecideSimulated, DecideUpdate, UpdateReply, UpdateRetry, UpdateFault,
         Apply, Confirm, VerifyConfirmed, VerifyMismatch
<1> QED BY <1>2, <1>3, <1>4, <1>5, <1>6, <1>7, <1>8, <1>9, <1>10 DEF Handle

\* A handler that is left alone is as calm as it was.
CalmAt(w) ==
  Active(w) => /\ request[w].op \notin Changing
               /\ At(w, "filling") => request[w].current = line[LineOfWorker(w)]

LEMMA HealStep ==
  ASSUME TypeOK, PathInv, Calm, [Next]_vars,
         budget'.changes = budget.changes, budget'.edits = budget.edits
  PROVE  /\ Calm'
         /\ \A p \in Processes, d \in Devices : cache'[p][d] = cache[p][d] \/ CacheAgrees(p, d)'
<1> USE DEF At, Goto
<1>1. wire = {} /\ \A w \in Workers : CalmAt(w)
  BY DEF Calm, CalmAt
<1>2. ASSUME wire' = {}, \A w \in Workers : CalmAt(w)' PROVE Calm'
  BY <1>2 DEF Calm, CalmAt
<1>3. ASSUME NEW x \in Workers, line' = line,
             pc'[x] = "idle" \/ (pc'[x] = pc[x] /\ request'[x] = request[x])
      PROVE  CalmAt(x)'
  BY <1>1, <1>3 DEF CalmAt, Active, LineOfWorker
<1>4. ASSUME NEW w \in Workers, Handle(w)
      PROVE  /\ Calm'
             /\ \A p \in Processes, d \in Devices :
                  cache'[p][d] = cache[p][d] \/ CacheAgrees(p, d)'
  <2>1. /\ request[w] \in Request /\ pc[w] # "idle" /\ request[w].op \notin Changing
        /\ request[w].device \in Devices /\ ProcessOf[w] \in Processes
    BY <1>1, <1>4, HandleActive, ConstantsAssumption DEF CalmAt, Active
  <2>2. /\ line' = line /\ wire' = wire
        /\ \/ UNCHANGED cache
           \/ Store(w, None)
           \/ At(w, "filling") /\ Store(w, request[w].current)
        /\ At(w, "filling")' => request'[w].current = line[LineOfWorker(w)]
    BY <1>4, <2>1, QueryStep
  <2>3. CalmAt(w)'
    <3>1. CASE pc'[w] = "idle"
      BY <3>1 DEF CalmAt, Active
    <3>2. CASE pc'[w] # "idle"
      <4>1. request'[w].op = request[w].op /\ request'[w].device = request[w].device
        BY <1>4, <3>2, HandleGoesOn
      <4> QED BY <2>1, <2>2, <4>1 DEF CalmAt, LineOfWorker
    <3> QED BY <3>1, <3>2
  <2>4. \A x \in Workers : CalmAt(x)'
    BY <1>3, <1>4, <2>2, <2>3, HandleAlone
  <2>5. ASSUME NEW state \in {None, line[LineOfWorker(w)]}, Store(w, state),
               NEW p \in Processes, NEW d \in Devices
        PROVE  cache'[p][d] = cache[p][d] \/ CacheAgrees(p, d)'
    <3>1. cache'[p][d] = IF p = ProcessOf[w] /\ d = request[w].device THEN state ELSE cache[p][d]
      BY <2>1, <2>5 DEF Store, TypeOK
    <3> QED BY <2>2, <3>1 DEF CacheAgrees, LineOfWorker
  <2>6. At(w, "filling") => request[w].current = line[LineOfWorker(w)]
    BY <1>1, <2>1 DEF CalmAt, Active
  <2> QED BY <1>1, <1>2, <2>2, <2>4, <2>5, <2>6
<1>5. ASSUME NEW w \in Workers, Receive(w)
      PROVE  Calm' /\ UNCHANGED cache
  <2>1. ~(\E d \in Devices, o \in Operations : ReceiveChange(w, d, o))
    BY DEF ReceiveChange, TypeOK
  <2>2. CASE ReceiveMalformed(w)
    <3>1. \A x \in Workers : (pc'[x] = pc[x] /\ request'[x] = request[x]) \/ pc'[x] = "idle"
      BY <2>2 DEF ReceiveMalformed, Finish, TypeOK, WorkersTypeOK
    <3> QED BY <1>1, <1>2, <1>3, <2>2, <3>1 DEF ReceiveMalformed, cucmVars
  <2>3. ASSUME NEW d \in Devices, NEW o \in Operations, ReceiveQuery(w, d, o)
        PROVE  Calm' /\ UNCHANGED cache
    <3>1. /\ line' = line /\ wire' = wire /\ cache' = cache /\ o \notin Changing
          /\ pc'[w] = "validating" /\ request'[w].op = o
          /\ \A x \in Workers \ {w} : pc'[x] = pc[x] /\ request'[x] = request[x]
      BY <2>3 DEF ReceiveQuery, Accept, cucmVars, TypeOK, WorkersTypeOK
    <3>2. CalmAt(w)'
      BY <3>1 DEF CalmAt
    <3> QED BY <1>1, <1>2, <1>3, <3>1, <3>2
  <2> QED BY <1>5, <2>1, <2>2, <2>3 DEF Receive
<1>6. ASSUME NEW p \in Processes, NEW d \in Devices, Expire(p, d)
      PROVE  /\ Calm'
             /\ \A q \in Processes, e \in Devices :
                  cache'[q][e] = cache[q][e] \/ CacheAgrees(q, e)'
  BY <1>1, <1>2, <1>3, <1>6 DEF Expire, cucmVars, workerVars, CacheAgrees, TypeOK
<1>7. ASSUME NEW p \in Processes, Restart(p)
      PROVE  /\ Calm'
             /\ \A q \in Processes, e \in Devices :
                  cache'[q][e] = cache[q][e] \/ CacheAgrees(q, e)'
  BY <1>1, <1>2, <1>3, <1>7 DEF Restart, cucmVars, CacheAgrees, TypeOK
<1>8. ~(\E m \in wire : CucmUpdate(m)) /\ ~(\E l \in Lines : AdminEdit(l))
  BY <1>1 DEF AdminEdit, TypeOK
<1>9. CASE UNCHANGED vars
  BY <1>1, <1>2, <1>3, <1>9 DEF vars, cucmVars, workerVars
<1> QED BY <1>4, <1>5, <1>6, <1>7, <1>8, <1>9 DEF Next

(***************************************************************************)
(* Until the next change or edit a calm service stays calm and each step   *)
(* leaves an entry alone, drops it, or replaces it by what its line has:   *)
(* no number of queries, processes, failures and restarts renews a stale   *)
(* one (services.py:82-122, 424-446).                                      *)
(***************************************************************************)
THEOREM CalmHeals == Spec => CachesHeal
<1> DEFINE Step == Calm /\ budget'.changes = budget.changes /\ budget'.edits = budget.edits =>
                     /\ Calm'
                     /\ \A p \in Processes, d \in Devices :
                          cache'[p][d] = cache[p][d] \/ CacheAgrees(p, d)'
<1>1. TypeOK /\ PathInv /\ [Next]_vars => [Step]_vars
  BY HealStep
<1> QED BY <1>1, ServiceCorrect, PTL DEF Spec, CachesHeal

-----------------------------------------------------------------------------
(* The order of the calls                                                    *)

LEMMA BusyStage ==
  ASSUME TypeOK, NEW w \in Workers, Active(w)
  PROVE  /\ Kind(w) \in {"query", "enable", "disable"}
         /\ Kind(w) = "enable" <=> request[w].op = "enable"
         /\ Kind(w) = "query" <=> request[w].op \notin Changing
<1>1. request[w].op \in Operations
  BY DEF TypeOK, WorkersTypeOK, Active, Request
<1> QED BY <1>1 DEF Kind, Operations, Changing

\* A step of a handler is one of the protocol.
LEMMA HandleFollows ==
  ASSUME TypeOK, PathInv, NEW w \in Workers, Handle(w)
  PROVE  [Protocol(w)!Next]_(Protocol(w)!vars)
<1>1. Active(w) /\ request[w] \in Request /\ OnPath(w)
  BY HandleActive DEF PathInv, Active
<1>2. /\ Kind(w) \in {"query", "enable", "disable"}
      /\ Kind(w) = "enable" <=> request[w].op = "enable"
      /\ Kind(w) = "query" <=> request[w].op \notin Changing
  BY <1>1, BusyStage
<1> USE DEF At, Goto, TypeOK, WorkersTypeOK
<1> DEFINE Step == [Protocol(w)!Next]_(Protocol(w)!vars)
\* The handler ends.
<1>3. ASSUME NEW r, Finish(w, r),
             Verdict(w)' = "failed" \/ (Verdict(w)' = "success" /\ Protocol(w)!MaySucceed)
      PROVE  Step
  <2>1. Kind(w)' = "none" /\ Stage(w)' = "idle"
    BY <1>3 DEF Finish, Kind, Stage, Active
  <2> QED BY <1>2, <1>3, <2>1 DEF Protocol!Next, Protocol!Answer
\* The handler goes on.
<1>4. ASSUME pc'[w] # "idle", outcome' = outcome,
             Stage(w)' = Stage(w) \/ Stage(w)' = Protocol(w)!Following
      PROVE  Step
  <2>1. Kind(w)' = Kind(w)
    BY <1>1, <1>4, HandleGoesOn DEF Kind, Active
  <2>2. Verdict(w)' = Verdict(w)
    BY <1>4 DEF Verdict
  <2> QED BY <1>4, <2>1, <2>2 DEF Protocol!Next, Protocol!Advance, Protocol!vars
<1>5. CASE Validate(w)
  <2>1. request[w].op \in Operations
    BY <1>1 DEF Request
  <2>2. /\ pc[w] = "validating" /\ outcome' = outcome
        /\ pc'[w] = CASE request[w].op = "status"  -> "looking"
                      [] request[w].op = "refresh" -> "invalidating"
                      [] request[w].op = "enable"  -> "normalizing"
                      [] request[w].op = "disable" -> "reading"
    BY <1>5 DEF Validate, Proceed
  <2>3. Stage(w) = "device"
    BY <2>2 DEF Stage
  <2>4. Stage(w)' = IF request[w].op = "enable" THEN "number"
                    ELSE IF request[w].op = "disable" THEN "read" ELSE "device"
    BY <2>1, <2>2 DEF Stage, Operations
  <2> QED BY <1>2, <1>4, <2>1, <2>2, <2>3, <2>4 DEF Protocol!Following, Operations
<1>6. CASE Normalize(w)
  <2>1. CASE Proceed(w, "reading")
    <3>1. pc[w] = "normalizing" /\ pc'[w] = "reading" /\ outcome' = outcome
      BY <1>6, <2>1 DEF Normalize, Proceed
    <3>2. Stage(w) = "number" /\ Stage(w)' = "read"
      BY <3>1 DEF Stage
    <3> QED BY <1>4, <3>1, <3>2 DEF Protocol!Following
  <2>2. CASE Finish(w, "invalid")
    BY <1>3, <2>2 DEF Finish, Verdict, Fresh
  <2> QED BY <1>6, <2>1, <2>2 DEF Normalize
<1>7. CASE Look(w)
  <2>1. pc[w] = "looking" /\ Kind(w) = "query" /\ Stage(w) = "device"
    BY <1>1, <1>2, <1>7 DEF Look, OnPath, Changing, Stage
  <2>2. CASE Finish(w, "cached")
    <3>1. Verdict(w)' = "success"
      BY <2>2 DEF Finish, Verdict, Fresh
    <3> QED BY <1>3, <2>1, <2>2, <3>1 DEF Protocol!MaySucceed
  <2>3. CASE Proceed(w, "reading")
    <3>1. pc'[w] = "reading" /\ outcome' = outcome
      BY <2>3 DEF Proceed
    <3>2. Stage(w)' = "read"
      BY <3>1 DEF Stage
    <3> QED BY <1>4, <2>1, <3>1, <3>2 DEF Protocol!Following
  <2> QED BY <1>7, <2>2, <2>3 DEF Look
<1>8. CASE Invalidate(w)
  <2>1. pc[w] = "invalidating" /\ Kind(w) = "query"
    BY <1>1, <1>2, <1>8 DEF Invalidate, OnPath, Changing
  <2>2. pc'[w] = "reading" /\ outcome' = outcome
    BY <1>8 DEF Invalidate, Proceed
  <2>3. Stage(w) = "device" /\ Stage(w)' = "read"
    BY <2>1, <2>2 DEF Stage
  <2> QED BY <1>4, <2>1, <2>2, <2>3 DEF Protocol!Following
<1>9. CASE Read(w)
  <2>1. pc[w] = "reading" /\ pc'[w] \in {"deciding", "filling"} /\ outcome' = outcome
    BY <1>9 DEF Read, Proceed
  <2>2. Stage(w) = "read" /\ Stage(w)' = "read"
    BY <2>1 DEF Stage
  <2> QED BY <1>4, <2>1, <2>2
<1>10. CASE Fill(w) \/ DecideUnchanged(w) \/ DecideSimulated(w)
  <2>1. pc[w] \in {"filling", "deciding"} /\ \E r \in {"refreshed", "unchanged", "simulated"} : Finish(w, r)
    BY <1>10 DEF Fill, DecideUnchanged, DecideSimulated
  <2>2. Stage(w) = "read" /\ Verdict(w)' = "success"
    BY <2>1 DEF Stage, Finish, Verdict, Fresh
  <2> QED BY <1>3, <2>1, <2>2 DEF Protocol!MaySucceed
<1>11. CASE DecideUpdate(w)
  <2>1. pc[w] = "deciding" /\ Kind(w) # "query"
    BY <1>1, <1>2, <1>11 DEF DecideUpdate, OnPath
  <2>2. pc'[w] = "updating" /\ outcome' = outcome
    BY <1>11 DEF DecideUpdate, Proceed
  <2>3. Stage(w) = "read" /\ Stage(w)' = "update"
    BY <2>1, <2>2 DEF Stage
  <2> QED BY <1>4, <2>1, <2>2, <2>3 DEF Protocol!Following
<1>12. CASE UpdateReply(w)
  <2>1. /\ pc[w] = "updating" /\ pc'[w] = IF ApplyLine THEN "applying" ELSE "confirming"
        /\ outcome' = outcome
    BY <1>12 DEF UpdateReply, Proceed
  <2>2. Stage(w) = "update" /\ Stage(w)' = IF ApplyLine THEN "apply" ELSE "confirm"
    BY <2>1 DEF Stage
  <2> QED BY <1>4, <2>1, <2>2 DEF Protocol!Following
<1>13. CASE UpdateRetry(w)
  <2>1. pc[w] = "updating" /\ pc' = pc /\ outcome' = outcome
    BY <1>13 DEF UpdateRetry
  <2> QED BY <1>4, <2>1 DEF Stage
<1>14. CASE Apply(w)
  <2>1. pc[w] = "applying" /\ pc'[w] = "confirming" /\ outcome' = outcome
    BY <1>14 DEF Apply, Proceed
  <2>2. Stage(w) = "apply" /\ Stage(w)' = "confirm"
    BY <2>1 DEF Stage
  <2> QED BY <1>4, <2>1, <2>2 DEF Protocol!Following
<1>15. CASE Confirm(w)
  <2>1. pc[w] = "confirming" /\ pc'[w] = "verifying" /\ outcome' = outcome
    BY <1>15 DEF Confirm, Proceed
  <2>2. Stage(w) = "confirm" /\ Stage(w)' = "confirm"
    BY <2>1 DEF Stage
  <2> QED BY <1>4, <2>1, <2>2
<1>16. CASE VerifyConfirmed(w)
  <2>1. pc[w] = "verifying" /\ Finish(w, "changed")
    BY <1>16 DEF VerifyConfirmed
  <2>2. Stage(w) = "confirm" /\ Verdict(w)' = "success"
    BY <2>1 DEF Stage, Finish, Verdict, Fresh
  <2> QED BY <1>3, <2>1, <2>2 DEF Protocol!MaySucceed
<1>17. CASE Refuse(w) \/ UpdateFault(w) \/ VerifyMismatch(w) \/ Fail(w)
  <2>1. PICK r \in {"unavailable", "raised"} : Finish(w, r)
    BY <1>17 DEF Refuse, UpdateFault, VerifyMismatch, Fail
  <2>2. Verdict(w)' = "failed"
    BY <2>1 DEF Finish, Verdict, Fresh
  <2> QED BY <1>3, <2>1, <2>2
<1> QED BY <1>5, <1>6, <1>7, <1>8, <1>9, <1>10, <1>11, <1>12, <1>13, <1>14, <1>15, <1>16, <1>17
        DEF Handle

\* A request arrives, or is refused for what was entered.
LEMMA ReceiveFollows ==
  ASSUME TypeOK, NEW w \in Workers, Receive(w)
  PROVE  Protocol(w)!Next
<1> USE DEF At, Goto, TypeOK, WorkersTypeOK
<1>1. pc[w] = "idle" /\ Stage(w) = "idle" /\ Kind(w) = "none"
  BY DEF Receive, ReceiveQuery, ReceiveChange, ReceiveMalformed, Accept, Stage, Kind, Active
<1>2. ASSUME NEW d \in Devices, NEW o \in Operations, NEW id, Accept(w, d, o, id)
      PROVE  Protocol(w)!Begin
  <2>1. pc'[w] = "validating" /\ request'[w].op = o /\ outcome'[w] = "none"
    BY <1>2 DEF Accept
  <2>2. Kind(w)' \in {"query", "enable", "disable"}
    BY <2>1 DEF Kind, Active, Changing
  <2>3. Stage(w)' = "device" /\ Verdict(w)' = "none"
    BY <2>1 DEF Stage, Verdict, Fresh
  <2> QED BY <1>1, <2>2, <2>3 DEF Protocol!Begin
<1>3. ASSUME ReceiveMalformed(w) PROVE Protocol(w)!Reject
  <2>1. pc'[w] = "idle" /\ outcome'[w] = "invalid"
    BY <1>3 DEF ReceiveMalformed, Finish
  <2>2. Stage(w)' = "idle" /\ Kind(w)' = "none" /\ Verdict(w)' = "failed"
    BY <2>1 DEF Stage, Kind, Active, Verdict, Fresh
  <2> QED BY <1>1, <2>2 DEF Protocol!Reject
<1> QED BY <1>2, <1>3 DEF Receive, ReceiveQuery, ReceiveChange, Protocol!Next

(***************************************************************************)
(* The service refines RequestProtocol once for each worker, for any       *)
(* number of workers, processes, handsets and lines: no interleaving, no   *)
(* failure and no restart makes a handler skip a call, repeat one it has   *)
(* finished or report a success its calls do not bear out                  *)
(* (services.py:82-421).                                                   *)
(***************************************************************************)
THEOREM ServiceFollowsProtocol == Spec => FollowsProtocol
<1>1. Init => \A w \in Workers : Protocol(w)!Init
  BY DEF Init, Protocol!Init, Kind, Stage, Verdict, Active, Fresh
<1>2. ASSUME TypeOK, PathInv, [Next]_vars, NEW w \in Workers
      PROVE  [Protocol(w)!Next]_(Protocol(w)!vars)
  <2>1. CASE Handle(w)
    BY <1>2, <2>1, HandleFollows
  <2>2. CASE Receive(w)
    BY <1>2, <2>2, ReceiveFollows
  <2>3. CASE pc'[w] = pc[w] /\ request'[w] = request[w] /\ outcome'[w] = outcome[w]
    BY <2>3 DEF Kind, Stage, Verdict, Active, Protocol!vars
  <2>4. CASE Active(w) /\ pc'[w] = "idle" /\ outcome'[w] = "lost"
    <3>1. Kind(w) # "none"
      BY <1>2, <2>4, BusyStage
    <3>2. Kind(w)' = "none" /\ Stage(w)' = "idle" /\ Verdict(w)' = "failed"
      BY <2>4 DEF Kind, Stage, Verdict, Active, Fresh
    <3> QED BY <3>1, <3>2 DEF Protocol!Next, Protocol!Answer
  <2> QED BY <1>2, <2>1, <2>2, <2>3, <2>4, WorkerStep
<1>3. TypeOK /\ PathInv /\ [Next]_vars
        => [\A w \in Workers : [Protocol(w)!Next]_(Protocol(w)!vars)]_vars
  BY <1>2
<1> QED BY <1>1, <1>3, ServiceCorrect, PTL DEF Spec, FollowsProtocol
=============================================================================
