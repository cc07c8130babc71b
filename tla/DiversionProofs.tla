--------------------------- MODULE DiversionProofs ---------------------------
(* Theorems about Diversion.tla, for any deployment, any retry limit and any *)
(* bounds.                                                                   *)
EXTENDS Diversion, TLAPS

(* Helpers: what leaving the handler, moving on in it and storing a cache  *)
(* entry do to the types.                                                   *)

LEMMA FinishTyped ==
  ASSUME WorkersTypeOK, NEW w \in Workers, NEW result \in Outcomes, Finish(w, result)
  PROVE  WorkersTypeOK'
BY DEF WorkersTypeOK, Finish, Goto, Busy, Calling, Holding, Writing

LEMMA StoreTyped ==
  ASSUME cache \in [Processes -> [Devices -> CfaState \cup {None}]],
         NEW w \in Workers, request[w] \in Request,
         NEW state \in CfaState \cup {None}, Store(w, state)
  PROVE  cache' \in [Processes -> [Devices -> CfaState \cup {None}]]
BY ConstantsAssumption DEF Store, Request

LEMMA LineTyped ==
  ASSUME NEW w \in Workers, request[w] \in Request
  PROVE  LineOfWorker(w) \in Lines
BY ConstantsAssumption DEF LineOfWorker, Request

LEMMA UpdateTyped ==
  ASSUME NEW w \in Workers, request[w] \in Request, request[w].current \in CfaState, NEW n \in Nat
  PROVE  UpdateRequest(w, n) \in Update
BY LineTyped DEF UpdateRequest, Request, Update, CfaState

\* One worker moves on, with a new request record.
LEMMA StepTyped ==
  ASSUME WorkersTypeOK, NEW w \in Workers, NEW label \in Busy, NEW r \in Request,
         label \in Holding => r.current \in CfaState,
         pc' = [pc EXCEPT ![w] = label],
         request' = [request EXCEPT ![w] = r],
         outcome' = outcome, seen' = seen
  PROVE  WorkersTypeOK'
BY DEF WorkersTypeOK

LEMMA TypeInit == Init => TypeOK
BY ConstantsAssumption
DEF Init, TypeOK, WorkersTypeOK, CfaState, Outcomes, Busy, Calling, Holding, Writing

LEMMA TypeStep == TypeOK /\ [Next]_vars => TypeOK'
<1> SUFFICES ASSUME TypeOK, [Next]_vars PROVE TypeOK'
  OBVIOUS
<1> USE ConstantsAssumption
<1> USE DEF TypeOK, At, Goto, cucmVars
<1>0. \A w \in Workers : /\ pc[w] # "idle" => request[w] \in Request
                         /\ pc[w] \in Holding => request[w].current \in CfaState
  <2>1. WorkersTypeOK
    OBVIOUS
  <2> QED BY ONLY <2>1 DEF WorkersTypeOK
<1>1. ASSUME NEW w \in Workers, Receive(w) PROVE TypeOK'
  <2>1. ASSUME NEW d \in Devices, NEW o \in Operations, NEW id \in Nat, Accept(w, d, o, id)
        PROVE  WorkersTypeOK'
    <3> DEFINE r == [op |-> o, device |-> d, wanted |-> None,
                     current |-> None, serial |-> id, attempt |-> 0]
    <3>1. r \in Request
      BY DEF Request
    <3>2. request' = [request EXCEPT ![w] = r] /\ pc' = [pc EXCEPT ![w] = "validating"]
      BY <2>1 DEF Accept
    <3>3. outcome' \in [Workers -> Outcomes] /\ seen' \in [Workers -> SUBSET CfaState]
      BY <2>1 DEF Accept, WorkersTypeOK, Outcomes
    <3> HIDE DEF r
    <3> QED BY <3>1, <3>2, <3>3 DEF WorkersTypeOK, Busy, Calling, Holding, Writing
  <2>2. ASSUME NEW d \in Devices, NEW o \in Operations, ReceiveQuery(w, d, o) PROVE TypeOK'
    BY <2>1, <2>2 DEF ReceiveQuery, Accept
  <2>3. ASSUME NEW d \in Devices, NEW o \in Operations, ReceiveChange(w, d, o) PROVE TypeOK'
    <3>1. budget.changes \in Nat
      OBVIOUS
    <3>2. WorkersTypeOK'
      BY <2>1, <2>3, <3>1 DEF ReceiveChange
    <3> QED BY <2>3, <3>1, <3>2 DEF ReceiveChange, Accept
  <2>4. ASSUME ReceiveMalformed(w) PROVE TypeOK'
    BY <2>4, FinishTyped DEF ReceiveMalformed, Outcomes
  <2> QED BY <1>1, <2>2, <2>3, <2>4 DEF Receive
<1>2. ASSUME NEW w \in Workers, Validate(w) PROVE TypeOK'
  <2>1. request[w] \in Request /\ request[w].op \in Operations
    BY <1>0, <1>2 DEF Validate, Request
  <2>2. PICK label \in Busy \ Holding : pc' = [pc EXCEPT ![w] = label]
    BY <1>2, <2>1 DEF Validate, Proceed, Operations, Busy, Calling, Holding, Writing
  <2>3. WorkersTypeOK'
    BY <1>2, <2>1, <2>2 DEF Validate, Proceed, WorkersTypeOK
  <2> QED BY <1>2, <2>3 DEF Validate
<1>3. ASSUME NEW w \in Workers, Refuse(w) PROVE TypeOK'
  BY <1>3, FinishTyped DEF Refuse, Outcomes
<1>4. ASSUME NEW w \in Workers, Normalize(w) PROVE TypeOK'
  <2>1. request[w] \in Request
    BY <1>0, <1>4 DEF Normalize
  <2>2. ASSUME NEW d \in Destinations, request' = [request EXCEPT ![w].wanted = d],
               Proceed(w, "reading")
        PROVE  WorkersTypeOK'
    <3>1. [request[w] EXCEPT !.wanted = d] \in Request
      BY <2>1 DEF Request
    <3> QED BY <2>2, <3>1, StepTyped DEF Proceed, Busy, Calling, Holding, Writing
  <2>3. WorkersTypeOK'
    BY <1>4, <2>2, FinishTyped DEF Normalize, Outcomes
  <2> QED BY <1>4, <2>3 DEF Normalize
<1>5. ASSUME NEW w \in Workers, Look(w) PROVE TypeOK'
  <2>1. CASE Finish(w, "cached")
    BY <1>5, <2>1, FinishTyped DEF Look, Outcomes
  <2>2. CASE Proceed(w, "reading") /\ UNCHANGED request
    BY <1>5, <2>2 DEF Look, Proceed, WorkersTypeOK, Busy, Calling, Holding, Writing
  <2> QED BY <1>5, <2>1, <2>2 DEF Look
<1>6. ASSUME NEW w \in Workers, Invalidate(w) PROVE TypeOK'
  <2>1. request[w] \in Request
    BY <1>0, <1>6 DEF Invalidate
  <2>2. WorkersTypeOK'
    BY <1>6, <2>1 DEF Invalidate, Proceed, WorkersTypeOK, Busy, Calling, Holding, Writing
  <2> QED BY <1>6, <2>1, <2>2, StoreTyped DEF Invalidate
<1>7. ASSUME NEW w \in Workers, Read(w) PROVE TypeOK'
  <2>1. request[w] \in Request
    BY <1>0, <1>7 DEF Read
  <2>2. WorkersTypeOK'
    <3>1. line[LineOfWorker(w)] \in CfaState
      BY <2>1, LineTyped
    <3>2. [request[w] EXCEPT !.current = line[LineOfWorker(w)]] \in Request
      BY <2>1, <3>1 DEF Request
    <3>3. [request[w] EXCEPT !.current = line[LineOfWorker(w)]].current \in CfaState
      BY <2>1, <3>1 DEF Request
    <3> QED BY <1>7, <3>2, <3>3, StepTyped
            DEF Read, GetLine, Proceed, Busy, Holding
  <2> QED BY <1>7, <2>2 DEF Read
<1>8. ASSUME NEW w \in Workers, Fill(w) PROVE TypeOK'
  <2>1. request[w] \in Request /\ request[w].current \in CfaState
    BY <1>0, <1>8 DEF Fill, Holding
  <2> QED BY <1>8, <2>1, FinishTyped, StoreTyped DEF Fill, Outcomes, Fresh
<1>9. ASSUME NEW w \in Workers, DecideUnchanged(w) PROVE TypeOK'
  <2>1. request[w] \in Request /\ request[w].current \in CfaState
    BY <1>0, <1>9 DEF DecideUnchanged, Holding
  <2> QED BY <1>9, <2>1, FinishTyped, StoreTyped DEF DecideUnchanged, Outcomes, Fresh
<1>10. ASSUME NEW w \in Workers, DecideSimulated(w) PROVE TypeOK'
  BY <1>10, FinishTyped DEF DecideSimulated, Outcomes
<1>11. ASSUME NEW w \in Workers, NEW n \in 1..MaxAttempts, SendUpdate(w, n),
              pc[w] \in Holding, pc' = [pc EXCEPT ![w] = "updating"],
              outcome' = outcome, seen' = seen
       PROVE  WorkersTypeOK' /\ wire' \subseteq Update
  <2>1. request[w] \in Request /\ request[w].current \in CfaState
    BY <1>0, <1>11 DEF Holding, Writing
  <2>2. UpdateRequest(w, n) \in Update
    BY <2>1, UpdateTyped
  <2>3. /\ [request[w] EXCEPT !.attempt = n] \in Request
        /\ [request[w] EXCEPT !.attempt = n].current \in CfaState
    <3>1. n \in 0..MaxAttempts
      OBVIOUS
    <3> QED BY <2>1, <3>1 DEF Request
  <2>4. request' = [request EXCEPT ![w] = [request[w] EXCEPT !.attempt = n]]
    BY <1>11 DEF SendUpdate
  <2>5. WorkersTypeOK'
    BY <1>11, <2>3, <2>4, StepTyped DEF Busy, Holding, Writing
  <2> QED BY <1>11, <2>2, <2>5 DEF SendUpdate
<1>12. ASSUME NEW w \in Workers, DecideUpdate(w) PROVE TypeOK'
  <2>1. 1 \in 1..MaxAttempts /\ SendUpdate(w, 1) /\ pc[w] \in Holding
    BY <1>12 DEF DecideUpdate, Holding
  <2>2. /\ pc' = [pc EXCEPT ![w] = "updating"]
        /\ outcome' = outcome /\ seen' = seen
    BY <1>12 DEF DecideUpdate, Proceed
  <2>3. WorkersTypeOK' /\ wire' \subseteq Update
    BY ONLY <1>11, <2>1, <2>2
  <2> QED BY <1>12, <2>3 DEF DecideUpdate, SendUpdate
<1>13. ASSUME NEW w \in Workers, UpdateRetry(w) PROVE TypeOK'
  <2>1. request[w] \in Request /\ request[w].attempt + 1 \in 1..MaxAttempts
    BY <1>0, <1>13 DEF UpdateRetry, Request
  <2>2. pc' = [pc EXCEPT ![w] = "updating"]
    BY <1>13 DEF UpdateRetry, WorkersTypeOK
  <2>3. WorkersTypeOK' /\ wire' \subseteq Update
    BY <1>11, <1>13, <2>1, <2>2 DEF UpdateRetry, Holding, Writing
  <2> QED BY <1>13, <2>1, <2>3, LineTyped DEF UpdateRetry, SendUpdate
<1>14. ASSUME NEW w \in Workers, UpdateFault(w) PROVE TypeOK'
  BY <1>14, FinishTyped DEF UpdateFault, Outcomes
<1>15. ASSUME NEW w \in Workers, UpdateReply(w) PROVE TypeOK'
  <2>1. WorkersTypeOK'
    BY <1>0, <1>15 DEF UpdateReply, Proceed, WorkersTypeOK, Busy, Calling, Holding, Writing
  <2> QED BY <1>15, <2>1 DEF UpdateReply
<1>16. ASSUME NEW w \in Workers, Apply(w) PROVE TypeOK'
  <2>1. WorkersTypeOK'
    BY <1>0, <1>16 DEF Apply, Proceed, WorkersTypeOK, Busy, Calling, Holding, Writing
  <2> QED BY <1>16, <2>1 DEF Apply
<1>17. ASSUME NEW w \in Workers, Confirm(w) PROVE TypeOK'
  <2>1. request[w] \in Request
    BY <1>0, <1>17 DEF Confirm
  <2>2. WorkersTypeOK'
    <3>1. line[LineOfWorker(w)] \in CfaState
      BY <2>1, LineTyped
    <3>2. /\ [request[w] EXCEPT !.current = line[LineOfWorker(w)]] \in Request
          /\ [request[w] EXCEPT !.current = line[LineOfWorker(w)]].current \in CfaState
      BY <2>1, <3>1 DEF Request
    <3> QED BY <1>17, <3>2, StepTyped
            DEF Confirm, GetLine, Proceed, Busy, Holding, Writing
  <2> QED BY <1>17, <2>2 DEF Confirm
<1>18. ASSUME NEW w \in Workers, VerifyConfirmed(w) PROVE TypeOK'
  <2>1. request[w] \in Request /\ request[w].current \in CfaState
    BY <1>0, <1>18 DEF VerifyConfirmed, Holding, Writing
  <2> QED BY <1>18, <2>1, FinishTyped, StoreTyped DEF VerifyConfirmed, Outcomes, Fresh
<1>19. ASSUME NEW w \in Workers, VerifyMismatch(w) PROVE TypeOK'
  <2>1. LineOfWorker(w) \in Lines
    BY <1>0, <1>19, LineTyped DEF VerifyMismatch
  <2> QED BY <1>19, <2>1, FinishTyped DEF VerifyMismatch, Outcomes
<1>20. ASSUME NEW W \in SUBSET Workers PROVE InDoubt(W) \subseteq Lines
  BY <1>0, LineTyped DEF InDoubt, Writing
<1>21. ASSUME NEW w \in Workers, Fail(w) PROVE TypeOK'
  <2>1. WorkersTypeOK'
    BY <1>21, FinishTyped DEF Fail, Outcomes
  <2> QED BY <1>20, <1>21, <2>1 DEF Fail
<1>22. ASSUME NEW m \in wire, CucmUpdate(m) PROVE TypeOK'
  <2>1. WorkersTypeOK'
    BY <1>22 DEF CucmUpdate, LineBecomes, Update, CfaState, WorkersTypeOK
  <2> QED BY <1>22, <2>1 DEF CucmUpdate, LineBecomes, Update, CfaState
<1>23. ASSUME NEW p \in Processes, NEW d \in Devices, Expire(p, d) PROVE TypeOK'
  BY <1>23 DEF Expire, workerVars, WorkersTypeOK
<1>24. ASSUME NEW p \in Processes, Restart(p) PROVE TypeOK'
  <2> DEFINE Killed == {w \in Workers : ProcessOf[w] = p /\ Active(w)}
  <2>1. WorkersTypeOK'
    BY <1>24 DEF Restart, WorkersTypeOK, Outcomes, Busy, Calling, Holding, Writing
  <2>2. doubtful' \subseteq Lines
    BY <1>20, <1>24 DEF Restart
  <2>3. budget' \in [changes : Nat, edits : Nat, restarts : Nat]
    BY <1>24 DEF Restart
  <2> QED BY <1>24, <2>1, <2>2, <2>3 DEF Restart
<1>25. ASSUME NEW l \in Lines, AdminEdit(l) PROVE TypeOK'
  <2>1. WorkersTypeOK'
    BY <1>25 DEF AdminEdit, LineBecomes, WorkersTypeOK
  <2> QED BY <1>25, <2>1 DEF AdminEdit, LineBecomes
<1>26. CASE UNCHANGED vars
  BY <1>26 DEF vars, workerVars, WorkersTypeOK
<1> QED
  BY <1>1, <1>2, <1>3, <1>4, <1>5, <1>6, <1>7, <1>8, <1>9, <1>10, <1>12, <1>13, <1>14, <1>15,
     <1>16, <1>17, <1>18, <1>19, <1>21, <1>22, <1>23, <1>24, <1>25, <1>26
  DEF Next, Handle

(***************************************************************************)
(* The state of the service and of CUCM is well typed: a worker in its     *)
(* handler has a request, one that is past its getLine holds a state, and  *)
(* no call is attempted more than MaxAttempts times.                       *)
(***************************************************************************)
THEOREM TypeCorrect == Spec => []TypeOK
BY TypeInit, TypeStep, PTL DEF Spec

-----------------------------------------------------------------------------
(* Histories.  The inductive invariant says of a worker in its handler that *)
(* seen has the line's present state and only states it really had, and     *)
(* that a state the handler holds was read while the request was handled.   *)

WorkerHistory(w) ==
  Active(w) =>
    /\ line[LineOfWorker(w)] \in seen[w]
    /\ seen[w] \subseteq held[LineOfWorker(w)]
    /\ At(w, "filling") => request[w].op \notin Changing
    /\ pc[w] \in Holding => request[w].current \in seen[w]

HistoryInv ==
  /\ \A l \in Lines : line[l] \in held[l]
  /\ \A w \in Workers : WorkerHistory(w)
  /\ CacheHoldsRealStates

\* A worker's history is untouched by a step of another worker.
LEMMA OtherHistory ==
  ASSUME NEW w \in Workers, WorkerHistory(w), line' = line, held' = held,
         pc'[w] = pc[w], request'[w] = request[w], seen'[w] = seen[w]
  PROVE  WorkerHistory(w)'
BY DEF WorkerHistory, Active, At, LineOfWorker, Holding, Writing

\* Leaving the handler.
LEMMA FinishHistory ==
  ASSUME TypeOK, HistoryInv, NEW w \in Workers, NEW result, Finish(w, result),
         line' = line, held' = held
  PROVE  \A x \in Workers : WorkerHistory(x)'
<1> SUFFICES ASSUME NEW x \in Workers PROVE WorkerHistory(x)'
  OBVIOUS
<1>1. CASE x = w
  BY <1>1 DEF Finish, Goto, WorkerHistory, Active, TypeOK, WorkersTypeOK
<1>2. CASE x # w
  <2>1. pc'[x] = pc[x] /\ request'[x] = request[x] /\ seen'[x] = seen[x]
    BY <1>2 DEF Finish, Goto, TypeOK, WorkersTypeOK
  <2> QED BY <2>1, OtherHistory DEF HistoryInv
<1> QED BY <1>1, <1>2

\* Going on in the handler, possibly with another state held.
LEMMA ProceedHistory ==
  ASSUME TypeOK, HistoryInv, NEW w \in Workers, Active(w),
         NEW label \in Busy, pc' = [pc EXCEPT ![w] = label],
         NEW r \in Request, request' = [request EXCEPT ![w] = r],
         r.device = request[w].device, r.op = request[w].op,
         label = "filling" => r.op \notin Changing,
         label \in Holding => r.current \in seen[w],
         line' = line, held' = held, seen' = seen
  PROVE  \A x \in Workers : WorkerHistory(x)'
<1> SUFFICES ASSUME NEW x \in Workers PROVE WorkerHistory(x)'
  OBVIOUS
<1>1. CASE x = w
  <2>1. pc'[w] = label /\ request'[w] = r /\ LineOfWorker(w)' = LineOfWorker(w)
    BY DEF LineOfWorker, TypeOK, WorkersTypeOK
  <2> QED BY <1>1, <2>1 DEF HistoryInv, WorkerHistory, Active, At, Holding, Writing
<1>2. CASE x # w
  <2>1. pc'[x] = pc[x] /\ request'[x] = request[x] /\ seen'[x] = seen[x]
    BY <1>2 DEF TypeOK, WorkersTypeOK
  <2> QED BY <2>1, OtherHistory DEF HistoryInv
<1> QED BY <1>1, <1>2

\* What the handler holds may be stored: it is a state the line had.
LEMMA StoreHistory ==
  ASSUME TypeOK, HistoryInv, NEW w \in Workers, Active(w), held' = held,
         NEW state \in seen[w] \cup {None}, Store(w, state)
  PROVE  CacheHoldsRealStates'
<1>1. request[w] \in Request /\ request[w].device \in Devices /\ ProcessOf[w] \in Processes
  BY ConstantsAssumption DEF TypeOK, WorkersTypeOK, Active, Request
<1>2. state \in held[LineOf[request[w].device]] \cup {None}
  BY DEF HistoryInv, WorkerHistory, LineOfWorker
<1>3. \A p \in Processes, d \in Devices :
        cache'[p][d] = IF p = ProcessOf[w] /\ d = request[w].device THEN state ELSE cache[p][d]
  BY <1>1 DEF TypeOK, Store
<1> QED BY <1>1, <1>2, <1>3 DEF HistoryInv, CacheHoldsRealStates

\* The line changes: every history that follows it takes the new state in.
LEMMA LineHistory ==
  ASSUME TypeOK, HistoryInv, NEW l \in Lines, NEW state \in CfaState, LineBecomes(l, state),
         pc' = pc, request' = request, cache' = cache
  PROVE  HistoryInv'
<1>1. \A k \in Lines : line'[k] = (IF k = l THEN state ELSE line[k])
                    /\ held'[k] = (IF k = l THEN held[k] \cup {state} ELSE held[k])
  BY DEF LineBecomes, TypeOK
<1>2. \A k \in Lines : line'[k] \in held'[k]
  BY <1>1 DEF HistoryInv
<1>3. ASSUME NEW w \in Workers PROVE WorkerHistory(w)'
  <2> SUFFICES ASSUME Active(w) PROVE WorkerHistory(w)'
    BY DEF WorkerHistory, Active
  <2>1. LineOfWorker(w) \in Lines /\ LineOfWorker(w)' = LineOfWorker(w)
    BY LineTyped DEF TypeOK, WorkersTypeOK, Active, LineOfWorker
  <2>2. seen'[w] = IF LineOfWorker(w) = l THEN seen[w] \cup {state} ELSE seen[w]
    BY DEF LineBecomes
  <2> QED BY <1>1, <2>1, <2>2 DEF HistoryInv, WorkerHistory, Active, At, Holding, Writing
<1>4. CacheHoldsRealStates'
  BY <1>1, ConstantsAssumption DEF HistoryInv, CacheHoldsRealStates
<1> QED BY <1>2, <1>3, <1>4 DEF HistoryInv

LEMMA HistoryStep == TypeOK /\ HistoryInv /\ [Next]_vars => HistoryInv'
<1> SUFFICES ASSUME TypeOK, HistoryInv, [Next]_vars PROVE HistoryInv'
  OBVIOUS
<1> USE ConstantsAssumption DEF At, Goto, cucmVars
<1>0. \A w \in Workers : Active(w) =>
        /\ request[w] \in Request
        /\ LineOfWorker(w) \in Lines
        /\ pc[w] \in Holding => request[w].current \in seen[w]
  <2>1. ASSUME NEW w \in Workers, Active(w)
        PROVE  /\ request[w] \in Request
               /\ pc[w] \in Holding => request[w].current \in seen[w]
    BY <2>1 DEF TypeOK, WorkersTypeOK, HistoryInv, WorkerHistory, Active
  <2> QED BY <2>1, LineTyped
<1>1. ASSUME line' = line, held' = held PROVE \A l \in Lines : line'[l] \in held'[l]
  BY <1>1 DEF HistoryInv
<1>2. ASSUME cache' = cache, held' = held PROVE CacheHoldsRealStates'
  BY <1>2 DEF HistoryInv, CacheHoldsRealStates
<1>3. ASSUME NEW w \in Workers, NEW result, Finish(w, result),
             line' = line, held' = held, cache' = cache
      PROVE  HistoryInv'
  BY <1>1, <1>2, <1>3, FinishHistory DEF HistoryInv
<1>4. ASSUME NEW w \in Workers, NEW result, Finish(w, result), pc[w] \in Holding,
             Store(w, request[w].current), line' = line, held' = held
      PROVE  HistoryInv'
  <2>1. request[w].current \in seen[w] /\ Active(w)
    BY <1>0, <1>4 DEF Active, Holding, Writing
  <2>2. CacheHoldsRealStates'
    BY <1>4, <2>1, StoreHistory
  <2> QED BY <1>1, <1>4, <2>2, FinishHistory DEF HistoryInv
<1>5. ASSUME NEW w \in Workers, Active(w), NEW label \in Busy, Proceed(w, label),
             NEW r \in Request, request' = [request EXCEPT ![w] = r],
             r.device = request[w].device, r.op = request[w].op,
             label = "filling" => r.op \notin Changing,
             label \in Holding => r.current \in seen[w],
             line' = line, held' = held, CacheHoldsRealStates'
      PROVE  HistoryInv'
  BY <1>1, <1>5, ProceedHistory DEF HistoryInv, Proceed
\* Going on with the request as it is.
<1>6. ASSUME NEW w \in Workers, Active(w), NEW label \in Busy \ {"filling"}, Proceed(w, label),
             request' = request, label \in Holding => pc[w] \in Holding,
             line' = line, held' = held, CacheHoldsRealStates'
      PROVE  HistoryInv'
  <2>1. request[w] \in Request /\ request' = [request EXCEPT ![w] = request[w]]
    BY <1>0, <1>6 DEF TypeOK, WorkersTypeOK
  <2>2. label \in Holding => request[w].current \in seen[w]
    BY <1>0, <1>6
  <2> QED BY <1>5, <1>6, <2>1, <2>2
\* A getLine: the state read is the line's present one.
<1>7. ASSUME NEW w \in Workers, Active(w), NEW label \in Busy, Proceed(w, label), GetLine(w),
             label = "filling" => request[w].op \notin Changing,
             line' = line, held' = held, cache' = cache
      PROVE  HistoryInv'
  <2> DEFINE r == [request[w] EXCEPT !.current = line[LineOfWorker(w)]]
  <2>1. request[w] \in Request /\ line[LineOfWorker(w)] \in CfaState
    BY <1>0, <1>7 DEF TypeOK
  <2>2. /\ r \in Request /\ r.device = request[w].device /\ r.op = request[w].op
        /\ r.current = line[LineOfWorker(w)]
    BY <2>1 DEF Request
  <2>3. line[LineOfWorker(w)] \in seen[w]
    BY <1>7 DEF HistoryInv, WorkerHistory
  <2>4. request' = [request EXCEPT ![w] = r]
    BY <1>7 DEF GetLine
  <2> HIDE DEF r
  <2> QED BY <1>2, <1>5, <1>7, <2>2, <2>3, <2>4
\* An attempt of updateLine.
<1>8. ASSUME NEW w \in Workers, pc[w] \in Holding, Proceed(w, "updating"),
             NEW n \in 1..MaxAttempts, SendUpdate(w, n), held' = held, cache' = cache
      PROVE  HistoryInv'
  <2> DEFINE r == [request[w] EXCEPT !.attempt = n]
  <2>1. Active(w) /\ request[w] \in Request /\ request[w].current \in seen[w]
    BY <1>0, <1>8 DEF Active, Holding, Writing
  <2>2. n \in 0..MaxAttempts
    OBVIOUS
  <2>3. /\ r \in Request /\ r.device = request[w].device /\ r.op = request[w].op
        /\ r.current = request[w].current
    BY <2>1, <2>2 DEF Request
  <2>4. request' = [request EXCEPT ![w] = r] /\ line' = line
    BY <1>8 DEF SendUpdate
  <2>5. "updating" \in Busy
    BY DEF Busy, Calling
  <2> HIDE DEF r
  <2> QED BY <1>2, <1>5, <1>8, <2>1, <2>3, <2>4, <2>5
<1>9. ASSUME NEW w \in Workers, Receive(w) PROVE HistoryInv'
  <2>1. ASSUME NEW d \in Devices, NEW o \in Operations, NEW id, Accept(w, d, o, id)
        PROVE  HistoryInv'
    <3>1. /\ line' = line /\ held' = held /\ cache' = cache
          /\ pc'[w] = "validating" /\ request'[w].device = d /\ seen'[w] = {line[LineOf[d]]}
      BY <2>1 DEF Accept, TypeOK, WorkersTypeOK
    <3>2. WorkerHistory(w)'
      BY <3>1 DEF WorkerHistory, HistoryInv, Active, LineOfWorker, Holding, Writing
    <3>3. ASSUME NEW x \in Workers, x # w PROVE WorkerHistory(x)'
      <4>1. pc'[x] = pc[x] /\ request'[x] = request[x] /\ seen'[x] = seen[x]
        BY <2>1, <3>3 DEF Accept, TypeOK, WorkersTypeOK
      <4> QED BY <3>1, <4>1, OtherHistory DEF HistoryInv
    <3> QED BY <1>1, <1>2, <3>1, <3>2, <3>3 DEF HistoryInv
  <2>2. CASE ReceiveMalformed(w)
    BY <1>3, <2>2 DEF ReceiveMalformed
  <2> QED BY <1>9, <2>1, <2>2 DEF Receive, ReceiveQuery, ReceiveChange
<1>10. ASSUME NEW w \in Workers, Validate(w) PROVE HistoryInv'
  <2>1. request[w].op \in Operations /\ Active(w)
    BY <1>0, <1>10 DEF Validate, Active, Request
  <2>2. PICK label \in Busy \ Holding : Proceed(w, label)
    BY <1>10, <2>1 DEF Validate, Operations, Busy, Calling, Holding, Writing
  <2> QED BY <1>2, <1>6, <1>10, <2>1, <2>2 DEF Validate, Holding
<1>11. ASSUME NEW w \in Workers, Refuse(w) PROVE HistoryInv'
  BY <1>3, <1>11 DEF Refuse
<1>12. ASSUME NEW w \in Workers, Normalize(w) PROVE HistoryInv'
  <2>1. ASSUME NEW d \in Destinations, request' = [request EXCEPT ![w].wanted = d],
               Proceed(w, "reading")
        PROVE  HistoryInv'
    <3> DEFINE r == [request[w] EXCEPT !.wanted = d]
    <3>1. Active(w) /\ request[w] \in Request
      BY <1>0, <1>12 DEF Active, Normalize
    <3>2. r \in Request /\ r.device = request[w].device /\ r.op = request[w].op
      BY <3>1 DEF Request
    <3>3. "reading" \in Busy \ Holding
      BY DEF Busy, Calling, Holding, Writing
    <3>4. line' = line /\ held' = held /\ cache' = cache
      BY <1>12 DEF Normalize
    <3> HIDE DEF r
    <3>5. request' = [request EXCEPT ![w] = r]
      BY <2>1 DEF r
    <3> QED BY <1>2, <1>5, <2>1, <3>1, <3>2, <3>3, <3>4, <3>5
  <2> QED BY <1>3, <1>12, <2>1 DEF Normalize
<1>13. ASSUME NEW w \in Workers, Look(w) PROVE HistoryInv'
  <2>1. Active(w) /\ "reading" \in Busy \ (Holding \cup {"filling"})
    BY <1>13 DEF Look, Active, Busy, Calling, Holding, Writing
  <2> QED BY <1>2, <1>3, <1>6, <1>13, <2>1 DEF Look
<1>14. ASSUME NEW w \in Workers, Invalidate(w) PROVE HistoryInv'
  <2>1. Active(w) /\ "reading" \in Busy \ (Holding \cup {"filling"})
    BY <1>14 DEF Invalidate, Active, Busy, Calling, Holding, Writing
  <2>2. CacheHoldsRealStates'
    BY <1>14, <2>1, StoreHistory DEF Invalidate
  <2> QED BY <1>6, <1>14, <2>1, <2>2 DEF Invalidate
<1>15. ASSUME NEW w \in Workers, Read(w) PROVE HistoryInv'
  <2>1. Active(w) /\ "deciding" \in Busy /\ "filling" \in Busy
    BY <1>15 DEF Read, Active, Busy, Holding
  <2> QED BY <1>7, <1>15, <2>1 DEF Read
<1>16. ASSUME NEW w \in Workers, Fill(w) PROVE HistoryInv'
  BY <1>4, <1>16 DEF Fill, Holding
<1>17. ASSUME NEW w \in Workers, DecideUnchanged(w) PROVE HistoryInv'
  BY <1>4, <1>17 DEF DecideUnchanged, Holding
<1>18. ASSUME NEW w \in Workers, DecideSimulated(w) PROVE HistoryInv'
  BY <1>3, <1>18 DEF DecideSimulated
<1>19. ASSUME NEW w \in Workers, DecideUpdate(w) PROVE HistoryInv'
  <2>1. 1 \in 1..MaxAttempts /\ pc[w] \in Holding
    BY <1>19 DEF DecideUpdate, Holding
  <2> QED BY <1>8, <1>19, <2>1 DEF DecideUpdate
<1>20. ASSUME NEW w \in Workers, UpdateReply(w) PROVE HistoryInv'
  <2>1. Active(w) /\ pc[w] \in Holding /\ {"applying", "confirming"} \subseteq Busy \ {"filling"}
    BY <1>20 DEF UpdateReply, Active, Busy, Calling, Holding, Writing
  <2> QED BY <1>2, <1>6, <1>20, <2>1 DEF UpdateReply
<1>21. ASSUME NEW w \in Workers, UpdateRetry(w) PROVE HistoryInv'
  <2>1. pc[w] \in Holding /\ request[w].attempt + 1 \in 1..MaxAttempts
    <3>1. Active(w) /\ pc[w] \in Holding
      BY <1>21 DEF UpdateRetry, Active, Holding, Writing
    <3> QED BY <1>0, <1>21, <3>1 DEF UpdateRetry, Request
  <2>2. Proceed(w, "updating")
    BY <1>21 DEF UpdateRetry, Proceed, TypeOK, WorkersTypeOK
  <2> QED BY <1>8, <1>21, <2>1, <2>2 DEF UpdateRetry
<1>22. ASSUME NEW w \in Workers, UpdateFault(w) PROVE HistoryInv'
  BY <1>3, <1>22 DEF UpdateFault
<1>23. ASSUME NEW w \in Workers, Apply(w) PROVE HistoryInv'
  <2>1. Active(w) /\ pc[w] \in Holding /\ "confirming" \in Busy \ {"filling"}
    BY <1>23 DEF Apply, Active, Busy, Calling, Holding, Writing
  <2> QED BY <1>2, <1>6, <1>23, <2>1 DEF Apply
<1>24. ASSUME NEW w \in Workers, Confirm(w) PROVE HistoryInv'
  <2>1. Active(w) /\ "verifying" \in Busy
    BY <1>24 DEF Confirm, Active, Busy, Holding, Writing
  <2> QED BY <1>7, <1>24, <2>1 DEF Confirm
<1>25. ASSUME NEW w \in Workers, VerifyConfirmed(w) PROVE HistoryInv'
  BY <1>4, <1>25 DEF VerifyConfirmed, Holding, Writing
<1>26. ASSUME NEW w \in Workers, VerifyMismatch(w) PROVE HistoryInv'
  BY <1>3, <1>26 DEF VerifyMismatch
<1>27. ASSUME NEW w \in Workers, Fail(w) PROVE HistoryInv'
  BY <1>3, <1>27 DEF Fail
<1>28. ASSUME NEW m \in wire, CucmUpdate(m) PROVE HistoryInv'
  <2>1. m.line \in Lines
        /\ [destination |-> m.destination, searchSpace |-> m.searchSpace] \in CfaState
    BY DEF TypeOK, Update, CfaState
  <2> QED BY <1>28, <2>1, LineHistory DEF CucmUpdate
<1>29. ASSUME NEW p \in Processes, NEW d \in Devices, Expire(p, d) PROVE HistoryInv'
  <2>1. CacheHoldsRealStates'
    BY <1>29 DEF Expire, HistoryInv, CacheHoldsRealStates, TypeOK
  <2>2. \A w \in Workers : WorkerHistory(w)'
    BY <1>29, OtherHistory DEF Expire, workerVars, HistoryInv
  <2> QED BY <1>1, <1>29, <2>1, <2>2 DEF Expire, HistoryInv
<1>30. ASSUME NEW p \in Processes, Restart(p) PROVE HistoryInv'
  <2>1. CacheHoldsRealStates'
    BY <1>30 DEF Restart, HistoryInv, CacheHoldsRealStates, TypeOK
  <2>2. ASSUME NEW w \in Workers PROVE WorkerHistory(w)'
    <3>1. CASE ProcessOf[w] = p /\ Active(w)
      BY <1>30, <3>1 DEF Restart, WorkerHistory, Active
    <3>2. CASE ~(ProcessOf[w] = p /\ Active(w))
      <4>1. pc'[w] = pc[w] /\ request'[w] = request[w] /\ seen'[w] = seen[w]
        BY <1>30, <3>2 DEF Restart
      <4> QED BY <1>30, <4>1, OtherHistory DEF Restart, HistoryInv
    <3> QED BY <3>1, <3>2
  <2> QED BY <1>1, <1>30, <2>1, <2>2 DEF Restart, HistoryInv
<1>31. ASSUME NEW l \in Lines, AdminEdit(l) PROVE HistoryInv'
  BY <1>31, LineHistory DEF AdminEdit
<1>32. CASE UNCHANGED vars
  <2>1. \A w \in Workers : WorkerHistory(w)'
    BY <1>32, OtherHistory DEF vars, workerVars, HistoryInv
  <2> QED BY <1>1, <1>2, <1>32, <2>1 DEF vars, HistoryInv
<1> QED
  BY <1>9, <1>10, <1>11, <1>12, <1>13, <1>14, <1>15, <1>16, <1>17, <1>18, <1>19, <1>20, <1>21,
     <1>22, <1>23, <1>24, <1>25, <1>26, <1>27, <1>28, <1>29, <1>30, <1>31, <1>32
  DEF Next, Handle

LEMMA HistoryInit == Init => HistoryInv
BY ConstantsAssumption
DEF Init, HistoryInv, WorkerHistory, CacheHoldsRealStates, Active

LEMMA HistoryCorrect == Spec => [](TypeOK /\ HistoryInv)
BY TypeInit, TypeStep, HistoryInit, HistoryStep, PTL DEF Spec

(***************************************************************************)
(* Every cache entry is a state the handset's line has really had: no path *)
(* of the handlers, dry run included, stores anything but what a getLine   *)
(* of that line answered (services.py:167, 258, 308, 399, 445).            *)
(***************************************************************************)
THEOREM CacheReal == Spec => []CacheHoldsRealStates
BY HistoryCorrect, PTL DEF HistoryInv

(***************************************************************************)
(* The answers of refresh, enable and disable, and of a status that missed *)
(* the cache, are linearizable (services.py:166, 247, 307, 386, 441-446),  *)
(* whatever the number of workers and processes, and whatever fails.       *)
(***************************************************************************)
THEOREM AnswersFresh == Spec => AnswersAreFresh
<1> DEFINE Step == \A w \in Workers : Active(w) /\ pc'[w] = "idle" /\ outcome'[w] \in Fresh =>
                     /\ request[w].current \in seen[w]
                     /\ request[w].op \in Changing => AsWanted(w)
<1>1. TypeOK /\ HistoryInv /\ [Next]_vars => [Step]_vars
  <2> SUFFICES ASSUME TypeOK, HistoryInv, Next,
                      NEW w \in Workers, Active(w), pc'[w] = "idle", outcome'[w] \in Fresh
               PROVE  /\ request[w].current \in seen[w]
                      /\ request[w].op \in Changing => AsWanted(w)
    OBVIOUS
  <2>1. WorkerHistory(w)
    BY DEF HistoryInv
  \* Only these three steps end a request with a fresh answer.
  <2>2. ASSUME NEW x \in Workers, NEW result, Finish(x, result), result \notin Fresh PROVE FALSE
    BY <2>2 DEF Finish, Goto, TypeOK, WorkersTypeOK, Active
  <2>3. ASSUME NEW x \in Workers, NEW label \in Busy, Goto(x, label) PROVE FALSE
    BY <2>3 DEF Goto, TypeOK, WorkersTypeOK, Active, Busy, Calling, Holding, Writing
  <2>4. ASSUME pc' = pc PROVE FALSE
    BY <2>4 DEF Active
  <2>5. ASSUME NEW x \in Workers, NEW result, Finish(x, result) PROVE x = w
    BY <2>5 DEF Finish, Goto, TypeOK, WorkersTypeOK, Active
  <2>6. CASE Fill(w)
    BY <2>1, <2>6 DEF Fill, WorkerHistory, Active, At, Holding
  <2>7. CASE DecideUnchanged(w)
    BY <2>1, <2>7 DEF DecideUnchanged, WorkerHistory, Active, At, Holding
  <2>8. CASE VerifyConfirmed(w)
    BY <2>1, <2>8 DEF VerifyConfirmed, WorkerHistory, Active, At, Holding, Writing
  <2> QED
    <3>1. ASSUME NEW x \in Workers, Receive(x) PROVE FALSE
      <4>1. CASE ReceiveMalformed(x)
        BY <2>2, <4>1 DEF ReceiveMalformed, Fresh
      <4>2. ASSUME NEW d \in Devices, NEW o \in Operations, NEW id, Accept(x, d, o, id) PROVE FALSE
        BY <2>3, <4>2 DEF Accept, Busy, Calling
      <4> QED BY <3>1, <4>1, <4>2 DEF Receive, ReceiveQuery, ReceiveChange
    <3>2. ASSUME NEW x \in Workers, Validate(x) PROVE FALSE
      <4>1. request[x].op \in Operations
        BY <3>2 DEF Validate, At, TypeOK, WorkersTypeOK, Request
      <4>2. \E label \in Busy : Goto(x, label)
        BY <3>2, <4>1 DEF Validate, Proceed, Operations, Busy, Calling
      <4> QED BY <2>3, <4>2
    <3>3. ASSUME NEW x \in Workers, \/ Refuse(x) \/ Normalize(x) \/ Look(x) \/ Invalidate(x)
          PROVE  FALSE
      BY <2>2, <2>3, <3>3 DEF Refuse, Normalize, Look, Invalidate, Proceed, Busy, Calling, Fresh
    <3>4. ASSUME NEW x \in Workers, \/ Read(x) \/ Apply(x) \/ Confirm(x) \/ UpdateReply(x)
                                    \/ DecideUpdate(x)
          PROVE  FALSE
      BY <2>3, <3>4
      DEF Read, Apply, Confirm, UpdateReply, DecideUpdate, Proceed, Busy, Calling, Holding, Writing
    <3>5. ASSUME NEW x \in Workers, \/ DecideSimulated(x) \/ UpdateFault(x) \/ VerifyMismatch(x)
                                    \/ Fail(x)
          PROVE  FALSE
      BY <2>2, <3>5 DEF DecideSimulated, UpdateFault, VerifyMismatch, Fail, Fresh
    <3>6. ASSUME NEW x \in Workers, UpdateRetry(x) PROVE FALSE
      BY <2>4, <3>6 DEF UpdateRetry
    <3>7. ASSUME NEW p \in Processes, Restart(p) PROVE FALSE
      BY <3>7 DEF Restart, Fresh, Active
    <3>8. ASSUME \/ \E m \in wire : CucmUpdate(m)
                 \/ \E p \in Processes, d \in Devices : Expire(p, d)
                 \/ \E l \in Lines : AdminEdit(l)
          PROVE  FALSE
      BY <2>4, <3>8 DEF CucmUpdate, Expire, AdminEdit, workerVars
    <3>9. ASSUME NEW x \in Workers, \/ Fill(x) \/ DecideUnchanged(x) \/ VerifyConfirmed(x)
          PROVE  x = w
      BY <2>5, <3>9 DEF Fill, DecideUnchanged, VerifyConfirmed
    <3> QED BY <2>6, <2>7, <2>8, <3>1, <3>2, <3>3, <3>4, <3>5, <3>6, <3>7, <3>8, <3>9
            DEF Next, Handle
<1> QED BY <1>1, HistoryCorrect, PTL DEF Spec, AnswersAreFresh

-----------------------------------------------------------------------------
(* Dry run *)

LEMMA DryRunStep == TypeOK /\ DryRunInert /\ [Next]_vars => DryRunInert'
<1> SUFFICES ASSUME TypeOK, DryRunInert, [Next]_vars, DryRun PROVE DryRunInert'
  BY DEF DryRunInert
<1> USE DEF DryRunInert, Writing, At, Goto, cucmVars
\* A step that sends nothing and does not go on to an update.
<1>1. ASSUME wire' = wire, NEW w \in Workers, NEW label, label \notin Writing, pc' = [pc EXCEPT ![w] = label]
      PROVE  DryRunInert'
  BY <1>1 DEF TypeOK, WorkersTypeOK
<1>2. ASSUME NEW w \in Workers, Receive(w) PROVE DryRunInert'
  BY <1>1, <1>2 DEF Receive, ReceiveQuery, ReceiveChange, ReceiveMalformed, Accept, Finish
<1>3. ASSUME NEW w \in Workers, Validate(w) PROVE DryRunInert'
  <2>1. request[w].op \in Operations
    BY <1>3 DEF Validate, TypeOK, WorkersTypeOK, Request
  <2>2. PICK label \in {"looking", "invalidating", "normalizing", "reading"} : Proceed(w, label)
    BY <1>3, <2>1 DEF Validate, Operations
  <2> QED BY <1>1, <1>3, <2>2 DEF Validate, Proceed
<1>4. ASSUME NEW w \in Workers, Refuse(w) \/ Normalize(w) \/ Look(w) \/ DecideSimulated(w) \/ Fail(w)
      PROVE  DryRunInert'
  BY <1>1, <1>4 DEF Refuse, Normalize, Look, DecideSimulated, Fail, Finish, Proceed
<1>5. ASSUME NEW w \in Workers, Invalidate(w) \/ Read(w) \/ Fill(w) \/ DecideUnchanged(w)
      PROVE  DryRunInert'
  BY <1>1, <1>5 DEF Invalidate, Read, Fill, DecideUnchanged, Finish, Proceed
<1>6. ASSUME NEW w \in Workers,
             \/ DecideUpdate(w) \/ UpdateReply(w) \/ UpdateRetry(w) \/ UpdateFault(w)
             \/ Apply(w) \/ Confirm(w) \/ VerifyConfirmed(w) \/ VerifyMismatch(w)
      PROVE  FALSE
  BY <1>6 DEF DecideUpdate, UpdateReply, UpdateRetry, UpdateFault, Apply, Confirm,
              VerifyConfirmed, VerifyMismatch
<1>7. ASSUME NEW p \in Processes, Restart(p) PROVE DryRunInert'
  BY <1>7 DEF Restart, TypeOK, WorkersTypeOK
<1>8. ASSUME \/ \E m \in wire : CucmUpdate(m)
             \/ \E p \in Processes, d \in Devices : Expire(p, d)
             \/ \E l \in Lines : AdminEdit(l)
             \/ UNCHANGED vars
      PROVE  DryRunInert'
  BY <1>8 DEF CucmUpdate, Expire, AdminEdit, workerVars, vars
<1> QED BY <1>2, <1>3, <1>4, <1>5, <1>6, <1>7, <1>8 DEF Next, Handle

(***************************************************************************)
(* With DRY_RUN no handler gets past its decision and nothing is sent to   *)
(* CUCM, however many workers, failures and restarts there are             *)
(* (services.py:192, 332).                                                 *)
(***************************************************************************)
THEOREM DryRunSendsNothing == Spec => []DryRunInert
<1>1. Init => DryRunInert
  BY DEF Init, DryRunInert, Writing
<1> QED BY <1>1, TypeInit, TypeStep, DryRunStep, PTL DEF Spec

-----------------------------------------------------------------------------
(* Search spaces.  While the administrator leaves the lines alone, every    *)
(* request in flight and every handler that has read its line has the       *)
(* line's present search spaces.                                            *)

SearchSpaceInv ==
  /\ budget.edits = 0
  /\ \A m \in wire : m.searchSpace = line[m.line].searchSpace
  /\ \A w \in Workers : pc[w] \in Holding =>
       request[w].current.searchSpace = line[LineOfWorker(w)].searchSpace

LEMMA SearchSpaceStep ==
  TypeOK /\ SearchSpaceInv /\ [Next]_vars
    => SearchSpaceInv' /\ \A l \in Lines : line'[l].searchSpace = line[l].searchSpace
<1> SUFFICES ASSUME TypeOK, SearchSpaceInv, [Next]_vars
             PROVE  SearchSpaceInv' /\ \A l \in Lines : line'[l].searchSpace = line[l].searchSpace
  OBVIOUS
<1> USE ConstantsAssumption DEF At, Goto, cucmVars
<1> DEFINE Same == \A l \in Lines : line'[l].searchSpace = line[l].searchSpace
<1>0. ASSUME NEW w \in Workers, pc[w] # "idle"
      PROVE  /\ request[w] \in Request /\ LineOfWorker(w) \in Lines
             /\ pc[w] \in Holding => request[w].current \in CfaState
  <2>1. request[w] \in Request /\ (pc[w] \in Holding => request[w].current \in CfaState)
    BY <1>0 DEF TypeOK, WorkersTypeOK
  <2> QED BY <2>1, LineTyped
\* A step of one worker that does not send anything.
<1>1. ASSUME NEW w \in Workers, line' = line, wire' \subseteq wire, budget'.edits = 0,
             \A x \in Workers \ {w} : pc'[x] = pc[x] /\ request'[x] = request[x],
             pc'[w] \in Holding => request'[w].current.searchSpace
                                     = line[LineOf[request'[w].device]].searchSpace
      PROVE  SearchSpaceInv' /\ Same
  BY <1>1 DEF SearchSpaceInv, LineOfWorker
<1>2. ASSUME NEW w \in Workers, NEW result, Finish(w, result),
             line' = line, wire' \subseteq wire, budget' = budget
      PROVE  SearchSpaceInv' /\ Same
  <2>1. /\ pc'[w] = "idle" /\ "idle" \notin Holding
        /\ \A x \in Workers \ {w} : pc'[x] = pc[x] /\ request'[x] = request[x]
    BY <1>2 DEF Finish, TypeOK, WorkersTypeOK, Holding, Writing
  <2> QED BY <1>1, <1>2, <2>1 DEF SearchSpaceInv
<1>3. ASSUME NEW w \in Workers, NEW label, Goto(w, label), request' = request,
             label \in Holding => pc[w] \in Holding,
             line' = line, wire' = wire, budget' = budget
      PROVE  SearchSpaceInv' /\ Same
  <2>1. pc'[w] = label /\ \A x \in Workers \ {w} : pc'[x] = pc[x]
    BY <1>3 DEF TypeOK, WorkersTypeOK
  <2> QED BY <1>1, <1>3, <2>1 DEF SearchSpaceInv, LineOfWorker
<1>4. ASSUME NEW w \in Workers, pc[w] # "idle", NEW label, Goto(w, label), GetLine(w),
             line' = line, wire' = wire, budget' = budget
      PROVE  SearchSpaceInv' /\ Same
  <2>1. /\ request[w] \in Request /\ request'[w] = [request[w] EXCEPT !.current = line[LineOfWorker(w)]]
        /\ \A x \in Workers \ {w} : pc'[x] = pc[x] /\ request'[x] = request[x]
    BY <1>0, <1>4 DEF GetLine, TypeOK, WorkersTypeOK
  <2>2. request'[w].current = line[LineOfWorker(w)] /\ request'[w].device = request[w].device
    BY <2>1 DEF Request
  <2> QED BY <1>1, <1>4, <2>1, <2>2 DEF SearchSpaceInv, LineOfWorker
<1>5. ASSUME NEW w \in Workers, pc[w] \in Holding, NEW n \in Nat, SendUpdate(w, n),
             \A x \in Workers \ {w} : pc'[x] = pc[x], budget' = budget
      PROVE  SearchSpaceInv' /\ Same
  <2>1. request[w] \in Request /\ LineOfWorker(w) \in Lines
    BY <1>0, <1>5 DEF Holding, Writing
  <2>2. /\ line' = line /\ wire' = wire \cup {UpdateRequest(w, n)}
        /\ request'[w] = [request[w] EXCEPT !.attempt = n]
        /\ \A x \in Workers \ {w} : request'[x] = request[x]
    BY <1>5 DEF SendUpdate, TypeOK, WorkersTypeOK
  <2>3. request'[w].current = request[w].current /\ request'[w].device = request[w].device
    BY <2>1, <2>2 DEF Request
  <2>4. UpdateRequest(w, n).searchSpace = line[UpdateRequest(w, n).line].searchSpace
    BY <1>5 DEF UpdateRequest, SearchSpaceInv
  <2>5. \A m \in wire' : m.searchSpace = line'[m.line].searchSpace
    BY <2>2, <2>4 DEF SearchSpaceInv
  <2>6. ASSUME NEW x \in Workers, pc'[x] \in Holding
        PROVE  request'[x].current.searchSpace = line'[LineOf[request'[x].device]].searchSpace
    <3>1. CASE x = w
      BY <1>5, <2>2, <2>3, <3>1 DEF SearchSpaceInv, LineOfWorker
    <3>2. CASE x # w
      BY <1>5, <2>2, <2>6, <3>2 DEF SearchSpaceInv, LineOfWorker
    <3> QED BY <3>1, <3>2
  <2> QED BY <1>5, <2>2, <2>5, <2>6 DEF SearchSpaceInv, LineOfWorker
<1>6. ASSUME NEW w \in Workers, Receive(w) PROVE SearchSpaceInv' /\ Same
  <2>1. ASSUME NEW d \in Devices, NEW o \in Operations, NEW id, Accept(w, d, o, id),
               budget'.edits = budget.edits
        PROVE  SearchSpaceInv' /\ Same
    <3>1. /\ pc'[w] = "validating" /\ "validating" \notin Holding
          /\ \A x \in Workers \ {w} : pc'[x] = pc[x] /\ request'[x] = request[x]
      BY <2>1 DEF Accept, TypeOK, WorkersTypeOK, Holding, Writing
    <3> QED BY <1>1, <2>1, <3>1 DEF Accept, SearchSpaceInv
  <2>2. CASE ReceiveMalformed(w)
    BY <1>2, <2>2 DEF ReceiveMalformed
  <2>3. ASSUME NEW d \in Devices, NEW o \in Operations, ReceiveChange(w, d, o)
        PROVE  budget'.edits = budget.edits
    BY <2>3 DEF ReceiveChange, TypeOK
  <2> QED BY <1>6, <2>1, <2>2, <2>3 DEF Receive, ReceiveQuery, ReceiveChange
<1>7. ASSUME NEW w \in Workers, Validate(w) PROVE SearchSpaceInv' /\ Same
  <2>1. request[w].op \in Operations
    BY <1>0, <1>7 DEF Validate, Request
  <2>2. PICK label \in {"looking", "invalidating", "normalizing", "reading"} : Goto(w, label)
    BY <1>7, <2>1 DEF Validate, Proceed, Operations
  <2>3. label \notin Holding
    BY DEF Holding, Writing
  <2> QED BY <1>3, <1>7, <2>2, <2>3 DEF Validate
<1>8. ASSUME NEW w \in Workers,
             \/ Refuse(w) \/ Fill(w) \/ DecideUnchanged(w) \/ DecideSimulated(w)
             \/ UpdateFault(w) \/ VerifyConfirmed(w) \/ VerifyMismatch(w) \/ Fail(w)
      PROVE  SearchSpaceInv' /\ Same
  BY <1>2, <1>8 DEF Refuse, Fill, DecideUnchanged, DecideSimulated, UpdateFault,
                    VerifyConfirmed, VerifyMismatch, Fail
<1>9. ASSUME NEW w \in Workers, Normalize(w) PROVE SearchSpaceInv' /\ Same
  <2>1. ASSUME Proceed(w, "reading"), NEW d, request' = [request EXCEPT ![w].wanted = d]
        PROVE  SearchSpaceInv' /\ Same
    <3>1. /\ pc'[w] = "reading" /\ "reading" \notin Holding
          /\ \A x \in Workers \ {w} : pc'[x] = pc[x] /\ request'[x] = request[x]
      BY <2>1 DEF Proceed, TypeOK, WorkersTypeOK, Holding, Writing
    <3> QED BY <1>1, <1>9, <3>1 DEF Normalize, SearchSpaceInv
  <2> QED BY <1>2, <1>9, <2>1 DEF Normalize
<1>10. ASSUME NEW w \in Workers, Look(w) \/ Invalidate(w) PROVE SearchSpaceInv' /\ Same
  BY <1>2, <1>3, <1>10 DEF Look, Invalidate, Proceed, Holding, Writing
<1>11. ASSUME NEW w \in Workers, Read(w) \/ Confirm(w) PROVE SearchSpaceInv' /\ Same
  BY <1>4, <1>11 DEF Read, Confirm, Proceed
<1>12. ASSUME NEW w \in Workers, UpdateReply(w) \/ Apply(w) PROVE SearchSpaceInv' /\ Same
  BY <1>3, <1>12 DEF UpdateReply, Apply, Proceed, Holding, Writing
<1>13. ASSUME NEW w \in Workers, DecideUpdate(w) PROVE SearchSpaceInv' /\ Same
  <2>1. pc[w] \in Holding /\ \A x \in Workers \ {w} : pc'[x] = pc[x]
    BY <1>13 DEF DecideUpdate, Proceed, Holding, TypeOK, WorkersTypeOK
  <2> QED BY <1>5, <1>13, <2>1 DEF DecideUpdate
<1>14. ASSUME NEW w \in Workers, UpdateRetry(w) PROVE SearchSpaceInv' /\ Same
  <2>1. pc[w] \in Holding /\ request[w].attempt + 1 \in Nat
    BY <1>0, <1>14 DEF UpdateRetry, Holding, Writing, Request
  <2> QED BY <1>5, <1>14, <2>1 DEF UpdateRetry
<1>15. ASSUME NEW m \in wire, CucmUpdate(m) PROVE SearchSpaceInv' /\ Same
  <2>1. m \in Update /\ m.line \in Lines
    BY DEF TypeOK, Update
  <2>2. Same
    BY <1>15, <2>1 DEF CucmUpdate, LineBecomes, SearchSpaceInv, TypeOK
  <2>3. \A k \in wire' : k.searchSpace = line'[k.line].searchSpace
    BY <1>15, <2>2 DEF CucmUpdate, SearchSpaceInv, TypeOK, Update
  <2>4. ASSUME NEW x \in Workers, pc'[x] \in Holding
        PROVE  request'[x].current.searchSpace = line'[LineOf[request'[x].device]].searchSpace
    <3>1. pc' = pc /\ request' = request /\ LineOfWorker(x) \in Lines
      BY <1>0, <1>15, <2>4 DEF CucmUpdate, Holding, Writing
    <3> QED BY <2>2, <2>4, <3>1 DEF SearchSpaceInv, LineOfWorker
  <2> QED BY <1>15, <2>2, <2>3, <2>4 DEF CucmUpdate, SearchSpaceInv, LineOfWorker
<1>16. ASSUME NEW p \in Processes, Restart(p) PROVE SearchSpaceInv' /\ Same
  <2>1. ASSUME NEW x \in Workers, pc'[x] \in Holding
        PROVE  pc[x] \in Holding /\ request'[x] = request[x]
    BY <1>16, <2>1 DEF Restart, Holding, Writing
  <2>2. budget'.edits = 0 /\ line' = line /\ wire' = wire
    BY <1>16 DEF Restart, SearchSpaceInv, TypeOK
  <2> QED BY <2>1, <2>2 DEF SearchSpaceInv, LineOfWorker
<1>17. ASSUME NEW l \in Lines, AdminEdit(l) PROVE FALSE
  BY <1>17 DEF AdminEdit, SearchSpaceInv
<1>18. ASSUME (\E p \in Processes, d \in Devices : Expire(p, d)) \/ UNCHANGED vars
       PROVE  SearchSpaceInv' /\ Same
  BY <1>18 DEF Expire, vars, workerVars, SearchSpaceInv, LineOfWorker
<1> QED
  BY <1>6, <1>7, <1>8, <1>9, <1>10, <1>11, <1>12, <1>13, <1>14, <1>15, <1>16, <1>17, <1>18
  DEF Next, Handle

(***************************************************************************)
(* As long as the CUCM administrator leaves the lines alone, no enable,    *)
(* disable, retry or late update changes the calling search spaces of any  *)
(* line (cucm_axl_client.py:215-216).  DivLostEdit shows the assumption is *)
(* needed.                                                                 *)
(***************************************************************************)
THEOREM SearchSpacesPreserved ==
  ASSUME MaxEdits = 0
  PROVE  Spec => OnlyAdminChangesSearchSpaces
<1> DEFINE Step == \A l \in Lines : line'[l].searchSpace # line[l].searchSpace
                                      => budget'.edits < budget.edits
<1>1. Init => SearchSpaceInv
  BY DEF Init, SearchSpaceInv, Holding, Writing
<1>2. TypeOK /\ SearchSpaceInv /\ [Next]_vars => SearchSpaceInv' /\ [Step]_vars
  BY SearchSpaceStep
<1> QED BY <1>1, <1>2, TypeInit, TypeStep, PTL DEF Spec, OnlyAdminChangesSearchSpaces
=============================================================================
