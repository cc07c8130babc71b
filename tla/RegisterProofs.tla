---------------------------- MODULE RegisterProofs ----------------------------
(* The service of Diversion.tla implements the registers of LineRegister.tla, *)
(* for any deployment, any retry limit and any bounds.                        *)
EXTENDS HandsetProofs

\* Nothing has been sent before the decision to update, and only an enable has
\* a number to normalise.
BeforeUpdate(w) ==
  /\ Active(w) /\ pc[w] \notin Writing => request[w].attempt = 0
  /\ At(w, "normalizing") => request[w].op \in Changing

TriesInv == \A w \in Workers : BeforeUpdate(w)

Operation == [w \in Workers |-> OperationOnLine(w)]
Results   == [w \in Workers |-> Result(w)]

\* A step of one worker changes its operation only.
LEMMA OperationStep ==
  ASSUME NEW w \in Workers, \A x \in Workers \ {w} : pc'[x] = pc[x] /\ request'[x] = request[x]
  PROVE  Operation' = [Operation EXCEPT ![w] = OperationOnLine(w)']
BY DEF Operation, OperationOnLine, Active, LineOfWorker

LEMMA ResultStep ==
  ASSUME NEW w \in Workers, \A x \in Workers \ {w} : outcome'[x] = outcome[x]
  PROVE  Results' = [Results EXCEPT ![w] = Result(w)']
BY DEF Results, Result

\* A step that neither ends nor changes an operation is none of the registers'.
LEMMA QuietStep ==
  ASSUME \A w \in Workers : OperationOnLine(w)' = OperationOnLine(w),
         UNCHANGED <<line, wire, seen, outcome>>
  PROVE  UNCHANGED Register!vars
BY DEF Register!vars, Result

\* The handler of w goes on, with the same operation.
LEMMA ProceedStep ==
  ASSUME TypeOK, NEW w \in Workers, Active(w), NEW label, label # "idle", Proceed(w, label),
         UNCHANGED <<line, wire>>, UNCHANGED request \/ GetLine(w)
  PROVE  UNCHANGED Register!vars
<1>1. request[w] \in Request
  BY DEF TypeOK, WorkersTypeOK, Active
<1>2. /\ request'[w].op = request[w].op /\ request'[w].device = request[w].device
      /\ request'[w].wanted = request[w].wanted /\ request'[w].attempt = request[w].attempt
      /\ \A x \in Workers \ {w} : request'[x] = request[x]
  BY <1>1 DEF GetLine, Request, TypeOK, WorkersTypeOK
<1>3. pc'[w] = label /\ \A x \in Workers \ {w} : pc'[x] = pc[x]
  BY DEF Proceed, Goto, TypeOK, WorkersTypeOK
<1>4. \A x \in Workers : OperationOnLine(x)' = OperationOnLine(x)
  BY <1>2, <1>3 DEF OperationOnLine, Active, LineOfWorker
<1> QED BY <1>4, QuietStep DEF Proceed

\* The handler of w ends.
LEMMA FinishStep ==
  ASSUME TypeOK, NEW w \in Workers, Active(w), NEW res \in Outcomes \ {"none"}, Finish(w, res),
         UNCHANGED line,
         Register!Truthful(w, Result(w)'),
         UNCHANGED wire \/ (Result(w)' = "failed" /\ \E m \in wire : wire' = wire \ {m})
  PROVE  Register!Next
<1>1. /\ pc'[w] = "idle" /\ outcome'[w] = res /\ seen' = [seen EXCEPT ![w] = {}]
      /\ \A x \in Workers \ {w} : pc'[x] = pc[x] /\ request'[x] = request[x] /\ outcome'[x] = outcome[x]
  BY DEF Finish, Goto, TypeOK, WorkersTypeOK
<1>2. Operation' = [x \in Workers |-> IF x \in {w} THEN [kind |-> "none"] ELSE OperationOnLine(x)]
  BY <1>1 DEF Operation, OperationOnLine, Active, LineOfWorker
<1>3. Results' = [x \in Workers |-> IF x \in {w} THEN Result(w)' ELSE Result(x)]
  BY <1>1 DEF Results, Result
<1>4. seen' = [x \in Workers |-> IF x \in {w} THEN {} ELSE seen[x]]
  BY <1>1 DEF TypeOK, WorkersTypeOK
<1>5. Register!Under(w)
  BY DEF Register!Under, OperationOnLine
<1>6. Register!End({w}, Result(w)')
  BY <1>2, <1>3, <1>4, <1>5 DEF Register!End, Operation, Results, Register!Idle
<1>7. Result(w)' \in {"done", "answered", "simulated", "failed"}
  BY <1>1 DEF Result, Outcomes, Fresh
<1> QED BY <1>6, <1>7 DEF Register!Next

\* An attempt leaves.
LEMMA TryStep ==
  ASSUME TypeOK, HistoryInv, NEW w \in Workers, Active(w), pc[w] \in Holding,
         request[w].op \in Changing, request[w].attempt < MaxAttempts,
         SendUpdate(w, request[w].attempt + 1), pc' = [pc EXCEPT ![w] = "updating"],
         UNCHANGED <<outcome, seen>>
  PROVE  Register!Next
<1>1. request[w] \in Request /\ request[w].current \in seen[w] /\ request[w].attempt \in Nat
  BY ConstantsAssumption DEF TypeOK, WorkersTypeOK, Active, HistoryInv, WorkerHistory, Request
<1> DEFINE m == UpdateRequest(w, request[w].attempt + 1)
<1>2. /\ m.line = LineOfWorker(w) /\ m.destination = request[w].wanted
      /\ m.try = request[w].attempt + 1 /\ m.searchSpace = request[w].current.searchSpace
  BY DEF UpdateRequest
<1>3. wire' = wire \cup {m} /\ m \in wire' /\ line' = line
  BY DEF SendUpdate
<1> HIDE DEF m
<1>4. /\ request'[w].op = request[w].op /\ request'[w].device = request[w].device
      /\ request'[w].wanted = request[w].wanted /\ request'[w].attempt = request[w].attempt + 1
      /\ \A x \in Workers \ {w} : request'[x] = request[x] /\ pc'[x] = pc[x]
      /\ pc'[w] = "updating"
  BY <1>1 DEF SendUpdate, Request, TypeOK, WorkersTypeOK
<1>5. Operation[w] = [kind |-> "change", line |-> LineOfWorker(w), wanted |-> request[w].wanted,
                      tries |-> request[w].attempt]
  BY DEF Operation, OperationOnLine
<1>6. OperationOnLine(w)' = [kind |-> "change", line |-> LineOfWorker(w), wanted |-> request[w].wanted,
                             tries |-> request[w].attempt + 1]
  BY <1>4 DEF OperationOnLine, Active, LineOfWorker
<1>7. OperationOnLine(w)' = [Operation[w] EXCEPT !.tries = @ + 1]
  BY <1>5, <1>6
<1>8. Operation' = [Operation EXCEPT ![w].tries = @ + 1]
  BY <1>4, <1>7, OperationStep
<1>9. Results' = Results
  BY DEF Results, Result
<1>10. Register!Try(w, m)
  BY <1>1, <1>2, <1>3, <1>5, <1>8, <1>9 DEF Register!Try, Register!Change, Operation, Results
<1> QED BY <1>3, <1>10 DEF Register!Next

\* The line changes, by a try that takes effect or by the administrator.
LEMMA BecomeStep ==
  ASSUME TypeOK, NEW l \in Lines, NEW state \in CfaState, LineBecomes(l, state),
         UNCHANGED <<pc, request, outcome>>
  PROVE  Register!Become(l, state)
<1>1. Operation' = Operation /\ Results' = Results
  BY DEF Operation, Results, OperationOnLine, Result, Active, LineOfWorker
<1>2. \A w \in Workers : Active(w) /\ LineOfWorker(w) = l
                           <=> Register!Under(w) /\ Operation[w].line = l
  BY DEF Register!Under, Operation, OperationOnLine
<1> QED BY <1>1, <1>2 DEF Register!Become, LineBecomes, Operation, Results

-----------------------------------------------------------------------------
LEMMA RegisterInit == Init => Register!Init /\ TriesInv
BY DEF Init, TriesInv, BeforeUpdate, At, Active, Register!Init, Register!State, CfaState, Register!Idle,
       OperationOnLine, Result

\* Where a handler may be before anything has been sent, and its steps there.
LEMMA TriesStep == TypeOK /\ TriesInv /\ [Next]_vars => TriesInv'
<1> SUFFICES ASSUME TypeOK, TriesInv, [Next]_vars, NEW x \in Workers PROVE BeforeUpdate(x)'
  BY DEF TriesInv
<1> USE DEF At, Goto, Active, TypeOK, WorkersTypeOK
<1>0. ASSUME pc'[x] = "idle" \/ pc'[x] \in Writing PROVE BeforeUpdate(x)'
  BY <1>0 DEF BeforeUpdate, Writing
<1>1. ASSUME pc'[x] = pc[x], request'[x] = request[x] PROVE BeforeUpdate(x)'
  BY <1>1 DEF TriesInv, BeforeUpdate
<1>2. ASSUME NEW w \in Workers, Handle(w) PROVE BeforeUpdate(x)'
  <2>1. CASE x # w
    BY <1>1, <1>2, <2>1, HandleAlone
  <2>2. CASE x = w
    <3>1. request[w] \in Request /\ BeforeUpdate(w)
      BY <1>2, HandleActive DEF TriesInv
    <3>2. ASSUME NEW result, Finish(w, result) PROVE BeforeUpdate(x)'
      BY <1>0, <2>2, <3>2 DEF Finish
    <3>3. ASSUME NEW label \in Writing, pc' = [pc EXCEPT ![w] = label] PROVE BeforeUpdate(x)'
      BY <1>0, <2>2, <3>3
    <3>4. CASE Validate(w) \/ Look(w) \/ Invalidate(w)
      BY <2>2, <3>1, <3>2, <3>4 DEF Validate, Look, Invalidate, Proceed, BeforeUpdate, Request, Operations,
                                    Changing, Writing
    <3>5. CASE Normalize(w)
      BY <2>2, <3>1, <3>2, <3>5 DEF Normalize, Proceed, BeforeUpdate, Writing, Request
    <3>6. CASE Read(w)
      BY <2>2, <3>1, <3>6 DEF Read, GetLine, Proceed, BeforeUpdate, Writing, Request
    <3>7. CASE DecideUpdate(w) \/ UpdateReply(w) \/ Apply(w) \/ Confirm(w)
      BY <3>3, <3>7 DEF DecideUpdate, UpdateReply, Apply, Confirm, Proceed, Writing
    <3>8. CASE UpdateRetry(w)
      BY <1>0, <2>2, <3>8 DEF UpdateRetry, Writing
    <3>9. CASE \/ Refuse(w) \/ Fill(w) \/ DecideUnchanged(w) \/ DecideSimulated(w) \/ UpdateFault(w)
               \/ VerifyConfirmed(w) \/ VerifyMismatch(w) \/ Fail(w)
      BY <3>2, <3>9 DEF Refuse, Fill, DecideUnchanged, DecideSimulated, UpdateFault, VerifyConfirmed,
                        VerifyMismatch, Fail
    <3> QED BY <1>2, <3>4, <3>5, <3>6, <3>7, <3>8, <3>9 DEF Handle
  <2> QED BY <2>1, <2>2
<1>3. ASSUME NEW w \in Workers, Receive(w) PROVE BeforeUpdate(x)'
  BY <1>0, <1>1, <1>3 DEF BeforeUpdate, Receive, ReceiveQuery, ReceiveChange, ReceiveMalformed, Accept, Finish
<1>4. ASSUME NEW p \in Processes, Restart(p) PROVE BeforeUpdate(x)'
  BY <1>0, <1>1, <1>4 DEF Restart
<1>5. CASE \/ \E m \in wire : CucmUpdate(m)
           \/ \E p \in Processes, d \in Devices : Expire(p, d)
           \/ \E l \in Lines : AdminEdit(l)
           \/ UNCHANGED vars
  BY <1>1, <1>5 DEF CucmUpdate, Expire, AdminEdit, vars, workerVars
<1> QED BY <1>2, <1>3, <1>4, <1>5 DEF Next

\* A request arrives, or is refused at once.
LEMMA ReceiveStep ==
  ASSUME TypeOK, NEW w \in Workers, Receive(w)
  PROVE  Register!Next
<1> USE DEF At, Goto, TypeOK, WorkersTypeOK
<1>1. ~Active(w) /\ ~Register!Under(w)
  BY DEF Receive, ReceiveQuery, ReceiveChange, ReceiveMalformed, Accept, Active, Register!Under,
         OperationOnLine
<1>2. ASSUME NEW d \in Devices, NEW o \in Operations, NEW id, Accept(w, d, o, id) PROVE Register!Next
  <2> DEFINE kind == IF o \in Changing THEN "change" ELSE "query"
  <2>1. /\ pc'[w] = "validating" /\ request'[w].op = o /\ request'[w].device = d
        /\ request'[w].wanted = None /\ request'[w].attempt = 0
        /\ \A x \in Workers \ {w} : pc'[x] = pc[x] /\ request'[x] = request[x]
        /\ outcome' = [outcome EXCEPT ![w] = "none"]
        /\ seen' = [seen EXCEPT ![w] = {line[LineOf[d]]}]
        /\ UNCHANGED <<line, wire>>
    BY <1>2 DEF Accept, cucmVars
  <2>2. OperationOnLine(w)' = [kind |-> kind, line |-> LineOf[d], wanted |-> None, tries |-> 0]
    BY <2>1 DEF OperationOnLine, Active, LineOfWorker
  <2>3. Operation' = [Operation EXCEPT ![w] = OperationOnLine(w)']
    BY <2>1, OperationStep
  <2>4. Result(w)' = "none"
    BY <2>1 DEF Result
  <2>5. Results' = [Results EXCEPT ![w] = "none"]
    BY <2>1, <2>4, ResultStep
  <2>6. Register!Begin(w, LineOf[d], kind)
    BY <1>1, <2>1, <2>2, <2>3, <2>5 DEF Register!Begin, Operation, Results
  <2>7. LineOf[d] \in Lines /\ kind \in {"query", "change"}
    BY ConstantsAssumption
  <2> HIDE DEF kind
  <2> QED BY <2>6, <2>7 DEF Register!Next
<1>3. CASE ReceiveMalformed(w)
  <2>1. /\ pc'[w] = "idle" /\ outcome' = [outcome EXCEPT ![w] = "invalid"]
        /\ seen' = [seen EXCEPT ![w] = {}]
        /\ \A x \in Workers \ {w} : pc'[x] = pc[x] /\ request'[x] = request[x]
        /\ UNCHANGED <<line, wire>>
    BY <1>3 DEF ReceiveMalformed, Finish, cucmVars
  <2>2. Operation' = Operation
    BY <1>1, <2>1 DEF Operation, OperationOnLine, Active, LineOfWorker
  <2>3. Result(w)' = "failed"
    BY <2>1 DEF Result
  <2>4. Results' = [Results EXCEPT ![w] = "failed"]
    BY <2>1, <2>3, ResultStep
  <2>5. Register!Reject(w)
    BY <1>1, <2>1, <2>2, <2>4 DEF Register!Reject, Operation, Results
  <2> QED BY <2>5 DEF Register!Next
<1>4. CASE \E d \in Devices, o \in Operations : ReceiveQuery(w, d, o) \/ ReceiveChange(w, d, o)
  BY <1>2, <1>4 DEF ReceiveQuery, ReceiveChange
<1> QED BY <1>3, <1>4 DEF Receive

\* A step of a handler.
LEMMA HandleStep ==
  ASSUME TypeOK, HistoryInv, PathInv, TriesInv, NEW w \in Workers, Handle(w)
  PROVE  [Register!Next]_(Register!vars)
<1> USE DEF At, cucmVars
<1>1. /\ Active(w) /\ request[w] \in Request /\ OnPath(w) /\ WorkerHistory(w)
      /\ BeforeUpdate(w)
  BY HandleActive DEF Active, PathInv, HistoryInv, TriesInv
<1>2. ASSUME NEW res \in {"invalid", "unavailable", "raised"}, Finish(w, res), line' = line,
             UNCHANGED wire \/ \E m \in wire : wire' = wire \ {m}
      PROVE  Register!Next
  <2>1. Result(w)' = "failed"
    BY <1>2 DEF Finish, Result, TypeOK, WorkersTypeOK
  <2>2. Register!Truthful(w, Result(w)')
    BY <2>1 DEF Register!Truthful
  <2> QED BY <1>1, <1>2, <2>1, <2>2, FinishStep DEF Outcomes
<1>3. ASSUME NEW res \in Outcomes \ {"none"}, Finish(w, res), UNCHANGED <<line, wire>>,
             Register!Truthful(w, Result(w)')
      PROVE  Register!Next
  BY <1>1, <1>3, FinishStep
<1>4. CASE Validate(w)
  <2>1. request[w].op \in Operations
    BY <1>1 DEF Request
  <2> QED BY <1>1, <1>4, <2>1, ProceedStep DEF Validate, Operations
<1>5. CASE Refuse(w) \/ UpdateFault(w) \/ VerifyMismatch(w) \/ Fail(w)
  BY <1>2, <1>5 DEF Refuse, UpdateFault, VerifyMismatch, Fail
<1>6. CASE Normalize(w)
  <2>1. CASE Finish(w, "invalid")
    BY <1>2, <1>6, <2>1 DEF Normalize
  <2>2. CASE \E d \in Destinations : request' = [request EXCEPT ![w].wanted = d] /\ Proceed(w, "reading")
    <3> PICK d \in Destinations : request' = [request EXCEPT ![w].wanted = d] /\ Proceed(w, "reading")
      BY <2>2
    <3>1. pc[w] = "normalizing" /\ request[w].attempt = 0 /\ request[w].op \in Changing
          /\ UNCHANGED <<line, wire>>
      BY <1>1, <1>6, <2>2 DEF Normalize, Writing, BeforeUpdate, Proceed, Finish
    <3>2. /\ request'[w].op = request[w].op /\ request'[w].device = request[w].device
          /\ request'[w].wanted = d /\ request'[w].attempt = request[w].attempt
          /\ \A x \in Workers \ {w} : request'[x] = request[x] /\ pc'[x] = pc[x]
          /\ pc'[w] = "reading" /\ UNCHANGED <<outcome, seen>>
      BY <1>1 DEF Proceed, Goto, Request, TypeOK, WorkersTypeOK
    <3>3. Operation[w] = [kind |-> "change", line |-> LineOfWorker(w), wanted |-> request[w].wanted, tries |-> 0]
      BY <1>1, <3>1 DEF Operation, OperationOnLine
    <3>4. OperationOnLine(w)' = [Operation[w] EXCEPT !.wanted = d]
      BY <3>1, <3>2, <3>3 DEF OperationOnLine, Active, LineOfWorker
    <3>5. Operation' = [Operation EXCEPT ![w].wanted = d]
      BY <3>2, <3>4, OperationStep
    <3>6. Results' = Results
      BY <3>2 DEF Results, Result
    <3>7. Register!Choose(w, d)
      BY <3>1, <3>2, <3>3, <3>5, <3>6 DEF Register!Choose, Register!Change, Operation, Results
    <3> QED BY <3>7 DEF Register!Next
  <2> QED BY <1>6, <2>1, <2>2 DEF Normalize
<1>7. CASE Look(w)
  <2>1. CASE Finish(w, "cached")
    <3>1. Result(w)' = "answered"
      BY <2>1 DEF Finish, Result, TypeOK, WorkersTypeOK
    <3>2. Register!Truthful(w, Result(w)')
      BY <1>1, <1>7, <3>1 DEF Look, OnPath, Changing, Register!Truthful, Register!Change, OperationOnLine
    <3> QED BY <1>3, <1>7, <2>1, <3>2 DEF Look, Outcomes
  <2>2. CASE Proceed(w, "reading") /\ UNCHANGED request
    BY <1>1, <1>7, <2>2, ProceedStep DEF Look
  <2> QED BY <1>7, <2>1, <2>2 DEF Look
<1>8. CASE Invalidate(w) \/ Read(w) \/ UpdateReply(w) \/ Apply(w) \/ Confirm(w)
  BY <1>1, <1>8, ProceedStep DEF Invalidate, Read, UpdateReply, Apply, Confirm
<1>9. CASE Fill(w)
  <2>1. Result(w)' = "answered"
    BY <1>9 DEF Fill, Finish, Result, TypeOK, WorkersTypeOK
  <2>2. Register!Truthful(w, Result(w)')
    BY <1>1, <1>9, <2>1 DEF Fill, WorkerHistory, Register!Truthful, Register!Change, OperationOnLine
  <2> QED BY <1>3, <1>9, <2>2 DEF Fill, Outcomes, Fresh
<1>10. CASE DecideUnchanged(w) \/ VerifyConfirmed(w)
  <2> PICK res \in {"unchanged", "changed"} : Finish(w, res)
    BY <1>10 DEF DecideUnchanged, VerifyConfirmed
  <2>1. Result(w)' = "done"
    BY DEF Finish, Result, TypeOK, WorkersTypeOK
  <2>2. request[w].current \in seen[w] /\ AsWanted(w) /\ request[w].op \in Changing
    BY <1>1, <1>10 DEF DecideUnchanged, VerifyConfirmed, WorkerHistory, OnPath, Holding, Writing
  <2>3. Register!Truthful(w, Result(w)')
    BY <1>1, <2>1, <2>2 DEF AsWanted, Register!Truthful, Register!Change, OperationOnLine
  <2> QED BY <1>3, <1>10, <2>3 DEF DecideUnchanged, VerifyConfirmed, Outcomes, Fresh
<1>11. CASE DecideSimulated(w)
  <2>1. Result(w)' = "simulated"
    BY <1>11 DEF DecideSimulated, Finish, Result, TypeOK, WorkersTypeOK
  <2>2. request[w].attempt = 0 /\ request[w].op \in Changing
    BY <1>1, <1>11 DEF DecideSimulated, BeforeUpdate, OnPath, Writing
  <2>3. Register!Truthful(w, Result(w)')
    BY <1>1, <2>1, <2>2 DEF Register!Truthful, Register!Change, OperationOnLine
  <2> QED BY <1>3, <1>11, <2>3 DEF DecideSimulated, Outcomes
<1>12. CASE DecideUpdate(w)
  <2>1. /\ pc[w] \in Holding /\ request[w].op \in Changing /\ request[w].attempt = 0
        /\ SendUpdate(w, 0 + 1) /\ pc' = [pc EXCEPT ![w] = "updating"] /\ UNCHANGED <<outcome, seen>>
    BY <1>1, <1>12 DEF DecideUpdate, Proceed, Goto, BeforeUpdate, OnPath, Holding, Writing
  <2>2. request[w].attempt < MaxAttempts
    BY <2>1, ConstantsAssumption
  <2> QED BY <1>1, <2>1, <2>2, TryStep
<1>13. CASE UpdateRetry(w)
  <2>1. /\ pc[w] \in Holding /\ request[w].op \in Changing
        /\ pc' = [pc EXCEPT ![w] = "updating"] /\ UNCHANGED <<outcome, seen>>
    BY <1>1, <1>13 DEF UpdateRetry, OnPath, Holding, Writing, TypeOK, WorkersTypeOK
  <2> QED BY <1>1, <1>13, <2>1, TryStep DEF UpdateRetry
<1> QED BY <1>4, <1>5, <1>6, <1>7, <1>8, <1>9, <1>10, <1>11, <1>12, <1>13 DEF Handle

LEMMA RegisterStep ==
  TypeOK /\ HistoryInv /\ PathInv /\ TriesInv /\ [Next]_vars => [Register!Next]_(Register!vars)
<1> SUFFICES ASSUME TypeOK, HistoryInv, PathInv, TriesInv, [Next]_vars
             PROVE  [Register!Next]_(Register!vars)
  OBVIOUS
<1>1. ASSUME NEW m \in wire, CucmUpdate(m) PROVE Register!Next
  <2> DEFINE state == [destination |-> m.destination, searchSpace |-> m.searchSpace]
  <2>1. m.line \in Lines /\ state \in CfaState
    BY DEF TypeOK, Update, CfaState
  <2>2. Register!Become(m.line, state)
    BY <1>1, <2>1, BecomeStep DEF CucmUpdate
  <2>3. Register!TakeEffect(m)
    BY <1>1, <2>2 DEF CucmUpdate, Register!TakeEffect
  <2> QED BY <2>3 DEF Register!Next
<1>2. ASSUME NEW l \in Lines, AdminEdit(l) PROVE Register!Next
  <2> PICK state \in CfaState : LineBecomes(l, state)
    BY <1>2 DEF AdminEdit
  <2>1. Register!Edit(l, state)
    BY <1>2, BecomeStep DEF AdminEdit, Register!Edit
  <2> QED BY <2>1 DEF Register!Next, Register!State, CfaState
<1>3. ASSUME NEW p \in Processes, Restart(p) PROVE Register!Next
  <2> DEFINE Killed == {w \in Workers : ProcessOf[w] = p /\ Active(w)}
  <2>1. /\ pc' = [w \in Workers |-> IF w \in Killed THEN "idle" ELSE pc[w]]
        /\ request' = [w \in Workers |-> IF w \in Killed THEN None ELSE request[w]]
        /\ outcome' = [w \in Workers |-> IF w \in Killed THEN "lost" ELSE outcome[w]]
        /\ seen' = [w \in Workers |-> IF w \in Killed THEN {} ELSE seen[w]]
        /\ UNCHANGED <<line, wire>>
    BY <1>3 DEF Restart, cucmVars
  <2>2. \A w \in Killed : Register!Under(w) /\ Register!Truthful(w, "failed")
    BY DEF Register!Under, Register!Truthful, OperationOnLine
  <2>3. Operation' = [w \in Workers |-> IF w \in Killed THEN Register!Idle ELSE OperationOnLine(w)]
    BY <2>1 DEF Operation, OperationOnLine, Active, LineOfWorker, Register!Idle
  <2>4. Results' = [w \in Workers |-> IF w \in Killed THEN "failed" ELSE Result(w)]
    BY <2>1 DEF Results, Result
  <2>5. Register!End(Killed, "failed")
    BY <2>1, <2>2, <2>3, <2>4 DEF Register!End, Operation, Results
  <2> QED BY <2>5 DEF Register!Next
<1>4. ASSUME NEW p \in Processes, NEW d \in Devices, Expire(p, d) PROVE UNCHANGED Register!vars
  BY <1>4, QuietStep DEF Expire, cucmVars, workerVars, OperationOnLine, Active, LineOfWorker
<1>5. CASE UNCHANGED vars
  BY <1>5, QuietStep DEF vars, cucmVars, workerVars, OperationOnLine, Active, LineOfWorker
<1> QED BY <1>1, <1>2, <1>3, <1>4, <1>5, ReceiveStep, HandleStep DEF Next

(***************************************************************************)
(* The service implements a register for each line, written at least once, *)
(* however many processes, threads and handsets there are, and whatever    *)
(* fails, is retried, is killed or takes effect late (services.py).        *)
(***************************************************************************)
THEOREM ServiceImplementsRegister == Spec => ImplementsRegister
<1>1. Spec => [](TypeOK /\ HistoryInv /\ PathInv /\ TriesInv)
  BY ServiceCorrect, RegisterInit, TriesStep, PTL DEF Spec
<1> QED BY <1>1, RegisterInit, RegisterStep, PTL DEF Spec, ImplementsRegister, Register!Spec
=============================================================================
