----------------------------- MODULE HandsetProofs -----------------------------
(* Theorems about Handset.tla, for any number of handsets, whose requests are *)
(* handled by any deployment of the service.                                  *)
EXTENDS Handset, DiversionProofs

LEMMA OperationTyped == \A url \in Urls : OperationOf(url) \in Operations
BY DEF Urls, OperationOf, Operations

LEMMA ServiceStep == [HandsetsNext]_<<vars, handsetVars>> => [Next]_vars
<1> SUFFICES ASSUME HandsetsNext PROVE [Next]_vars
  BY DEF vars
<1>1. ASSUME NEW d \in Devices, NEW w \in Workers, NEW url \in Urls, Press(d, w, url) PROVE Next
  BY <1>1, OperationTyped DEF Press, Receive, Next
<1>2. ASSUME NEW d \in Devices, NEW w \in Workers, EnterMalformed(d, w) PROVE Next
  BY <1>2 DEF EnterMalformed, Receive, Next
<1>3. ASSUME NEW d \in Devices, Leave(d) \/ Abandon(d) PROVE UNCHANGED vars
  BY <1>3 DEF Leave, Abandon
<1>4. ASSUME NEW w \in Workers, Serve(w) PROVE Next
  BY <1>4 DEF Serve, Next
<1>5. ASSUME NEW p \in Processes, Crash(p) PROVE Next
  BY <1>5 DEF Crash, Next
<1>6. ASSUME Background PROVE Next
  BY <1>6 DEF Background, Next
<1> QED BY <1>1, <1>2, <1>3, <1>4, <1>5, <1>6 DEF HandsetsNext

(***************************************************************************)
(* What is proved of the service holds behind the handsets: whatever keys  *)
(* are pressed, and whatever handsets give up, is a behaviour of Diversion.*)
(***************************************************************************)
THEOREM HandsetsUseService == HandsetsSpec => Spec
<1>1. HandsetsInit => Init
  BY DEF HandsetsInit
<1> QED BY <1>1, ServiceStep, PTL DEF HandsetsSpec, Spec

-----------------------------------------------------------------------------
(* Paths.  Which operations get to which points of the handlers.            *)

OnPath(w) ==
  /\ At(w, "looking") => request[w].op = "status"
  /\ At(w, "invalidating") => request[w].op = "refresh"
  /\ At(w, "deciding") \/ pc[w] \in Writing => request[w].op \in Changing

PathInv == \A w \in Workers : OnPath(w)

\* A handler that takes a step has a request.
LEMMA HandleActive ==
  ASSUME TypeOK, NEW w \in Workers, Handle(w)
  PROVE  pc[w] # "idle" /\ request[w] \in Request /\ request[w].device \in Devices
<1>1. pc[w] # "idle"
  BY DEF Handle, Validate, Refuse, Normalize, Look, Invalidate, Read, Fill, DecideUnchanged,
         DecideSimulated, DecideUpdate, UpdateReply, UpdateRetry, UpdateFault, Apply, Confirm,
         VerifyConfirmed, VerifyMismatch, Fail, At, Calling
<1> QED BY <1>1 DEF TypeOK, WorkersTypeOK, Request

\* A step of a handler touches no other handler.
LEMMA HandleAlone ==
  ASSUME TypeOK, NEW w \in Workers, Handle(w), NEW x \in Workers, x # w
  PROVE  pc'[x] = pc[x] /\ request'[x] = request[x] /\ outcome'[x] = outcome[x]
<1> USE DEF TypeOK, WorkersTypeOK, Goto
<1>1. CASE \/ Validate(w) \/ Refuse(w) \/ Normalize(w) \/ Look(w) \/ Invalidate(w) \/ Read(w)
  BY <1>1 DEF Validate, Refuse, Normalize, Look, Invalidate, Read, GetLine, Proceed, Finish
<1>2. CASE \/ Fill(w) \/ DecideUnchanged(w) \/ DecideSimulated(w) \/ DecideUpdate(w)
           \/ UpdateReply(w) \/ UpdateRetry(w) \/ UpdateFault(w)
  BY <1>2 DEF Fill, DecideUnchanged, DecideSimulated, DecideUpdate, SendUpdate, UpdateReply,
              UpdateRetry, UpdateFault, Proceed, Finish
<1>3. CASE \/ Apply(w) \/ Confirm(w) \/ VerifyConfirmed(w) \/ VerifyMismatch(w) \/ Fail(w)
  BY <1>3 DEF Apply, Confirm, VerifyConfirmed, VerifyMismatch, Fail, GetLine, Proceed, Finish
<1> QED BY <1>1, <1>2, <1>3 DEF Handle

\* A handler goes on with the same request, on its path.
LEMMA HandleGoesOn ==
  ASSUME TypeOK, PathInv, NEW w \in Workers, Handle(w), pc'[w] # "idle"
  PROVE  /\ request'[w].op = request[w].op /\ request'[w].device = request[w].device
         /\ OnPath(w)'
<1> USE DEF At, Goto, TypeOK, WorkersTypeOK
<1>1. request[w] \in Request /\ request[w].op \in Operations /\ OnPath(w)
  BY HandleActive DEF PathInv, Request
\* Leaving the handler is excluded.
<1>2. ASSUME NEW result, Finish(w, result) PROVE FALSE
  BY <1>2 DEF Finish
<1>3. ASSUME NEW label, pc' = [pc EXCEPT ![w] = label], request' = request,
             label = "looking" => request[w].op = "status",
             label = "invalidating" => request[w].op = "refresh",
             label = "deciding" \/ label \in Writing => request[w].op \in Changing
      PROVE  /\ request'[w].op = request[w].op /\ request'[w].device = request[w].device
             /\ OnPath(w)'
  BY <1>3 DEF OnPath
<1>4. ASSUME NEW label, pc' = [pc EXCEPT ![w] = label], label # "looking", label # "invalidating",
             NEW r, r.op = request[w].op, r.device = request[w].device,
             request' = [request EXCEPT ![w] = r],
             label = "deciding" \/ label \in Writing => request[w].op \in Changing
      PROVE  /\ request'[w].op = request[w].op /\ request'[w].device = request[w].device
             /\ OnPath(w)'
  BY <1>4 DEF OnPath
<1>5. CASE Validate(w)
  BY <1>1, <1>3, <1>5 DEF Validate, Proceed, Operations, Writing
<1>6. CASE Normalize(w)
  <2>1. PICK d \in Destinations : request' = [request EXCEPT ![w].wanted = d] /\ Proceed(w, "reading")
    BY <1>2, <1>6 DEF Normalize
  <2> DEFINE r == [request[w] EXCEPT !.wanted = d]
  <2>2. request' = [request EXCEPT ![w] = r] /\ r.op = request[w].op /\ r.device = request[w].device
    BY <1>1, <2>1 DEF Request
  <2> HIDE DEF r
  <2>3. pc' = [pc EXCEPT ![w] = "reading"]
    BY <2>1 DEF Proceed
  <2> QED BY <2>2, <2>3 DEF OnPath, Writing
<1>7. CASE Look(w) \/ Invalidate(w)
  BY <1>2, <1>3, <1>7 DEF Look, Invalidate, Proceed, Writing
<1>8. ASSUME NEW label, label \in {"deciding", "filling", "verifying"}, Proceed(w, label), GetLine(w),
             label # "filling" => request[w].op \in Changing
      PROVE  /\ request'[w].op = request[w].op /\ request'[w].device = request[w].device
             /\ OnPath(w)'
  <2> DEFINE r == [request[w] EXCEPT !.current = line[LineOfWorker(w)]]
  <2>1. request' = [request EXCEPT ![w] = r] /\ r.op = request[w].op /\ r.device = request[w].device
    BY <1>1, <1>8 DEF GetLine, Request
  <2> HIDE DEF r
  <2> QED BY <1>4, <1>8, <2>1 DEF Proceed, Writing
<1>9. CASE Read(w)
  BY <1>8, <1>9 DEF Read
<1>10. CASE Confirm(w)
  BY <1>1, <1>8, <1>10 DEF Confirm, OnPath, Writing
<1>11. ASSUME NEW n, SendUpdate(w, n), pc' = [pc EXCEPT ![w] = "updating"],
              request[w].op \in Changing
       PROVE  /\ request'[w].op = request[w].op /\ request'[w].device = request[w].device
              /\ OnPath(w)'
  <2> DEFINE r == [request[w] EXCEPT !.attempt = n]
  <2>1. request' = [request EXCEPT ![w] = r] /\ r.op = request[w].op /\ r.device = request[w].device
    BY <1>1, <1>11 DEF SendUpdate, Request
  <2> HIDE DEF r
  <2> QED BY <1>4, <1>11, <2>1 DEF Writing
<1>12. CASE DecideUpdate(w)
  BY <1>1, <1>11, <1>12 DEF DecideUpdate, Proceed, OnPath
<1>13. CASE UpdateRetry(w)
  <2>1. pc' = [pc EXCEPT ![w] = "updating"]
    BY <1>13 DEF UpdateRetry
  <2> QED BY <1>1, <1>11, <1>13, <2>1 DEF UpdateRetry, OnPath, Writing
<1>14. CASE UpdateReply(w) \/ Apply(w)
  BY <1>1, <1>3, <1>14 DEF UpdateReply, Apply, Proceed, OnPath, Writing
<1>15. CASE \/ Refuse(w) \/ Fill(w) \/ DecideUnchanged(w) \/ DecideSimulated(w) \/ UpdateFault(w)
            \/ VerifyConfirmed(w) \/ VerifyMismatch(w) \/ Fail(w)
  BY <1>2, <1>15 DEF Refuse, Fill, DecideUnchanged, DecideSimulated, UpdateFault, VerifyConfirmed,
                     VerifyMismatch, Fail
<1> QED BY <1>5, <1>6, <1>7, <1>9, <1>10, <1>12, <1>13, <1>14, <1>15 DEF Handle

\* How a handler ends.
LEMMA HandleEnds ==
  ASSUME TypeOK, PathInv, HistoryInv, NEW w \in Workers, Handle(w), pc'[w] = "idle"
  PROVE  \/ outcome'[w] \in {"unavailable", "invalid", "raised"}
         \/ outcome'[w] = "cached" /\ request[w].op = "status"
         \/ outcome'[w] = "simulated" /\ DryRun /\ request[w].op \in Changing
         \/ /\ outcome'[w] = "refreshed" /\ request[w].op \notin Changing
            /\ ~At(w, "looking") /\ request[w].current \in seen[w]
         \/ /\ outcome'[w] \in {"unchanged", "changed"} /\ request[w].op \in Changing
            /\ AsWanted(w) /\ request[w].current \in seen[w]
<1> USE DEF At, Goto, TypeOK, WorkersTypeOK
<1>0. OnPath(w) /\ WorkerHistory(w)
  BY DEF PathInv, HistoryInv
<1>1. ASSUME NEW result, Finish(w, result) PROVE outcome'[w] = result
  BY <1>1 DEF Finish
<1>2. ASSUME NEW label \in Busy, Goto(w, label) PROVE FALSE
  BY <1>2 DEF Busy, Calling, Holding, Writing
<1>3. CASE \/ Refuse(w) \/ UpdateFault(w) \/ VerifyMismatch(w) \/ Fail(w)
  BY <1>1, <1>3 DEF Refuse, UpdateFault, VerifyMismatch, Fail
<1>4. CASE Normalize(w)
  BY <1>1, <1>2, <1>4 DEF Normalize, Proceed, Busy, Calling
<1>5. CASE Look(w)
  BY <1>0, <1>1, <1>2, <1>5 DEF Look, OnPath, Proceed, Busy, Calling
<1>6. CASE Fill(w)
  BY <1>0, <1>1, <1>6 DEF Fill, WorkerHistory, Active, Holding
<1>7. CASE DecideSimulated(w)
  BY <1>0, <1>1, <1>7 DEF DecideSimulated, OnPath
<1>8. CASE DecideUnchanged(w) \/ VerifyConfirmed(w)
  BY <1>0, <1>1, <1>8 DEF DecideUnchanged, VerifyConfirmed, OnPath, WorkerHistory, Active, Holding, Writing
<1>9. CASE Validate(w)
  <2>1. request[w].op \in Operations
    BY <1>9 DEF Validate, Request
  <2> QED BY <1>2, <1>9, <2>1 DEF Validate, Proceed, Operations, Busy, Calling
<1>10. CASE \/ Invalidate(w) \/ Read(w) \/ DecideUpdate(w) \/ UpdateReply(w) \/ Apply(w) \/ Confirm(w)
  BY <1>2, <1>10 DEF Invalidate, Read, DecideUpdate, UpdateReply, Apply, Confirm, Proceed,
                     Busy, Calling, Holding, Writing
<1>11. CASE UpdateRetry(w)
  BY <1>11 DEF UpdateRetry
<1> QED BY <1>3, <1>4, <1>5, <1>6, <1>7, <1>8, <1>9, <1>10, <1>11 DEF Handle

LEMMA PathInit == Init => PathInv
BY DEF Init, PathInv, OnPath, At, Writing

LEMMA PathStep == TypeOK /\ PathInv /\ [Next]_vars => PathInv'
<1> SUFFICES ASSUME TypeOK, PathInv, [Next]_vars, NEW x \in Workers PROVE OnPath(x)'
  BY DEF PathInv
<1> USE DEF At, Writing
<1>1. ASSUME pc'[x] = "idle" \/ pc'[x] = "validating" PROVE OnPath(x)'
  BY <1>1 DEF OnPath
<1>2. ASSUME pc'[x] = pc[x], request'[x] = request[x] PROVE OnPath(x)'
  BY <1>2 DEF PathInv, OnPath
<1>3. ASSUME NEW w \in Workers, Handle(w) PROVE OnPath(x)'
  BY <1>1, <1>2, <1>3, HandleAlone, HandleGoesOn
<1>4. ASSUME NEW w \in Workers, Receive(w) PROVE OnPath(x)'
  BY <1>1, <1>2, <1>4 DEF Receive, ReceiveQuery, ReceiveChange, ReceiveMalformed, Accept, Finish,
                          Goto, TypeOK, WorkersTypeOK
<1>5. ASSUME NEW p \in Processes, Restart(p) PROVE OnPath(x)'
  BY <1>1, <1>2, <1>5 DEF Restart
<1>6. CASE \/ \E m \in wire : CucmUpdate(m)
           \/ \E p \in Processes, d \in Devices : Expire(p, d)
           \/ \E l \in Lines : AdminEdit(l)
           \/ UNCHANGED vars
  BY <1>2, <1>6 DEF CucmUpdate, Expire, AdminEdit, vars, workerVars
<1> QED BY <1>3, <1>4, <1>5, <1>6 DEF Next

LEMMA ServiceCorrect == Spec => [](TypeOK /\ HistoryInv /\ PathInv)
BY HistoryCorrect, PathInit, PathStep, PTL DEF Spec

-----------------------------------------------------------------------------
(* Handsets.  What a handset waits for is a link of the screen it shows.    *)

LinkInv == \A d \in Devices : pending[d] # None => pending[d].url \in Links(screen[d])

HandsetInv == HandsetsTypeOK /\ LinkInv

LEMMA HandsetInit == HandsetsInit => HandsetInv
BY TypeInit, MaxAbandonsAssumption DEF HandsetsInit, HandsetInv, HandsetsTypeOK, LinkInv, Screens

LEMMA RenderedTyped ==
  ASSUME NEW url \in Urls, NEW result, NEW state
  PROVE  Rendered(url, result, state) \in Screens
BY DEF Urls, Rendered, ErrorScreen, Screens, Success, StatusScreen

LEMMA HandsetStep ==
  HandsetInv /\ PathInv /\ [HandsetsNext]_<<vars, handsetVars>> => HandsetInv'
<1> SUFFICES ASSUME HandsetInv, PathInv, [HandsetsNext]_<<vars, handsetVars>> PROVE HandsetInv'
  OBVIOUS
<1> USE DEF HandsetInv, HandsetsTypeOK
<1> DEFINE Served(d) == pending[d] # None =>
             LET w == pending[d].worker
             IN  Active(w) /\ request[w].device = d /\ request[w].op = OperationOf(pending[d].url)
<1> DEFINE Linked(d) == pending[d] # None => pending[d].url \in Links(screen[d])
<1>1. TypeOK'
  BY ServiceStep, TypeStep
<1>2. \A d \in Devices : pending[d] # None => pending[d].worker \in Workers /\ pending[d].url \in Urls
  BY DEF Pending
\* A handset whose worker and screen are left alone.
<1>3. ASSUME NEW d \in Devices, pending'[d] = pending[d], screen'[d] = screen[d],
             \/ pending[d] = None
             \/ LET w == pending[d].worker
                IN  pc'[w] # "idle" /\ request'[w].device = request[w].device
                    /\ request'[w].op = request[w].op
      PROVE  Served(d)' /\ Linked(d)'
  BY <1>3 DEF LinkInv, Active
<1>4. ASSUME NEW d \in Devices, pending'[d] = None PROVE Served(d)' /\ Linked(d)'
  BY <1>4
<1>5. ASSUME screen' \in [Devices -> Screens], pending' \in [Devices -> Pending \cup {None}],
             abandons' \in Nat, \A d \in Devices : Served(d)' /\ Linked(d)'
      PROVE  HandsetInv'
  BY <1>1, <1>5 DEF LinkInv
<1>6. ASSUME NEW d \in Devices, NEW w \in Workers, NEW url \in Urls, Press(d, w, url)
      PROVE  HandsetInv'
  <2>1. /\ pc[w] = "idle" /\ pc' = [pc EXCEPT ![w] = "validating"]
        /\ \E r : /\ request' = [request EXCEPT ![w] = r]
                  /\ r.op = OperationOf(url) /\ r.device = d
    <3>1. PICK id : Accept(w, d, OperationOf(url), id)
      BY <1>6 DEF Press, ReceiveQuery, ReceiveChange
    <3> DEFINE r == [op |-> OperationOf(url), device |-> d, wanted |-> None,
                     current |-> None, serial |-> id, attempt |-> 0]
    <3>2. r.op = OperationOf(url) /\ r.device = d /\ request' = [request EXCEPT ![w] = r]
      BY <3>1 DEF Accept
    <3> HIDE DEF r
    <3> QED BY <3>1, <3>2 DEF Accept, At, Goto
  <2>2. /\ screen' = screen /\ abandons' = abandons /\ url \in Links(screen[d])
        /\ pending' = [pending EXCEPT ![d] = [worker |-> w, url |-> url]]
    BY <1>6 DEF Press
  <2>3. Served(d)' /\ Linked(d)'
    BY <2>1, <2>2 DEF Active, TypeOK, WorkersTypeOK
  <2>4. ASSUME NEW x \in Devices, x # d PROVE Served(x)' /\ Linked(x)'
    <3>1. ASSUME pending[x] # None PROVE pending[x].worker # w /\ pc[pending[x].worker] # "idle"
      BY <2>1, <3>1 DEF Active
    <3> QED BY <1>2, <1>3, <2>1, <2>2, <2>4, <3>1 DEF TypeOK, WorkersTypeOK
  <2>5. [worker |-> w, url |-> url] \in Pending
    BY DEF Pending
  <2> QED BY <1>5, <2>2, <2>3, <2>4, <2>5
<1>7. ASSUME NEW d \in Devices, NEW w \in Workers, EnterMalformed(d, w) PROVE HandsetInv'
  <2>1. /\ pc[w] = "idle" /\ \A x \in Workers : x # w => pc'[x] = pc[x] /\ request'[x] = request[x]
    BY <1>7 DEF EnterMalformed, ReceiveMalformed, Finish, At, Goto, TypeOK, WorkersTypeOK
  <2>2. /\ screen' = [screen EXCEPT ![d] = "invalid"] /\ pending' = pending /\ abandons' = abandons
        /\ pending[d] = None
    BY <1>7 DEF EnterMalformed
  <2>3. ASSUME NEW x \in Devices PROVE Served(x)' /\ Linked(x)'
    <3>1. CASE pending[x] = None
      BY <1>4, <2>2, <3>1
    <3>2. CASE pending[x] # None
      <4>1. pending[x].worker # w /\ pc[pending[x].worker] # "idle"
        BY <2>1, <3>2 DEF Active
      <4> QED BY <1>2, <1>3, <2>1, <2>2, <3>2, <4>1
    <3> QED BY <3>1, <3>2
  <2> QED BY <1>5, <2>2, <2>3 DEF Screens
<1>8. ASSUME NEW d \in Devices, Leave(d) \/ Abandon(d) PROVE HandsetInv'
  <2>1. /\ pc' = pc /\ request' = request /\ pending'[d] = None
        /\ screen' = [screen EXCEPT ![d] = "blank"] /\ abandons' \in Nat
        /\ pending' \in [Devices -> Pending \cup {None}]
        /\ \A x \in Devices : x # d => pending'[x] = pending[x]
    BY <1>8 DEF Leave, Abandon, vars, workerVars
  <2>2. ASSUME NEW x \in Devices PROVE Served(x)' /\ Linked(x)'
    <3>1. CASE x = d
      BY <1>4, <2>1, <3>1
    <3>2. CASE x # d
      BY <1>3, <2>1, <3>2 DEF Active
    <3> QED BY <3>1, <3>2
  <2> QED BY <1>5, <2>1, <2>2 DEF Screens
<1>9. ASSUME NEW w \in Workers, Serve(w) PROVE HandsetInv'
  <2> DEFINE d == request[w].device
  <2>1. Handle(w) /\ abandons' = abandons /\ d \in Devices
    BY <1>9, HandleActive DEF Serve
  \* The handsets that other workers serve.
  <2>2. ASSUME NEW x \in Devices, ~Waits(x, {w}), pending'[x] = pending[x], screen'[x] = screen[x]
        PROVE  Served(x)' /\ Linked(x)'
    <3>1. CASE pending[x] = None
      BY <1>3, <2>2, <3>1
    <3>2. CASE pending[x] # None
      <4>1. pending[x].worker \in Workers \ {w} /\ pc[pending[x].worker] # "idle"
        BY <1>2, <2>2, <3>2 DEF Waits, Active
      <4> QED BY <1>3, <2>1, <2>2, <4>1, HandleAlone
    <3> QED BY <3>1, <3>2
  <2>3. CASE pc'[w] = "idle" /\ Waits(d, {w})
    <3>1. PICK s \in Screens : Show(d, s)
      <4>1. pending[d].url \in Urls
        BY <1>2, <2>1, <2>3 DEF Waits
      <4>2. Show(d, Rendered(pending[d].url, outcome'[w], Returned(w)))
        BY <1>9, <2>3 DEF Serve
      <4> QED BY <4>1, <4>2, RenderedTyped
    <3>2. ASSUME NEW x \in Devices PROVE Served(x)' /\ Linked(x)'
      <4>1. CASE x = d
        BY <1>4, <3>1, <4>1 DEF Show
      <4>2. CASE x # d
        <5>1. ~Waits(x, {w})
          BY <4>2 DEF Waits
        <5> QED BY <2>2, <3>1, <4>2, <5>1 DEF Show
      <4> QED BY <4>1, <4>2
    <3> QED BY <1>5, <2>1, <3>1, <3>2 DEF Show
  <2>4. CASE ~(pc'[w] = "idle" /\ Waits(d, {w}))
    <3>1. screen' = screen /\ pending' = pending
      BY <1>9, <2>4 DEF Serve
    <3>2. ASSUME NEW x \in Devices PROVE Served(x)' /\ Linked(x)'
      <4>1. CASE Waits(x, {w})
        <5>1. x = d /\ pending[x].worker = w
          BY <4>1 DEF Waits
        <5> QED BY <1>3, <2>1, <2>4, <3>1, <4>1, <5>1, HandleGoesOn
      <4> QED BY <2>2, <3>1, <4>1
    <3> QED BY <1>5, <2>1, <3>1, <3>2
  <2> QED BY <2>3, <2>4
<1>10. ASSUME NEW p \in Processes, Crash(p) PROVE HandsetInv'
  <2> DEFINE Lost == {d \in Devices : Waits(d, {w \in Workers : ProcessOf[w] = p})}
  <2>1. /\ Restart(p) /\ abandons' = abandons
        /\ screen'  = [d \in Devices |-> IF d \in Lost THEN "blank" ELSE screen[d]]
        /\ pending' = [d \in Devices |-> IF d \in Lost THEN None ELSE pending[d]]
    BY <1>10 DEF Crash
  <2>2. ASSUME NEW x \in Devices PROVE Served(x)' /\ Linked(x)'
    <3>1. CASE x \in Lost \/ pending[x] = None
      BY <1>4, <2>1, <3>1
    <3>2. CASE x \notin Lost /\ pending[x] # None
      <4>1. pending[x].worker \in Workers /\ ProcessOf[pending[x].worker] # p
        BY <1>2, <3>2 DEF Waits
      <4>2. pc'[pending[x].worker] = pc[pending[x].worker]
            /\ request'[pending[x].worker] = request[pending[x].worker]
        BY <2>1, <4>1 DEF Restart
      <4> QED BY <1>3, <2>1, <3>2, <4>2 DEF Active
    <3> QED BY <3>1, <3>2
  <2> QED BY <1>5, <2>1, <2>2 DEF Screens
<1>11. CASE Background \/ UNCHANGED <<vars, handsetVars>>
  <2>1. UNCHANGED <<pc, request, screen, pending, abandons>>
    BY <1>11 DEF Background, CucmUpdate, Expire, AdminEdit, vars, workerVars, handsetVars
  <2>2. ASSUME NEW x \in Devices PROVE Served(x)' /\ Linked(x)'
    BY <1>3, <2>1 DEF Active
  <2> QED BY <1>5, <2>1, <2>2
<1> QED BY <1>6, <1>7, <1>8, <1>9, <1>10, <1>11 DEF HandsetsNext

LEMMA HandsetsCorrect == HandsetsSpec => [](HandsetInv /\ HistoryInv /\ PathInv)
<1>1. HandsetsSpec => [](TypeOK /\ HistoryInv /\ PathInv)
  BY HandsetsUseService, ServiceCorrect, PTL
<1> QED BY <1>1, HandsetInit, HandsetStep, PTL DEF HandsetsSpec

(***************************************************************************)
(* A handset that waits is being served: a worker handles, for this        *)
(* handset, the operation of the URL it asked for (urls.py, views.py).     *)
(***************************************************************************)
THEOREM HandsetsTyped == HandsetsSpec => []HandsetsTypeOK
BY HandsetsCorrect, PTL DEF HandsetInv

-----------------------------------------------------------------------------
(* What the screens say.                                                     *)

\* A screen of the service is the answer to the request the handset waits for.
LEMMA ScreenIsAnswer ==
  ASSUME HandsetInv, [HandsetsNext]_<<vars, handsetVars>>, NEW d \in Devices, pending[d] # None,
         screen'[d] \in Success \cup {"on", "off"}, screen'[d] # screen[d]
  PROVE  LET w == pending[d].worker
         IN  /\ w \in Workers /\ Handle(w) /\ pc'[w] = "idle"
             /\ screen'[d] = Rendered(pending[d].url, outcome'[w], Returned(w))
<1> USE DEF HandsetInv, HandsetsTypeOK
<1>1. screen' # screen /\ pending[d] \in Pending /\ pending[d].worker \in Workers
  BY DEF Pending
<1>2. ASSUME NEW x \in Devices, screen' = [screen EXCEPT ![x] = "blank"] \/ pending[x] = None,
             \A y \in Devices : y # x => screen'[y] = screen[y]
      PROVE  FALSE
  BY <1>2 DEF Success
<1>3. ASSUME NEW x \in Devices, NEW w \in Workers, EnterMalformed(x, w) PROVE FALSE
  BY <1>2, <1>3 DEF EnterMalformed
<1>4. ASSUME NEW x \in Devices, NEW w \in Workers, NEW url \in Urls, Press(x, w, url) PROVE FALSE
  BY <1>1, <1>4 DEF Press
<1>5. ASSUME NEW x \in Devices, Leave(x) \/ Abandon(x) PROVE FALSE
  BY <1>2, <1>5 DEF Leave, Abandon
<1>6. ASSUME NEW p \in Processes, Crash(p) PROVE FALSE
  BY <1>6 DEF Crash, Success
<1>7. ASSUME Background \/ UNCHANGED <<vars, handsetVars>> PROVE FALSE
  BY <1>1, <1>7 DEF Background, handsetVars
<1>8. PICK w \in Workers : Serve(w)
  BY <1>3, <1>4, <1>5, <1>6, <1>7 DEF HandsetsNext
<1>9. /\ request[w].device \in Devices /\ pc'[w] = "idle" /\ Waits(request[w].device, {w})
      /\ Show(request[w].device,
              Rendered(pending[request[w].device].url, outcome'[w], Returned(w)))
  BY <1>1, <1>8, HandleActive DEF Serve
<1>10. request[w].device = d /\ pending[d].worker = w
  BY <1>9 DEF Show, Waits
<1> QED BY <1>8, <1>9, <1>10 DEF Serve, Show

(***************************************************************************)
(* "Call Diversion Enabled" and "Disabled" are true: unless it is a dry    *)
(* run, CUCM had the destination asked for while the request was handled   *)
(* (views.py:64-84, 93-118), for any number of handsets that may press     *)
(* keys again without waiting.                                             *)
(***************************************************************************)
THEOREM SuccessTrue == HandsetsSpec => SuccessIsTrue
<1> DEFINE Step == \A d \in Devices :
                     /\ pending[d] # None /\ ~DryRun
                     /\ screen'[d] \in Success /\ screen'[d] # screen[d]
                     => LET w == pending[d].worker
                        IN  /\ request[w].op \in Changing
                            /\ \E state \in seen[w] : state.destination = request[w].wanted
<1>1. HandsetInv /\ HistoryInv /\ PathInv /\ [HandsetsNext]_<<vars, handsetVars>>
        => [Step]_<<vars, handsetVars>>
  <2> SUFFICES ASSUME HandsetInv, HistoryInv, PathInv, [HandsetsNext]_<<vars, handsetVars>>,
                      NEW d \in Devices, pending[d] # None, ~DryRun,
                      screen'[d] \in Success, screen'[d] # screen[d]
               PROVE  LET w == pending[d].worker
                      IN  /\ request[w].op \in Changing
                          /\ \E state \in seen[w] : state.destination = request[w].wanted
    OBVIOUS
  <2> DEFINE w == pending[d].worker
             url == pending[d].url
             result == outcome'[w]
  <2>1. /\ w \in Workers /\ Handle(w) /\ pc'[w] = "idle"
        /\ screen'[d] = Rendered(url, result, Returned(w))
    BY ScreenIsAnswer
  <2>2. TypeOK /\ request[w].op = OperationOf(url) /\ url \in Urls
    BY DEF HandsetInv, HandsetsTypeOK, Pending
  <2>3. result \notin {"unavailable", "invalid", "raised"} /\ url \in {"set", "disable"}
    BY <2>1, <2>2 DEF Rendered, ErrorScreen, StatusScreen, Success, Urls
  <2>4. request[w].op \in Changing
    BY <2>2, <2>3 DEF OperationOf, Changing
  <2>5. AsWanted(w) /\ request[w].current \in seen[w]
    BY <2>1, <2>2, <2>3, <2>4, HandleEnds DEF Changing
  <2> QED BY <2>4, <2>5 DEF AsWanted
<1> QED BY <1>1, HandsetsCorrect, PTL DEF HandsetsSpec, SuccessIsTrue

(***************************************************************************)
(* The status screen that follows a success screen is the truth, whichever *)
(* process answers and whatever its cache holds: the success screens lead  *)
(* to a refresh (success_enabled.xml:3-4, success_disabled.xml:3-4).       *)
(***************************************************************************)
THEOREM TruthAfterSuccess == HandsetsSpec => SuccessThenTruth
<1> DEFINE Step == \A d \in Devices :
                     /\ pending[d] # None /\ screen[d] \in Success
                     /\ screen'[d] \in {"on", "off"}
                     => \E state \in seen[pending[d].worker] : screen'[d] = StatusScreen(state)
<1>1. HandsetInv /\ HistoryInv /\ PathInv /\ [HandsetsNext]_<<vars, handsetVars>>
        => [Step]_<<vars, handsetVars>>
  <2> SUFFICES ASSUME HandsetInv, HistoryInv, PathInv, [HandsetsNext]_<<vars, handsetVars>>,
                      NEW d \in Devices, pending[d] # None, screen[d] \in Success,
                      screen'[d] \in {"on", "off"}
               PROVE  \E state \in seen[pending[d].worker] : screen'[d] = StatusScreen(state)
    OBVIOUS
  <2> DEFINE w == pending[d].worker
             result == outcome'[w]
  <2>1. pending[d].url = "refresh"
    BY DEF HandsetInv, LinkInv, Links, Success
  <2>2. /\ w \in Workers /\ Handle(w) /\ pc'[w] = "idle"
        /\ screen'[d] = Rendered("refresh", result, Returned(w))
    BY <2>1, ScreenIsAnswer DEF Success
  <2>3. TypeOK /\ request[w].op = "refresh"
    BY <2>1 DEF HandsetInv, HandsetsTypeOK, OperationOf
  <2>4. result \notin {"unavailable", "invalid", "raised"} /\ screen'[d] = StatusScreen(Returned(w))
    BY <2>2 DEF Rendered, ErrorScreen
  <2>5. ~At(w, "looking") /\ request[w].current \in seen[w]
    BY <2>2, <2>3, <2>4, HandleEnds DEF Changing
  <2> QED BY <2>4, <2>5 DEF Returned
<1> QED BY <1>1, HandsetsCorrect, PTL DEF HandsetsSpec, SuccessThenTruth
=============================================================================
