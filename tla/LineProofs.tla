------------------------------ MODULE LineProofs ------------------------------
(***************************************************************************)
(* Theorems about what the service leaves behind at CUCM and in its        *)
(* caches: AppliedUnlessDoubtful, for any deployment and any bounds, and   *)
(* StaleOnlyIfDoubtful, for one process and any number of handsets.        *)
(***************************************************************************)
EXTENDS HandsetProofs

-----------------------------------------------------------------------------
(* Changes in progress are told apart by their serial.                      *)

Changer(w) == Active(w) /\ request[w].op \in Changing

SerialInv ==
  \A w \in Workers : Changer(w) =>
    /\ request[w].serial > budget.changes
    /\ \A x \in Workers \ {w} : Changer(x) => request[x].serial # request[w].serial

\* A handler keeps its serial, and the bounds.
LEMMA HandleKeepsSerial ==
  ASSUME TypeOK, NEW w \in Workers, Handle(w)
  PROVE  budget' = budget /\ (pc'[w] # "idle" => request'[w].serial = request[w].serial)
<1> USE DEF TypeOK, WorkersTypeOK
<1>1. request[w] \in Request
  BY HandleActive
<1>2. ASSUME NEW result, Finish(w, result) PROVE pc'[w] = "idle"
  BY <1>2 DEF Finish, Goto
<1>3. ASSUME GetLine(w) \/ \E n : SendUpdate(w, n) PROVE request'[w].serial = request[w].serial
  BY <1>1, <1>3 DEF GetLine, SendUpdate, Request
<1>4. CASE \/ Validate(w) \/ Refuse(w) \/ Look(w) \/ Invalidate(w) \/ Fill(w) \/ DecideUnchanged(w)
           \/ DecideSimulated(w) \/ UpdateReply(w) \/ UpdateFault(w) \/ Apply(w)
           \/ VerifyConfirmed(w) \/ VerifyMismatch(w) \/ Fail(w)
  BY <1>2, <1>4 DEF Validate, Refuse, Look, Invalidate, Fill, DecideUnchanged, DecideSimulated,
                    UpdateReply, UpdateFault, Apply, VerifyConfirmed, VerifyMismatch, Fail
<1>5. CASE Read(w) \/ Confirm(w) \/ DecideUpdate(w) \/ UpdateRetry(w)
  BY <1>3, <1>5 DEF Read, Confirm, DecideUpdate, UpdateRetry
<1>6. CASE Normalize(w)
  BY <1>1, <1>2, <1>6 DEF Normalize, Request
<1> QED BY <1>4, <1>5, <1>6 DEF Handle

LEMMA SerialStep == TypeOK /\ PathInv /\ SerialInv /\ [Next]_vars => SerialInv'
<1> SUFFICES ASSUME TypeOK, PathInv, SerialInv, [Next]_vars PROVE SerialInv'
  OBVIOUS
\* Every change that goes on is one that was in progress, with the serial it had.
<1>1. ASSUME budget'.changes <= budget.changes,
             \A x \in Workers : Changer(x)' => Changer(x) /\ request'[x].serial = request[x].serial
      PROVE  SerialInv'
  <2>1. budget.changes \in Nat /\ budget'.changes \in Nat
    BY TypeStep DEF TypeOK
  <2>2. \A x \in Workers : Changer(x) => request[x].serial \in Nat
    BY DEF TypeOK, WorkersTypeOK, Changer, Active, Request
  <2> QED BY <1>1, <2>1, <2>2 DEF SerialInv
<1>2. budget.changes \in Nat
  BY DEF TypeOK
<1>3. ASSUME NEW w \in Workers, Handle(w) PROVE SerialInv'
  <2>1. ASSUME NEW x \in Workers, Changer(x)'
        PROVE  Changer(x) /\ request'[x].serial = request[x].serial
    <3>1. CASE x = w
      BY <1>3, <2>1, <3>1, HandleActive, HandleGoesOn, HandleKeepsSerial DEF Changer, Active
    <3>2. CASE x # w
      BY <1>3, <2>1, <3>2, HandleAlone DEF Changer, Active
    <3> QED BY <3>1, <3>2
  <2> QED BY <1>1, <1>2, <1>3, <2>1, HandleKeepsSerial
<1>4. ASSUME NEW w \in Workers, NEW d \in Devices, NEW o \in Operations, ReceiveChange(w, d, o)
      PROVE  SerialInv'
  <2>1. budget'.changes = budget.changes - 1
    BY <1>4 DEF ReceiveChange, TypeOK
  <2>2. /\ request'[w].serial = budget.changes
        /\ \A x \in Workers \ {w} : request'[x] = request[x] /\ pc'[x] = pc[x]
    BY <1>4 DEF ReceiveChange, Accept, Goto, TypeOK, WorkersTypeOK
  <2>3. \A x \in Workers \ {w} : Changer(x)' =>
          Changer(x) /\ request[x].serial \in Nat /\ request[x].serial > budget.changes
    BY <2>2 DEF Changer, Active, SerialInv, TypeOK, WorkersTypeOK, Request
  <2> QED BY <1>2, <2>1, <2>2, <2>3 DEF SerialInv
<1>5. ASSUME NEW w \in Workers, ReceiveMalformed(w) PROVE SerialInv'
  BY <1>1, <1>2, <1>5 DEF ReceiveMalformed, Finish, Goto, Changer, Active, TypeOK, WorkersTypeOK
<1>6. ASSUME NEW w \in Workers, NEW d \in Devices, NEW o \in Operations, ReceiveQuery(w, d, o)
      PROVE  SerialInv'
  <2>1. budget' = budget /\ ~Changer(w)'
    BY <1>6 DEF ReceiveQuery, Accept, Changer, TypeOK, WorkersTypeOK
  <2>2. \A x \in Workers \ {w} : request'[x] = request[x] /\ pc'[x] = pc[x]
    BY <1>6 DEF ReceiveQuery, Accept, Goto, TypeOK, WorkersTypeOK
  <2> QED BY <1>1, <1>2, <2>1, <2>2 DEF Changer, Active
<1>7. ASSUME NEW p \in Processes, Restart(p) PROVE SerialInv'
  BY <1>1, <1>2, <1>7 DEF Restart, Changer, Active, TypeOK
<1>8. CASE \/ \E m \in wire : CucmUpdate(m)
           \/ \E p \in Processes, d \in Devices : Expire(p, d)
           \/ \E l \in Lines : AdminEdit(l)
           \/ UNCHANGED vars
  <2>1. pc' = pc /\ request' = request
    BY <1>8 DEF CucmUpdate, Expire, AdminEdit, vars, workerVars
  <2>2. budget'.changes = budget.changes
    BY <1>8 DEF CucmUpdate, Expire, AdminEdit, vars, TypeOK
  <2> QED BY <1>1, <1>2, <2>1, <2>2 DEF Changer, Active
<1> QED BY <1>3, <1>4, <1>5, <1>6, <1>7, <1>8 DEF Next, Receive

-----------------------------------------------------------------------------
(* applyLine.  What has been sent and is not in doubt is awaited, and what   *)
(* has been carried out and is not in doubt is applied by a handler that     *)
(* has not come to it yet.                                                    *)

\* The handler of w has not sent the applyLine of an update that is carried out.
Applies(w) == At(w, "applying") \/ (At(w, "updating") /\ LatestUpdate(w) \notin wire)

Awaited ==
  \A m \in wire : m.line \notin doubtful => \E w \in Workers : At(w, "updating") /\ LatestUpdate(w) = m

ToBeApplied ==
  \A l \in unapplied : l \notin doubtful => \E w \in Workers : LineOfWorker(w) = l /\ Applies(w)

AppliedInv == Awaited /\ (ApplyLine => ToBeApplied)

\* A handler that stays what it was for AppliedInv.
Steady(x) ==
  \/ pc'[x] = pc[x] /\ request'[x] = request[x]
  \/ pc[x] \notin {"updating", "applying"}
  \/ LineOfWorker(x) \in doubtful'
  \/ Applies(x) /\ (ApplyLine => pc'[x] = "applying") /\ request'[x] = request[x]
  \/ At(x, "updating") /\ LatestUpdate(x) \in wire /\ LatestUpdate(x) \notin wire'
  \/ At(x, "applying") /\ LineOfWorker(x) \notin unapplied'

LEMMA SteadyStep ==
  ASSUME AppliedInv, wire' \subseteq wire, unapplied' \subseteq unapplied, doubtful \subseteq doubtful',
         \A x \in Workers : Steady(x)
  PROVE  AppliedInv'
<1>1. ASSUME NEW m \in wire', m.line \notin doubtful'
      PROVE  \E w \in Workers : At(w, "updating")' /\ LatestUpdate(w)' = m
  <2>1. PICK w \in Workers : At(w, "updating") /\ LatestUpdate(w) = m
    BY <1>1 DEF AppliedInv, Awaited
  <2>2. LineOfWorker(w) = m.line
    BY <2>1 DEF LatestUpdate, UpdateRequest
  <2>3. pc'[w] = pc[w] /\ request'[w] = request[w]
    BY <1>1, <2>1, <2>2 DEF Steady, Applies, At
  <2> QED BY <2>1, <2>3 DEF At, LatestUpdate, UpdateRequest, LineOfWorker
<1>2. ASSUME ApplyLine, NEW l \in unapplied', l \notin doubtful'
      PROVE  \E w \in Workers : LineOfWorker(w)' = l /\ Applies(w)'
  <2>1. PICK w \in Workers : LineOfWorker(w) = l /\ Applies(w)
    BY <1>2 DEF AppliedInv, ToBeApplied
  <2>2. request'[w] = request[w] /\ (pc'[w] = pc[w] \/ pc'[w] = "applying")
    BY <1>2, <2>1 DEF Steady, Applies, At
  <2>3. LineOfWorker(w)' = l /\ LatestUpdate(w)' = LatestUpdate(w)
    BY <2>1, <2>2 DEF LineOfWorker, LatestUpdate, UpdateRequest
  <2> QED BY <2>1, <2>2, <2>3 DEF Applies, At
<1> QED BY <1>1, <1>2 DEF AppliedInv, Awaited, ToBeApplied

LEMMA AppliedStep ==
  ASSUME TypeOK, PathInv, SerialInv, AppliedInv, [Next]_vars
  PROVE  AppliedInv'
<1> USE DEF At, Goto, cucmVars
\* The steps of a handler that neither sends nor receives.
<1>1. ASSUME NEW w \in Workers, Handle(w), Steady(w),
             wire' \subseteq wire, unapplied' \subseteq unapplied, doubtful \subseteq doubtful'
      PROVE  AppliedInv'
  <2>1. ASSUME NEW x \in Workers PROVE Steady(x)
    BY <1>1, HandleAlone DEF Steady
  <2> QED BY <1>1, <2>1, SteadyStep
<1>2. ASSUME NEW w \in Workers, Handle(w) PROVE AppliedInv'
  <2> USE <1>2
  <2>1. request[w] \in Request /\ OnPath(w)
    BY HandleActive DEF PathInv
  <2>2. CASE \/ Validate(w) \/ Refuse(w) \/ Normalize(w) \/ Look(w) \/ Invalidate(w) \/ Read(w)
             \/ Fill(w) \/ DecideUnchanged(w) \/ DecideSimulated(w) \/ Confirm(w)
             \/ VerifyConfirmed(w) \/ VerifyMismatch(w)
    BY <1>1, <2>2 DEF Validate, Refuse, Normalize, Look, Invalidate, Read, Fill, DecideUnchanged,
                      DecideSimulated, Confirm, VerifyConfirmed, VerifyMismatch, Steady
  <2>3. CASE UpdateReply(w)
    <3>1. ApplyLine => pc'[w] = "applying"
      BY <2>3 DEF UpdateReply, Proceed, TypeOK, WorkersTypeOK
    <3> QED BY <1>1, <2>3, <3>1 DEF UpdateReply, Steady, Applies
  <2>4. CASE UpdateFault(w)
    BY <1>1, <2>4 DEF UpdateFault, Steady
  <2>5. CASE Apply(w)
    BY <1>1, <2>5 DEF Apply, Steady
  <2>6. CASE Fail(w)
    <3>1. pc[w] \in {"updating", "applying"} => LineOfWorker(w) \in doubtful'
      BY <2>6 DEF Fail, InDoubt, Writing
    <3> QED BY <1>1, <2>6, <3>1 DEF Fail, Steady
  \* An attempt leaves: the first is awaited, the others put the line in doubt.
  <2>7. ASSUME NEW n \in Nat, SendUpdate(w, n), doubtful \subseteq doubtful', pc'[w] = "updating",
               \/ LineOfWorker(w) \in doubtful'
               \/ /\ pc[w] \notin {"updating", "applying"}
                  /\ \A x \in Workers \ {w} : At(x, "updating") => LatestUpdate(x) # UpdateRequest(w, n)
        PROVE  AppliedInv'
    <3> DEFINE m == UpdateRequest(w, n)
    <3>1. wire' = wire \cup {m} /\ unapplied' = unapplied
      BY <2>7 DEF SendUpdate
    <3>2. m.line = LineOfWorker(w)
      BY DEF UpdateRequest
    <3>3. LatestUpdate(w)' = m /\ LineOfWorker(w)' = LineOfWorker(w)
      BY <2>1, <2>7 DEF SendUpdate, LatestUpdate, UpdateRequest, LineOfWorker, Request,
                        TypeOK, WorkersTypeOK
    <3>4. ASSUME NEW x \in Workers, x # w
          PROVE  pc'[x] = pc[x] /\ LatestUpdate(x)' = LatestUpdate(x) /\ LineOfWorker(x)' = LineOfWorker(x)
      BY <3>4, HandleAlone DEF LatestUpdate, UpdateRequest, LineOfWorker
    <3>5. ASSUME NEW x \in Workers, x # w, At(x, "updating"), LineOfWorker(x) \notin doubtful'
          PROVE  LatestUpdate(x) # m
      <4>1. LatestUpdate(x).line = LineOfWorker(x)
        BY DEF LatestUpdate, UpdateRequest
      <4> QED BY <2>7, <3>2, <3>5, <4>1
    <3> HIDE DEF m
    <3>6. ASSUME NEW k \in wire', k.line \notin doubtful'
          PROVE  \E x \in Workers : At(x, "updating")' /\ LatestUpdate(x)' = k
      <4>1. CASE k = m
        BY <2>7, <3>3, <4>1
      <4>2. CASE k # m
        <5>1. PICK x \in Workers : At(x, "updating") /\ LatestUpdate(x) = k
          BY <2>7, <3>1, <3>6, <4>2 DEF AppliedInv, Awaited
        <5>2. LineOfWorker(x) = k.line
          BY <5>1 DEF LatestUpdate, UpdateRequest
        <5>3. x # w
          BY <2>7, <3>6, <5>1, <5>2
        <5> QED BY <3>4, <5>1, <5>3
      <4> QED BY <4>1, <4>2
    <3>7. ASSUME ApplyLine, NEW l \in unapplied', l \notin doubtful'
          PROVE  \E x \in Workers : LineOfWorker(x)' = l /\ Applies(x)'
      <4>1. PICK x \in Workers : LineOfWorker(x) = l /\ Applies(x)
        BY <2>7, <3>1, <3>7 DEF AppliedInv, ToBeApplied
      <4>2. x # w
        BY <2>7, <3>7, <4>1 DEF Applies
      <4> QED BY <3>1, <3>4, <3>5, <3>7, <4>1, <4>2 DEF Applies
    <3> QED BY <3>6, <3>7 DEF AppliedInv, Awaited, ToBeApplied
  <2>8. CASE UpdateRetry(w)
    <3>1. request[w].attempt + 1 \in Nat
      BY <2>1, ConstantsAssumption DEF Request
    <3> QED BY <2>7, <2>8, <3>1 DEF UpdateRetry
  <2>9. CASE DecideUpdate(w)
    <3>1. ASSUME NEW x \in Workers, x # w, At(x, "updating") PROVE LatestUpdate(x) # UpdateRequest(w, 1)
      <4>1. Changer(w) /\ Changer(x)
        BY <2>1, <2>9, <3>1 DEF DecideUpdate, Changer, Active, PathInv, OnPath, Writing
      <4>2. request[x].serial # request[w].serial
        BY <3>1, <4>1 DEF SerialInv
      <4> QED BY <4>2 DEF LatestUpdate, UpdateRequest
    <3>2. pc'[w] = "updating" /\ doubtful' = doubtful /\ SendUpdate(w, 1) /\ pc[w] = "deciding"
      BY <2>9 DEF DecideUpdate, Proceed, TypeOK, WorkersTypeOK
    <3> QED BY <2>7, <3>1, <3>2
  <2> QED BY <2>2, <2>3, <2>4, <2>5, <2>6, <2>8, <2>9 DEF Handle
<1>3. ASSUME NEW m \in wire, CucmUpdate(m) PROVE AppliedInv'
  <2>1. /\ wire' = wire \ {m} /\ unapplied' = unapplied \cup {m.line}
        /\ pc' = pc /\ request' = request /\ doubtful' = doubtful
    BY <1>3 DEF CucmUpdate
  <2>2. \A x \in Workers : LatestUpdate(x)' = LatestUpdate(x) /\ LineOfWorker(x)' = LineOfWorker(x)
                           /\ LatestUpdate(x).line = LineOfWorker(x)
    BY <2>1 DEF LatestUpdate, UpdateRequest, LineOfWorker
  <2> QED BY <2>1, <2>2 DEF AppliedInv, Awaited, ToBeApplied, Applies
<1>4. ASSUME NEW w \in Workers, Receive(w) PROVE AppliedInv'
  <2>1. wire' = wire /\ unapplied' = unapplied /\ doubtful' = doubtful
    BY <1>4 DEF Receive, ReceiveQuery, ReceiveChange, ReceiveMalformed, Accept
  <2>2. ASSUME NEW x \in Workers PROVE Steady(x)
    BY <1>4 DEF Receive, ReceiveQuery, ReceiveChange, ReceiveMalformed, Accept, Finish, Steady,
                TypeOK, WorkersTypeOK
  <2> QED BY <2>1, <2>2, SteadyStep
<1>5. ASSUME NEW p \in Processes, Restart(p) PROVE AppliedInv'
  <2>1. wire' = wire /\ unapplied' = unapplied /\ doubtful \subseteq doubtful'
    BY <1>5 DEF Restart
  <2>2. ASSUME NEW x \in Workers PROVE Steady(x)
    BY <1>5 DEF Restart, Steady, InDoubt, Writing
  <2> QED BY <2>1, <2>2, SteadyStep
<1>6. CASE \/ \E p \in Processes, d \in Devices : Expire(p, d)
           \/ \E l \in Lines : AdminEdit(l)
           \/ UNCHANGED vars
  BY <1>6, SteadyStep DEF Expire, AdminEdit, vars, workerVars, Steady
<1> QED BY <1>2, <1>3, <1>4, <1>5, <1>6 DEF Next

(***************************************************************************)
(* With applyLine configured a line is left unapplied only by a request    *)
(* that was repeated or not confirmed, however changes of it interleave    *)
(* (services.py:229, 368).                                                 *)
(***************************************************************************)
THEOREM AppliedOrDoubtful == Spec => []AppliedUnlessDoubtful
<1>1. Init => SerialInv /\ AppliedInv
  BY DEF Init, SerialInv, Changer, Active, AppliedInv, Awaited, ToBeApplied
<1>2. TypeOK /\ PathInv /\ SerialInv /\ AppliedInv /\ [Next]_vars => AppliedInv'
  BY AppliedStep
<1>3. AppliedInv => AppliedUnlessDoubtful
  BY DEF AppliedInv, ToBeApplied, AppliedUnlessDoubtful, Quiet, Applies, At, Active
<1>4. Spec => [](TypeOK /\ PathInv /\ SerialInv /\ AppliedInv)
  BY <1>1, <1>2, ServiceCorrect, SerialStep, PTL DEF Spec
<1> QED BY <1>3, <1>4, PTL

-----------------------------------------------------------------------------
(* Caches.  Where one process serves handsets that each have a line of their *)
(* own, make one request at a time and wait for its answer, and nobody else  *)
(* changes the lines: a handler is alone with its line, its cache entry and  *)
(* the update it has sent.                                                    *)

OneProcess == \A p, q \in Processes : p = q
OwnLines   == \A d, e \in Devices : LineOf[d] = LineOf[e] => d = e

\* No handset is served by two workers.
Alone == \A w, x \in Workers : Active(w) /\ Active(x) /\ request[w].device = request[x].device => w = x

\* The update of w is carried out, and the cache may not have it yet.
Owes(w) == \/ pc[w] \in {"applying", "confirming", "verifying"}
           \/ At(w, "updating") /\ LatestUpdate(w) \notin wire

\* What w has read is what its line is.
Holds(w) ==
  pc[w] \in {"filling", "deciding", "verifying"} /\ LineOfWorker(w) \notin doubtful
    => request[w].current = line[LineOfWorker(w)]

Excuses(p, d) ==
  LineOf[d] \notin doubtful
    => CacheAgrees(p, d) \/ \E w \in Workers : Active(w) /\ request[w].device = d /\ Owes(w)

StaleInv ==
  /\ budget.edits = 0
  /\ \A w \in Workers : Holds(w)
  /\ \A p \in Processes, d \in Devices : Excuses(p, d)

\* What a step of a handler has to leave, when no line changes.
LEMMA StaleHandle ==
  ASSUME TypeOK, PathInv, Alone, StaleInv, OwnLines, NEW w \in Workers, Handle(w),
         line' = line, doubtful \subseteq doubtful',
         \/ wire' \subseteq wire
         \/ \E n : wire' = wire \cup {UpdateRequest(w, n)},
         pc'[w] \in {"filling", "deciding", "verifying"} =>
           LineOfWorker(w) \in doubtful' \/ request'[w].current = line[LineOfWorker(w)],
         \A p \in Processes, d \in Devices \ {request[w].device} : cache'[p][d] = cache[p][d],
         \A p \in Processes :
           \/ LineOfWorker(w) \in doubtful'
           \/ cache'[p][request[w].device] \in {None, line[LineOfWorker(w)]}
           \/ /\ cache'[p][request[w].device] = cache[p][request[w].device]
              /\ Owes(w) => pc'[w] # "idle" /\ Owes(w)'
  PROVE  StaleInv'
<1>1. /\ pc[w] # "idle" /\ request[w].device \in Devices /\ budget' = budget
      /\ pc'[w] # "idle" => request'[w].device = request[w].device
  BY HandleActive, HandleGoesOn, HandleKeepsSerial
<1>2. ASSUME NEW x \in Workers, x # w
      PROVE  pc'[x] = pc[x] /\ request'[x] = request[x] /\ LatestUpdate(x)' = LatestUpdate(x)
  BY <1>2, HandleAlone DEF LatestUpdate, UpdateRequest, LineOfWorker
<1>3. ASSUME NEW x \in Workers, x # w, Active(x)
      PROVE  request[x].device # request[w].device /\ (Owes(x) => Owes(x)')
  <2>1. request[x].device # request[w].device
    BY <1>1, <1>3 DEF Alone, Active
  <2>2. LineOfWorker(x) # LineOfWorker(w)
    BY <1>1, <1>3, <2>1 DEF OwnLines, LineOfWorker, Active, TypeOK, WorkersTypeOK, Request
  <2>3. \A n : LatestUpdate(x) # UpdateRequest(w, n)
    BY <2>2 DEF LatestUpdate, UpdateRequest
  <2> QED BY <1>2, <1>3, <2>1, <2>3 DEF Owes, At
<1>4. ASSUME NEW x \in Workers PROVE Holds(x)'
  <2>1. CASE x = w
    BY <1>1, <2>1 DEF Holds, LineOfWorker
  <2>2. CASE x # w
    BY <1>2, <2>2 DEF StaleInv, Holds, LineOfWorker
  <2> QED BY <2>1, <2>2
<1>5. ASSUME NEW p \in Processes, NEW d \in Devices, LineOf[d] \notin doubtful'
      PROVE  CacheAgrees(p, d)' \/ \E x \in Workers : (Active(x) /\ request[x].device = d /\ Owes(x))'
  <2>1. LineOf[d] \notin doubtful /\ Excuses(p, d)
    BY <1>5 DEF StaleInv
  <2>2. CASE d # request[w].device
    <3>1. CASE CacheAgrees(p, d)
      BY <2>2, <3>1 DEF CacheAgrees
    <3>2. CASE \E x \in Workers : Active(x) /\ request[x].device = d /\ Owes(x)
      <4>1. PICK x \in Workers : Active(x) /\ request[x].device = d /\ Owes(x)
        BY <3>2
      <4> QED BY <1>2, <1>3, <2>2, <4>1 DEF Active
    <3> QED BY <2>1, <3>1, <3>2 DEF Excuses
  <2>3. CASE d = request[w].device
    <3>1. LineOfWorker(w) = LineOf[d]
      BY <2>3 DEF LineOfWorker
    <3>2. CASE cache'[p][d] \in {None, line[LineOf[d]]}
      BY <3>2 DEF CacheAgrees
    <3>3. CASE cache'[p][d] = cache[p][d] /\ (Owes(w) => pc'[w] # "idle" /\ Owes(w)')
      <4>1. CASE CacheAgrees(p, d)
        BY <3>3, <4>1 DEF CacheAgrees
      <4>2. CASE \E x \in Workers : Active(x) /\ request[x].device = d /\ Owes(x)
        <5>1. Owes(w)
          BY <1>3, <2>3, <4>2
        <5> QED BY <1>1, <2>3, <3>3, <5>1 DEF Active
      <4> QED BY <2>1, <4>1, <4>2 DEF Excuses
    <3> QED BY <1>5, <2>3, <3>1, <3>2, <3>3
  <2> QED BY <2>2, <2>3
<1> QED BY <1>1, <1>4, <1>5 DEF StaleInv, Excuses

LEMMA StaleStep ==
  ASSUME TypeOK, PathInv, AppliedInv, Alone, StaleInv, OneProcess, OwnLines, [Next]_vars
  PROVE  StaleInv'
<1> USE DEF At, Goto, cucmVars
<1>1. ASSUME NEW w \in Workers, Handle(w) PROVE StaleInv'
  <2> USE <1>1
  <2>1. /\ request[w] \in Request /\ request[w].device \in Devices /\ pc[w] # "idle" /\ Holds(w)
        /\ ProcessOf[w] \in Processes
    BY HandleActive, ConstantsAssumption DEF StaleInv
  \* The cache is left alone.
  <2>2. ASSUME cache' = cache, line' = line, doubtful \subseteq doubtful',
               wire' \subseteq wire \/ \E n : wire' = wire \cup {UpdateRequest(w, n)},
               \/ LineOfWorker(w) \in doubtful'
               \/ /\ Owes(w) => pc'[w] # "idle" /\ Owes(w)'
                  /\ pc'[w] \in {"filling", "deciding", "verifying"} =>
                       request'[w].current = line[LineOfWorker(w)]
        PROVE  StaleInv'
    BY <2>2, StaleHandle
  \* What the handler holds, or None, is stored, and the handler ends or goes on to read.
  <2>3. ASSUME NEW state, Store(w, state), state = None \/ (Holds(w) /\ state = request[w].current),
               state # None => pc[w] \in {"filling", "deciding", "verifying"},
               UNCHANGED <<line, wire, doubtful>>, pc'[w] \notin {"filling", "deciding", "verifying"}
        PROVE  StaleInv'
    <3>1. /\ \A p \in Processes : cache'[p][request[w].device] = state
          /\ \A p \in Processes, d \in Devices \ {request[w].device} : cache'[p][d] = cache[p][d]
      BY <2>1, <2>3 DEF Store, TypeOK, OneProcess
    <3>2. LineOfWorker(w) \in doubtful \/ state \in {None, line[LineOfWorker(w)]}
      BY <2>3 DEF Holds
    <3> QED BY <2>3, <3>1, <3>2, StaleHandle
  <2>4. CASE Validate(w) \/ Refuse(w) \/ Normalize(w) \/ Look(w)
    <3>1. request[w].op \in Operations
      BY <2>1 DEF Request
    <3>2. ~Owes(w) /\ pc'[w] \notin {"filling", "deciding", "verifying"}
      BY <2>4, <3>1 DEF Validate, Refuse, Normalize, Look, Proceed, Finish, Owes, Operations,
                 TypeOK, WorkersTypeOK
    <3> QED BY <2>2, <2>4, <3>2 DEF Validate, Refuse, Normalize, Look
  <2>5. CASE Invalidate(w)
    <3>1. pc'[w] = "reading"
      BY <2>5 DEF Invalidate, Proceed, TypeOK, WorkersTypeOK
    <3>2. Store(w, None) /\ UNCHANGED <<line, wire, doubtful>>
      BY <2>5 DEF Invalidate
    <3>3. pc'[w] \notin {"filling", "deciding", "verifying"}
      BY <3>1
    <3> QED BY <2>3, <3>2, <3>3
  <2>6. CASE Fill(w) \/ DecideUnchanged(w) \/ VerifyConfirmed(w)
    <3>1. pc'[w] = "idle"
      BY <2>6 DEF Fill, DecideUnchanged, VerifyConfirmed, Finish, TypeOK, WorkersTypeOK
    <3> QED BY <2>1, <2>3, <2>6, <3>1 DEF Fill, DecideUnchanged, VerifyConfirmed
  <2>7. CASE Read(w) \/ Confirm(w)
    <3>1. request'[w].current = line[LineOfWorker(w)]
      BY <2>1, <2>7 DEF Read, Confirm, GetLine, Request, TypeOK, WorkersTypeOK
    <3>2. Owes(w) => pc'[w] # "idle" /\ Owes(w)'
      BY <2>7 DEF Read, Confirm, Proceed, Owes, TypeOK, WorkersTypeOK
    <3> QED BY <2>2, <2>7, <3>1, <3>2 DEF Read, Confirm
  <2>8. CASE DecideSimulated(w) \/ UpdateFault(w)
    <3>1. ~Owes(w) /\ pc'[w] = "idle"
      BY <2>8 DEF DecideSimulated, UpdateFault, Finish, Owes, TypeOK, WorkersTypeOK
    <3> QED BY <2>2, <2>8, <3>1 DEF DecideSimulated, UpdateFault
  <2>9. CASE DecideUpdate(w)
    <3>1. ~Owes(w) /\ pc'[w] = "updating"
      BY <2>9 DEF DecideUpdate, Proceed, Owes, TypeOK, WorkersTypeOK
    <3> QED BY <2>2, <2>9, <3>1 DEF DecideUpdate, SendUpdate
  <2>10. CASE UpdateReply(w) \/ Apply(w)
    <3>1. pc'[w] \in {"applying", "confirming"}
      BY <2>10 DEF UpdateReply, Apply, Proceed, TypeOK, WorkersTypeOK
    <3> QED BY <2>2, <2>10, <3>1 DEF UpdateReply, Apply, Owes
  <2>11. CASE UpdateRetry(w) \/ VerifyMismatch(w)
    BY <2>2, <2>11 DEF UpdateRetry, SendUpdate, VerifyMismatch
  <2>12. CASE Fail(w)
    <3>1. pc'[w] = "idle"
      BY <2>12 DEF Fail, Finish, TypeOK, WorkersTypeOK
    <3>2. LineOfWorker(w) \in doubtful' \/ ~Owes(w)
      BY <2>12 DEF Fail, InDoubt, Writing, Owes
    <3> QED BY <2>2, <2>12, <3>1, <3>2 DEF Fail
  <2> QED BY <2>4, <2>5, <2>6, <2>7, <2>8, <2>9, <2>10, <2>11, <2>12 DEF Handle
<1>2. ASSUME NEW m \in wire, CucmUpdate(m) PROVE StaleInv'
  <2>1. /\ wire' = wire \ {m} /\ pc' = pc /\ request' = request /\ doubtful' = doubtful
        /\ cache' = cache /\ budget' = budget
        /\ \A l \in Lines : l # m.line => line'[l] = line[l]
    BY <1>2 DEF CucmUpdate, LineBecomes, TypeOK
  <2>2. \A x \in Workers : LatestUpdate(x)' = LatestUpdate(x) /\ LineOfWorker(x)' = LineOfWorker(x)
                           /\ LatestUpdate(x).line = LineOfWorker(x)
    BY <2>1 DEF LatestUpdate, UpdateRequest, LineOfWorker
  <2>3. \A x \in Workers : Active(x) => request[x].device \in Devices /\ LineOfWorker(x) \in Lines
    BY LineTyped DEF TypeOK, WorkersTypeOK, Active, Request
  <2>4. ASSUME NEW x \in Workers PROVE Holds(x)'
    <3> SUFFICES ASSUME pc[x] \in {"filling", "deciding", "verifying"}, LineOfWorker(x) \notin doubtful
                 PROVE  request[x].current = line'[LineOfWorker(x)]
      BY <2>1, <2>2 DEF Holds
    <3>1. LineOfWorker(x) # m.line
      <4> SUFFICES ASSUME LineOfWorker(x) = m.line PROVE FALSE
        OBVIOUS
      <4>1. PICK w \in Workers : At(w, "updating") /\ LatestUpdate(w) = m
        BY DEF AppliedInv, Awaited
      <4>2. request[w].device = request[x].device
        BY <2>2, <2>3, <4>1 DEF OwnLines, LineOfWorker, Active
      <4> QED BY <4>1, <4>2 DEF Alone, Active
    <3> QED BY <2>1, <2>3, <3>1 DEF StaleInv, Holds, Active
  <2>5. ASSUME NEW p \in Processes, NEW d \in Devices PROVE Excuses(p, d)'
    <3>1. LineOf[d] \in Lines
      BY ConstantsAssumption
    <3>2. CASE LineOf[d] = m.line /\ m.line \notin doubtful
      <4>1. PICK w \in Workers : At(w, "updating") /\ LatestUpdate(w) = m
        BY <3>2 DEF AppliedInv, Awaited
      <4>2. request[w].device = d
        BY <2>2, <2>3, <3>2, <4>1 DEF OwnLines, LineOfWorker, Active
      <4> QED BY <2>1, <2>2, <4>1, <4>2 DEF Excuses, Active, Owes
    <3>3. CASE LineOf[d] # m.line
      <4>1. \A x \in Workers : Owes(x) => Owes(x)'
        BY <2>1, <2>2 DEF Owes
      <4> QED BY <2>1, <3>1, <3>3, <4>1 DEF StaleInv, Excuses, CacheAgrees, Active
    <3> QED BY <2>1, <3>2, <3>3 DEF Excuses
  <2> QED BY <2>1, <2>4, <2>5 DEF StaleInv
\* Workers that were idle, or end, owe nothing that is not in doubt.
<1>3. ASSUME NEW w \in Workers, Receive(w) PROVE StaleInv'
  <2>1. /\ pc[w] = "idle" /\ pc'[w] \notin {"filling", "deciding", "verifying"}
        /\ \A x \in Workers \ {w} : pc'[x] = pc[x] /\ request'[x] = request[x]
        /\ UNCHANGED <<line, wire, cache, doubtful>> /\ budget'.edits = budget.edits
    BY <1>3 DEF Receive, ReceiveQuery, ReceiveChange, ReceiveMalformed, Accept, Finish,
                TypeOK, WorkersTypeOK
  <2>2. \A x \in Workers \ {w} : LatestUpdate(x)' = LatestUpdate(x)
    BY <2>1 DEF LatestUpdate, UpdateRequest, LineOfWorker
  <2> QED BY <2>1, <2>2 DEF StaleInv, Holds, Excuses, CacheAgrees, Owes, Active, LineOfWorker
<1>4. ASSUME NEW p \in Processes, Restart(p) PROVE StaleInv'
  <2>1. /\ doubtful \subseteq doubtful' /\ budget'.edits = budget.edits /\ UNCHANGED <<line, wire>>
        /\ \A q \in Processes, d \in Devices : cache'[q][d] \in {None, cache[q][d]}
    BY <1>4 DEF Restart, TypeOK
  <2>2. \A x \in Workers : pc'[x] = "idle" \/ (pc'[x] = pc[x] /\ request'[x] = request[x])
    BY <1>4 DEF Restart
  <2>3. \A x \in Workers : Active(x) /\ Owes(x) /\ pc'[x] = "idle" => LineOfWorker(x) \in doubtful'
    BY <1>4 DEF Restart, InDoubt, Writing, Owes, Active
  <2>4. \A x \in Workers : request'[x] = request[x] => LatestUpdate(x)' = LatestUpdate(x)
    BY DEF LatestUpdate, UpdateRequest, LineOfWorker
  <2>5. ASSUME NEW x \in Workers PROVE Holds(x)'
    BY <2>1, <2>2 DEF StaleInv, Holds, LineOfWorker
  <2>6. ASSUME NEW q \in Processes, NEW d \in Devices PROVE Excuses(q, d)'
    BY <2>1, <2>2, <2>3, <2>4 DEF StaleInv, Excuses, CacheAgrees, Owes, Active, LineOfWorker
  <2> QED BY <2>1, <2>5, <2>6 DEF StaleInv
<1>5. ASSUME NEW p \in Processes, NEW d \in Devices, Expire(p, d) PROVE StaleInv'
  <2>1. /\ UNCHANGED <<line, wire, doubtful, pc, request, budget>>
        /\ \A q \in Processes, e \in Devices : cache'[q][e] \in {None, cache[q][e]}
    BY <1>5 DEF Expire, workerVars, TypeOK
  <2>2. \A x \in Workers : LatestUpdate(x)' = LatestUpdate(x)
    BY <2>1 DEF LatestUpdate, UpdateRequest, LineOfWorker
  <2> QED BY <2>1, <2>2 DEF StaleInv, Holds, Excuses, CacheAgrees, Owes, Active, LineOfWorker
<1>6. ASSUME NEW l \in Lines, AdminEdit(l) PROVE FALSE
  BY <1>6 DEF AdminEdit, StaleInv
<1>7. CASE UNCHANGED vars
  BY <1>7 DEF vars, workerVars, StaleInv, Holds, Excuses, CacheAgrees, Owes, Active, LineOfWorker,
              LatestUpdate, UpdateRequest
<1> QED BY <1>1, <1>2, <1>3, <1>4, <1>5, <1>6, <1>7 DEF Next

-----------------------------------------------------------------------------
(* Handsets that never give up: every request in progress is awaited by the  *)
(* handset it is for, so that no handset has two.                             *)

AwaitedInv ==
  /\ abandons = 0
  /\ \A w \in Workers : Active(w) =>
       pending[request[w].device] # None /\ pending[request[w].device].worker = w

LEMMA AwaitedStep ==
  ASSUME HandsetInv, PathInv, AwaitedInv, [HandsetsNext]_<<vars, handsetVars>>
  PROVE  AwaitedInv'
<1> USE DEF HandsetInv, HandsetsTypeOK, TypeOK, WorkersTypeOK, Active
<1>1. ASSUME NEW d \in Devices, NEW w \in Workers, NEW url \in Urls, Press(d, w, url) PROVE AwaitedInv'
  <2>1. /\ pc[w] = "idle" /\ pending[d] = None /\ request'[w].device = d
        /\ \A x \in Workers \ {w} : pc'[x] = pc[x] /\ request'[x] = request[x]
    BY <1>1 DEF Press, ReceiveQuery, ReceiveChange, Accept, At, Goto
  <2>2. /\ pending'[d] = [worker |-> w, url |-> url] /\ abandons' = abandons
        /\ \A e \in Devices \ {d} : pending'[e] = pending[e]
    BY <1>1 DEF Press
  <2>3. pending'[d] # None
    BY <2>2, NoneAssumption DEF Pending
  <2> QED BY <2>1, <2>2, <2>3 DEF AwaitedInv, Request
<1>2. ASSUME NEW d \in Devices, NEW w \in Workers, EnterMalformed(d, w) PROVE AwaitedInv'
  BY <1>2 DEF EnterMalformed, ReceiveMalformed, Finish, Goto, AwaitedInv
<1>3. ASSUME NEW d \in Devices, Leave(d) PROVE AwaitedInv'
  BY <1>3 DEF Leave, vars, workerVars, AwaitedInv
<1>4. ASSUME NEW d \in Devices, Abandon(d) PROVE FALSE
  BY <1>4 DEF Abandon, AwaitedInv
<1>5. ASSUME NEW w \in Workers, Serve(w) PROVE AwaitedInv'
  <2>1. Handle(w) /\ abandons' = abandons
    BY <1>5 DEF Serve
  <2>2. /\ pc[w] # "idle" /\ request[w].device \in Devices
        /\ pc'[w] # "idle" => request'[w].device = request[w].device
        /\ \A x \in Workers \ {w} : pc'[x] = pc[x] /\ request'[x] = request[x]
    BY <2>1, HandleActive, HandleGoesOn, HandleAlone
  <2>3. CASE pc'[w] = "idle"
    <3>1. \A e \in Devices \ {request[w].device} : pending'[e] = pending[e]
      BY <1>5 DEF Serve, Show
    <3>2. ASSUME NEW x \in Workers, pc'[x] # "idle"
          PROVE  x # w /\ request[x].device \in Devices \ {request[w].device}
      BY <2>2, <2>3, <3>2 DEF AwaitedInv, Request
    <3> QED BY <2>1, <2>2, <2>3, <3>1, <3>2 DEF AwaitedInv
  <2>4. CASE pc'[w] # "idle"
    <3>1. pending' = pending
      BY <1>5, <2>4 DEF Serve
    <3> QED BY <2>1, <2>2, <2>4, <3>1 DEF AwaitedInv
  <2> QED BY <2>3, <2>4
<1>6. ASSUME NEW p \in Processes, Crash(p) PROVE AwaitedInv'
  <2>1. \A x \in Workers : pc'[x] # "idle" =>
          pc'[x] = pc[x] /\ request'[x] = request[x] /\ ProcessOf[x] # p
    BY <1>6 DEF Crash, Restart
  <2>2. \A d \in Devices : pending'[d] = pending[d] \/ (Waits(d, {w \in Workers : ProcessOf[w] = p}))
    BY <1>6 DEF Crash
  <2> QED BY <1>6, <2>1, <2>2 DEF Crash, Waits, AwaitedInv, Request
<1>7. CASE Background
  BY <1>7 DEF Background, handsetVars, CucmUpdate, Expire, AdminEdit, workerVars, AwaitedInv
<1>8. CASE UNCHANGED <<vars, handsetVars>>
  BY <1>8 DEF vars, workerVars, handsetVars, AwaitedInv
<1> QED BY <1>1, <1>2, <1>3, <1>4, <1>5, <1>6, <1>7, <1>8 DEF HandsetsNext

(***************************************************************************)
(* In one process, with handsets that wait for each answer, a line each,   *)
(* and lines nobody else changes, a cache disagrees with CUCM only about a *)
(* line an updateLine was repeated on or not confirmed for                 *)
(* (services.py:236-245, 375-384), whatever fails and is restarted.        *)
(***************************************************************************)
THEOREM StaleOrDoubtful ==
  ASSUME OneProcess, OwnLines, MaxEdits = 0, MaxAbandons = 0
  PROVE  HandsetsSpec => []StaleOnlyIfDoubtful
<1>1. HandsetsInit => SerialInv /\ AppliedInv /\ AwaitedInv /\ StaleInv
  <2> SUFFICES ASSUME HandsetsInit PROVE SerialInv /\ AppliedInv /\ AwaitedInv /\ StaleInv
    OBVIOUS
  <2> USE DEF HandsetsInit, Init, Active
  <2>1. SerialInv /\ AppliedInv /\ AwaitedInv
    BY DEF SerialInv, Changer, AppliedInv, Awaited, ToBeApplied, AwaitedInv
  <2>2. StaleInv
    BY DEF StaleInv, Holds, Excuses, CacheAgrees
  <2> QED BY <2>1, <2>2
<1>2. AwaitedInv => Alone
  BY DEF AwaitedInv, Alone
<1>3. TypeOK /\ PathInv /\ SerialInv /\ AppliedInv /\ Alone /\ StaleInv /\ [Next]_vars => AppliedInv' /\ StaleInv'
  BY AppliedStep, StaleStep
<1>4. HandsetInv /\ PathInv /\ AwaitedInv /\ [HandsetsNext]_<<vars, handsetVars>> => AwaitedInv'
  BY AwaitedStep
<1>5. HandsetInv => TypeOK
  BY DEF HandsetInv, HandsetsTypeOK
<1>6. StaleInv => StaleOnlyIfDoubtful
  BY DEF StaleInv, Excuses, StaleOnlyIfDoubtful, Quiet
<1>7. HandsetsSpec => [](HandsetInv /\ PathInv)
  BY HandsetsCorrect, PTL
<1> QED BY <1>1, <1>2, <1>3, <1>4, <1>5, <1>6, <1>7, SerialStep, ServiceStep, PTL DEF HandsetsSpec

=============================================================================
