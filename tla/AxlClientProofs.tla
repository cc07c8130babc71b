--------------------------- MODULE AxlClientProofs ---------------------------
(***************************************************************************)
(* Theorems about AxlClient, for any number of calls, versions, schemas    *)
(* and attempts: types, what the service can be bound to, that failures    *)
(* are not remembered, and that each call is one AxlCall promises.         *)
(*                                                                         *)
(* All rest on Inv, which says what each call may rely on where it is: the *)
(* attributes it reads back from the object have been set, if perhaps by   *)
(* another call, and the requests it has sent are the attempts it counts.  *)
(***************************************************************************)
EXTENDS AxlClient, TLAPS

\* What the call c has found, by where it is.
FoundBy(c) ==
  /\ pc[c] = "detecting" => answered[c] # None
  /\ pc[c] \in {"resolving", "locating", "building", "binding"} => detected # None
  /\ pc[c] \in {"locating", "building", "binding"} => schema # None
  /\ pc[c] \in {"building", "binding"} => wsdl # None
  /\ pc[c] = "binding" => client # None

\* The requests it has sent, by where it is.
Counted(c) ==
  CASE pc[c] = "attempting" -> inflight[c] + performed[c] = attempt[c]
    [] pc[c] = "done"       -> inflight[c] + performed[c] <= MaxAttempts
    [] OTHER                -> inflight[c] = 0 /\ performed[c] = 0

Inv == /\ TypeOK
       /\ \A c \in Calls : /\ FoundBy(c)
                           /\ Counted(c)
                           /\ pc[c] = "done" <=> outcome[c] # "none"

LEMMA InvInit == Init => Inv
  BY ConstantsAssumption DEF Init, Inv, TypeOK, Labels, FoundBy, Counted

LEMMA InvStep == Inv /\ [Next]_vars => Inv'
<1> SUFFICES ASSUME Inv, [Next]_vars PROVE Inv'
  OBVIOUS
<1> USE ConstantsAssumption DEF Inv, TypeOK, Labels, Goto, At, attributes, history, bounds
<1>1. CASE UNCHANGED vars
  BY <1>1 DEF vars, callVars, FoundBy, Counted
<1>2. CASE Upgrade
  BY <1>2 DEF Upgrade, callVars, FoundBy, Counted
<1>3. ASSUME NEW c \in Calls, Call(c) PROVE Inv'
  BY <1>3 DEF Call, FoundBy, Counted
<1>4. ASSUME NEW c \in Calls, Perform(c) PROVE Inv'
  BY <1>4 DEF Perform, FoundBy, Counted
<1>5. ASSUME NEW c \in Calls, Step(c) PROVE Inv'
  <2>1. CASE Ensure(c)
    BY <2>1 DEF Ensure, Attempt, FoundBy, Counted
  <2>2. CASE Discover(c)
    BY <2>2 DEF Discover, FoundBy, Counted
  <2>3. CASE DiscoverTransient(c)
    BY <2>3 DEF DiscoverTransient, FailureHappens, End, FoundBy, Counted
  <2>4. CASE DiscoverPermanent(c)
    BY <2>4 DEF DiscoverPermanent, FailureHappens, End, FoundBy, Counted
  <2>5. CASE Detect(c)
    BY <2>5 DEF Detect, FoundBy, Counted
  <2>6. CASE Resolve(c)
    BY <2>6 DEF Resolve, End, FoundBy, Counted
  <2>7. CASE Locate(c)
    BY <2>7 DEF Locate, End, FoundBy, Counted
  <2>8. CASE Build(c)
    <3>1. CASE End(c, "escaped") /\ UNCHANGED client
      BY <2>8, <3>1 DEF Build, End, FoundBy, Counted
    <3>2. CASE client' = wsdl /\ Goto(c, "binding") /\ UNCHANGED outcome
      BY <2>8, <3>2 DEF Build, FoundBy, Counted
    <3> QED BY <2>8, <3>1, <3>2 DEF Build
  <2>9. CASE Bind(c)
    BY <2>9 DEF Bind, Attempt, End, FoundBy, Counted
  <2>10. CASE Succeed(c)
    BY <2>10 DEF Succeed, End, FoundBy, Counted
  <2>11. CASE Refuse(c)
    BY <2>11 DEF Refuse, FailureHappens, End, FoundBy, Counted
  <2>12. CASE Retry(c)
    BY <2>12 DEF Retry, FailureHappens, Attempt, End, FoundBy, Counted
  <2>13. CASE Cut(c)
    BY <2>13 DEF Cut, FailureHappens, End, FoundBy, Counted
  <2>14. CASE Misread(c)
    BY <2>14 DEF Misread, FailureHappens, End, FoundBy, Counted
  <2> QED BY <1>5, <2>1, <2>2, <2>3, <2>4, <2>5, <2>6, <2>7, <2>8, <2>9, <2>10, <2>11, <2>12, <2>13, <2>14
         DEF Step
<1> QED BY <1>1, <1>2, <1>3, <1>4, <1>5 DEF Next

(***************************************************************************)
(* Every attribute and every counter keeps its type: a call that reads an  *)
(* attribute back finds a value there, and no call is sent more than       *)
(* MaxAttempts times.                                                      *)
(***************************************************************************)
THEOREM TypeCorrect == Spec => []TypeOK
<1>1. Inv => TypeOK
  BY DEF Inv
<1> QED BY <1>1, InvInit, InvStep, PTL DEF Spec

-----------------------------------------------------------------------------
(* What the service is bound to *)

\* A version that CUCM has reported maps to the schema s.
Fits(s) == \E v \in reported : SchemaOf[v] = s

\* What one call has put into an attribute, or is about to, another may read back.
FitsInv ==
  /\ \A c \in Calls : pc[c] = "detecting" => answered[c] \in reported
  /\ detected = None \/ detected \in reported
  /\ \A s \in {schema, wsdl, client, service} : s = None \/ Fits(s)
  /\ service = None \/ service \in Usable

LEMMA FitsStep == Inv /\ FitsInv /\ [Next]_vars => FitsInv'
<1> SUFFICES ASSUME Inv, FitsInv, [Next]_vars PROVE FitsInv'
  OBVIOUS
<1> USE DEF Inv, TypeOK, Goto, At, attributes, history, callVars
<1>1. CASE UNCHANGED <<attributes, reported, answered>> /\ \A c \in Calls : pc'[c] = "detecting" => pc[c] = "detecting"
  BY <1>1 DEF FitsInv, Fits
<1>2. ASSUME NEW c \in Calls, Discover(c) PROVE FitsInv'
  <2>1. reported \subseteq reported' /\ UNCHANGED attributes
    BY <1>2 DEF Discover
  <2>2. answered'[c] \in reported' /\ \A d \in Calls \ {c} : answered'[d] = answered[d] /\ pc'[d] = pc[d]
    BY <1>2 DEF Discover
  <2> QED BY <2>1, <2>2 DEF FitsInv, Fits
<1>3. ASSUME NEW c \in Calls, Detect(c) PROVE FitsInv'
  BY <1>3 DEF Detect, FitsInv, Fits
<1>4. ASSUME NEW c \in Calls, Resolve(c) PROVE FitsInv'
  <2>1. UNCHANGED <<detected, wsdl, client, service, reported, answered>>
        /\ \A d \in Calls : pc'[d] = "detecting" => pc[d] = "detecting"
    BY <1>4 DEF Resolve, End
  <2>2. schema' = schema \/ Fits(schema')
    <3>1. detected \in reported
      BY <1>4 DEF FoundBy, Resolve, FitsInv
    <3> QED BY <1>4, <3>1 DEF Resolve, Fits
  <2> QED BY <2>1, <2>2 DEF FitsInv, Fits
<1>5. ASSUME NEW c \in Calls, Locate(c) PROVE FitsInv'
  BY <1>5 DEF Locate, End, FitsInv, Fits
<1>6. ASSUME NEW c \in Calls, Build(c) PROVE FitsInv'
  BY <1>6 DEF Build, End, FitsInv, Fits
<1>7. ASSUME NEW c \in Calls, Bind(c) PROVE FitsInv'
  BY <1>7 DEF Bind, Attempt, End, FitsInv, Fits
<1>8. ASSUME NEW c \in Calls, Call(c) \/ Perform(c) PROVE FitsInv'
  BY <1>1, <1>8 DEF Call, Perform
<1>9. ASSUME NEW c \in Calls, Ensure(c) \/ DiscoverTransient(c) \/ DiscoverPermanent(c) PROVE FitsInv'
  BY <1>1, <1>9 DEF Ensure, Attempt, DiscoverTransient, DiscoverPermanent, End
<1>10. ASSUME NEW c \in Calls, Succeed(c) \/ Refuse(c) \/ Retry(c) \/ Cut(c) \/ Misread(c) PROVE FitsInv'
  BY <1>1, <1>10 DEF Succeed, Refuse, Retry, Cut, Misread, Attempt, End
<1>11. CASE Upgrade \/ UNCHANGED vars
  BY <1>1, <1>11 DEF Upgrade, vars
<1> QED BY <1>2, <1>3, <1>4, <1>5, <1>6, <1>7, <1>8, <1>9, <1>10, <1>11 DEF Next, Step

(***************************************************************************)
(* However calls interleave in _ensure_service, for any number of them and *)
(* of upgrades, the service is bound to a usable schema of a version that  *)
(* CUCM has reported: what calls read of each other's attributes may be of *)
(* another version than they found out, but never of none                  *)
(* (cucm_axl_client.py:285-309).                                           *)
(***************************************************************************)
THEOREM ServiceBound == Spec => []ServiceFits
<1>1. Init => FitsInv
  BY DEF Init, FitsInv
<1>2. FitsInv => ServiceFits
  BY DEF FitsInv, ServiceFits, Fits
<1> QED BY <1>1, <1>2, InvInit, InvStep, FitsStep, PTL DEF Spec

-----------------------------------------------------------------------------
(* Failures *)

\* Until CUCM is upgraded all that was found out is about the version it runs,
\* and a call without an excuse is made to a version that is supported.
OneVersionInv ==
  /\ detected \in {None, version}
  /\ {schema, wsdl, client} \subseteq {None, SchemaOf[version]}
  /\ \A c \in Calls :
       /\ answered[c] \in {None, version}
       /\ pc[c] # "new" => Supported(version) \/ excused[c]
       /\ outcome[c] \in {"error", "escaped"} => excused[c]

ForgottenInv == upgrades = MaxUpgrades => OneVersionInv

LEMMA ForgottenStep == Inv /\ ForgottenInv /\ [Next]_vars => ForgottenInv'
<1> SUFFICES ASSUME Inv, ForgottenInv, [Next]_vars, upgrades' = MaxUpgrades PROVE OneVersionInv'
  BY DEF ForgottenInv
<1> USE ConstantsAssumption DEF Inv, TypeOK, Labels, Goto, At, Running, attributes, history, bounds
<1>1. upgrades = MaxUpgrades /\ version' = version
  BY DEF Next, Call, Perform, Step, Ensure, Discover, DiscoverTransient, DiscoverPermanent, Detect,
         Resolve, Locate, Build, Bind, Succeed, Refuse, Retry, Cut, Misread, Upgrade, FailureHappens, vars
<1>2. OneVersionInv
  BY <1>1 DEF ForgottenInv
<1> USE <1>1, <1>2 DEF OneVersionInv
<1>3. CASE UNCHANGED vars
  BY <1>3 DEF vars, callVars, Supported
<1>4. ~Upgrade
  BY DEF Upgrade
<1>5. ASSUME NEW c \in Calls, Call(c) PROVE OneVersionInv'
  BY <1>5 DEF Call, Supported
<1>6. ASSUME NEW c \in Calls, Perform(c) PROVE OneVersionInv'
  BY <1>6 DEF Perform, Supported
<1>7. ASSUME NEW c \in Calls, Step(c) PROVE OneVersionInv'
  <2>1. CASE Ensure(c) \/ Discover(c) \/ Detect(c) \/ Succeed(c)
    BY <2>1 DEF Ensure, Discover, Detect, Succeed, Attempt, End, Supported
  <2>2. CASE DiscoverTransient(c) \/ DiscoverPermanent(c)
    BY <2>2 DEF DiscoverTransient, DiscoverPermanent, FailureHappens, End, Supported
  <2>3. CASE Refuse(c) \/ Retry(c)
    BY <2>3 DEF Refuse, Retry, FailureHappens, Attempt, End, Supported
  <2>8. CASE Cut(c) \/ Misread(c)
    BY <2>8 DEF Cut, Misread, FailureHappens, End, Supported
  <2>4. CASE Resolve(c)
    <3>1. detected = version
      BY <2>4 DEF Resolve, FoundBy
    <3> QED BY <2>4, <3>1 DEF Resolve, End, Supported
  <2>5. CASE Locate(c)
    <3>1. schema = SchemaOf[version]
      BY <2>5 DEF Locate, FoundBy
    <3> QED BY <2>5, <3>1 DEF Locate, End, Supported
  <2>6. CASE Build(c)
    <3>1. wsdl = SchemaOf[version]
      BY <2>6 DEF Build, FoundBy
    <3> QED BY <2>6, <3>1 DEF Build, End, Supported
  <2>7. CASE Bind(c)
    <3>1. client = SchemaOf[version]
      BY <2>7 DEF Bind, FoundBy
    <3> QED BY <2>7, <3>1 DEF Bind, Attempt, End, Supported
  <2> QED BY <1>7, <2>1, <2>2, <2>3, <2>4, <2>5, <2>6, <2>7, <2>8 DEF Step
<1> QED BY <1>3, <1>4, <1>5, <1>6, <1>7 DEF Next

(***************************************************************************)
(* As long as CUCM is not upgraded a call fails only if something failed   *)
(* while it was under way, or no usable schema fits the version CUCM runs. *)
(***************************************************************************)
THEOREM FailuresForgotten == Spec => []FailuresAreForgotten
<1>1. Init => ForgottenInv
  BY DEF Init, ForgottenInv, OneVersionInv
<1>2. ForgottenInv => FailuresAreForgotten
  BY DEF ForgottenInv, OneVersionInv, FailuresAreForgotten
<1> QED BY <1>1, <1>2, InvInit, InvStep, ForgottenStep, PTL DEF Spec

-----------------------------------------------------------------------------
(* Refinement *)

\* result of the refinement mapping
Result == [c \in Calls |-> CASE outcome[c] = "none" -> "pending"
                             [] outcome[c] = "ok"   -> "ok"
                             [] OTHER               -> "error"]
Sent == [c \in Calls |-> inflight[c] + performed[c]]

LEMMA AbstractStep == Inv /\ [Next]_vars => [Abstract!Next]_(Abstract!vars)
<1> SUFFICES ASSUME Inv, [Next]_vars PROVE [Abstract!Next]_(Abstract!vars)
  OBVIOUS
<1> USE ConstantsAssumption DEF Inv, TypeOK, Labels, Goto, At
<1> DEFINE unchanged == UNCHANGED <<Result, Sent, performed>>
<1>1. unchanged => [Abstract!Next]_(Abstract!vars)
  BY DEF Abstract!vars, Result, Sent
<1>2. CASE UNCHANGED <<outcome, inflight, performed>>
  BY <1>1, <1>2 DEF Result, Sent
<1>3. ASSUME NEW c \in Calls, Attempt(c, attempt'[c]), UNCHANGED <<outcome, performed>>,
             pc[c] # "done", inflight[c] + performed[c] < MaxAttempts
      PROVE  Abstract!Send(c)
  <2>1. inflight' = [inflight EXCEPT ![c] = @ + 1]
    BY <1>3 DEF Attempt
  <2>2. Sent' = [Sent EXCEPT ![c] = @ + 1]
    <3>1. inflight[c] \in Nat /\ performed[c] \in Nat
      OBVIOUS
    <3>2. inflight'[c] + performed'[c] = inflight[c] + performed[c] + 1
      BY <1>3, <2>1, <3>1
    <3>3. \A d \in Calls \ {c} : inflight'[d] + performed'[d] = inflight[d] + performed[d]
      BY <1>3, <2>1
    <3> QED BY <3>2, <3>3 DEF Sent
  <2>3. Result' = Result /\ Result[c] = "pending" /\ Sent[c] < MaxAttempts
    BY <1>3 DEF Result, Sent
  <2> QED BY <1>3, <2>2, <2>3 DEF Abstract!Send, Result, Sent
<1>4. ASSUME NEW c \in Calls, Perform(c) PROVE Abstract!Perform(c)
  BY <1>4 DEF Perform, Abstract!Perform
<1>5. ASSUME NEW c \in Calls, NEW r \in {"ok", "error", "escaped"}, End(c, r), pc[c] # "done",
             UNCHANGED <<inflight, performed>>, r = "ok" => performed[c] > 0
      PROVE  Abstract!Return(c, IF r = "ok" THEN "ok" ELSE "error")
  BY <1>5 DEF End, Abstract!Return
<1>6. ASSUME NEW c \in Calls, Step(c) PROVE [Abstract!Next]_(Abstract!vars)
  <2> USE DEF Abstract!Next
  <2>1. CASE Discover(c) \/ Detect(c)
    BY <1>2, <2>1 DEF Discover, Detect
  <2>2. CASE Ensure(c) \/ Bind(c)
    BY <1>2, <1>3, <1>5, <2>2 DEF Ensure, Bind, Attempt, Counted
  <2>3. CASE DiscoverTransient(c) \/ DiscoverPermanent(c)
    BY <1>2, <1>5, <2>3 DEF DiscoverTransient, DiscoverPermanent
  <2>4. CASE Resolve(c) \/ Locate(c) \/ Build(c)
    BY <1>2, <1>5, <2>4 DEF Resolve, Locate, Build
  <2>5. CASE Succeed(c) \/ Refuse(c) \/ Cut(c) \/ Misread(c)
    BY <1>5, <2>5 DEF Succeed, Refuse, Cut, Misread
  <2>6. CASE Retry(c)
    BY <1>3, <1>5, <2>6 DEF Retry, Attempt, Counted
  <2> QED BY <1>6, <2>1, <2>2, <2>3, <2>4, <2>5, <2>6 DEF Step
<1>7. ASSUME NEW c \in Calls, Call(c) PROVE [Abstract!Next]_(Abstract!vars)
  BY <1>2, <1>7 DEF Call
<1>8. CASE Upgrade \/ UNCHANGED vars
  BY <1>2, <1>8 DEF Upgrade, vars, callVars
<1> QED BY <1>4, <1>6, <1>7, <1>8 DEF Next, Abstract!Next

(***************************************************************************)
(* Each call of the client is one AxlCall promises: sent at most           *)
(* MaxAttempts times, and successful only when CUCM has carried it out.    *)
(***************************************************************************)
THEOREM ClientImplementsAxlCall == Spec => ImplementsAxlCall
<1>1. Init => Abstract!Init
  BY DEF Init, Abstract!Init
<1> QED BY <1>1, InvInit, InvStep, AbstractStep, PTL DEF Spec, ImplementsAxlCall, Abstract!Spec

-----------------------------------------------------------------------------
(* The steps of a call *)

LEMMA StepsTyped ==
  ASSUME TypeOK, NEW c \in Calls
  PROVE  /\ StepsLeft(c) \in 0..(7 + 2 * MaxAttempts)
         /\ ~At(c, "done") => StepsLeft(c) > 0
<1>1. /\ MaxAttempts \in Nat /\ MaxAttempts - attempt[c] \in 0..MaxAttempts
      /\ pc[c] \in Labels
  BY ConstantsAssumption DEF TypeOK
<1>2. pc[c] \in Labels \ {"done"} => StepsLeft(c) \in 1..(7 + 2 * MaxAttempts)
  <2>1. CASE pc[c] = "attempting"
    BY <1>1, <2>1 DEF StepsLeft
  <2>2. CASE pc[c] = "discovering"
    BY <1>1, <2>2 DEF StepsLeft
  <2>3. CASE pc[c] \in {"detecting", "resolving", "locating", "building", "binding"}
    <3>1. StepsLeft(c) \in {5 + MaxAttempts, 4 + MaxAttempts, 3 + MaxAttempts,
                           2 + MaxAttempts, 1 + MaxAttempts}
      BY <2>3 DEF StepsLeft
    <3> QED BY <1>1, <3>1
  <2>4. CASE pc[c] \in {"new", "ensuring"}
    <3>1. StepsLeft(c) \in {6 + 2 * MaxAttempts, 7 + 2 * MaxAttempts}
      BY <2>4 DEF StepsLeft
    <3> QED BY <1>1, <3>1
  <2> QED BY <2>1, <2>2, <2>3, <2>4 DEF Labels
<1>3. pc[c] = "done" => StepsLeft(c) = 0
  BY DEF StepsLeft
<1> QED BY <1>1, <1>2, <1>3 DEF At, Labels

\* Each step of a call leaves it fewer.
LEMMA StepRunsOut ==
  ASSUME TypeOK, NEW c \in Calls, Call(c) \/ Step(c)
  PROVE  StepsLeft(c)' < StepsLeft(c)
<1> DEFINE n == StepsLeft(c)
<1> USE DEF TypeOK, Goto, At
<1>1. MaxAttempts \in Nat \ {0} /\ attempt[c] \in 0..MaxAttempts
  BY ConstantsAssumption
<1>2. ASSUME pc[c] # "done", NEW result, End(c, result) PROVE n' < n
  <2>1. n' = 0
    BY <1>2 DEF End, StepsLeft
  <2> QED BY <1>2, <2>1, StepsTyped
<1>3. CASE Call(c)
  BY <1>1, <1>3 DEF Call, StepsLeft
<1>4. CASE Ensure(c)
  <2>1. attempt'[c] = 1 /\ pc[c] = "ensuring" /\ pc'[c] \in {"attempting", "discovering"}
    BY <1>4 DEF Ensure, Attempt
  <2> QED BY <1>1, <2>1 DEF StepsLeft
<1>5. CASE Discover(c) \/ Detect(c)
  BY <1>1, <1>5 DEF Discover, Detect, StepsLeft
<1>6. CASE Resolve(c) \/ Locate(c) \/ Build(c)
  <2>1. CASE End(c, "error") \/ End(c, "escaped")
    BY <1>2, <1>6, <2>1 DEF Resolve, Locate, Build
  <2>2. CASE \/ pc[c] = "resolving" /\ Goto(c, "locating")
             \/ pc[c] = "locating" /\ Goto(c, "building")
             \/ pc[c] = "building" /\ Goto(c, "binding")
    BY <1>1, <2>2 DEF StepsLeft
  <2> QED BY <1>6, <2>1, <2>2 DEF Resolve, Locate, Build
<1>7. CASE Bind(c)
  <2>1. CASE End(c, "escaped")
    BY <1>2, <1>7, <2>1 DEF Bind
  <2>2. CASE Attempt(c, 1)
    <3>1. attempt'[c] = 1 /\ pc[c] = "binding" /\ pc'[c] = "attempting"
      BY <1>7, <2>2 DEF Bind, Attempt
    <3> QED BY <1>1, <3>1 DEF StepsLeft
  <2> QED BY <1>7, <2>1, <2>2 DEF Bind
<1>8. CASE DiscoverTransient(c) \/ Retry(c)
  <2>1. CASE End(c, "error")
    BY <1>2, <1>8, <2>1 DEF DiscoverTransient, Retry
  <2>2. CASE attempt'[c] = attempt[c] + 1 /\ pc'[c] = pc[c] /\ attempt[c] < MaxAttempts
    BY <1>1, <1>8, <2>2 DEF DiscoverTransient, Retry, StepsLeft
  <2> QED BY <1>8, <2>1, <2>2 DEF DiscoverTransient, Retry, Attempt
<1>9. CASE DiscoverPermanent(c) \/ Succeed(c) \/ Refuse(c) \/ Cut(c) \/ Misread(c)
  BY <1>2, <1>9 DEF DiscoverPermanent, Succeed, Refuse, Cut, Misread
<1> QED BY <1>3, <1>4, <1>5, <1>6, <1>7, <1>8, <1>9 DEF Step

\* A step of one call leaves the others where they are.
LEMMA CallAlone ==
  ASSUME TypeOK, NEW c \in Calls, Call(c) \/ Step(c) \/ Perform(c), NEW d \in Calls, d # c
  PROVE  pc'[d] = pc[d] /\ attempt'[d] = attempt[d]
<1> USE DEF TypeOK, Goto, Attempt, End
<1>1. CASE Call(c) \/ Perform(c) \/ Ensure(c) \/ Discover(c) \/ Detect(c) \/ Resolve(c)
  BY <1>1 DEF Call, Perform, Ensure, Discover, Detect, Resolve
<1>2. CASE Locate(c) \/ Build(c) \/ Bind(c) \/ DiscoverTransient(c) \/ DiscoverPermanent(c)
  BY <1>2 DEF Locate, Build, Bind, DiscoverTransient, DiscoverPermanent
<1>3. CASE Succeed(c) \/ Refuse(c) \/ Retry(c) \/ Cut(c) \/ Misread(c)
  BY <1>3 DEF Succeed, Refuse, Retry, Cut, Misread
<1> QED BY <1>1, <1>2, <1>3 DEF Step

(***************************************************************************)
(* A call runs out of steps, for any number of calls and any retry limit:  *)
(* it takes at most 7 + 2 * MaxAttempts, and what other calls write into   *)
(* the attributes it reads back does not add one (cucm_axl_client.py:      *)
(* 235-309, 324-384).                                                      *)
(***************************************************************************)
THEOREM StepsRunOut ==
  Spec => /\ CallsRunOut
          /\ [](\A c \in Calls : StepsLeft(c) \in 0..(7 + 2 * MaxAttempts))
<1> DEFINE Spent == \A c \in Calls : \/ StepsLeft(c)' < StepsLeft(c)
                                     \/ StepsLeft(c)' = StepsLeft(c) /\ ~Call(c) /\ ~Step(c)
<1>1. TypeOK => \A c \in Calls : StepsLeft(c) \in 0..(7 + 2 * MaxAttempts)
  BY StepsTyped
<1>2. TypeOK /\ [Next]_vars => [Spent]_vars
  <2> SUFFICES ASSUME TypeOK, Next, NEW c \in Calls, ~Call(c), ~Step(c)
               PROVE  StepsLeft(c)' = StepsLeft(c)
    BY StepRunsOut
  <2>1. ASSUME pc'[c] = pc[c], attempt'[c] = attempt[c] PROVE StepsLeft(c)' = StepsLeft(c)
    BY <2>1 DEF StepsLeft
  <2>2. ASSUME NEW d \in Calls, Call(d) \/ Step(d) \/ Perform(d)
        PROVE  pc'[c] = pc[c] /\ attempt'[c] = attempt[c]
    <3>1. CASE d # c
      BY <2>2, <3>1, CallAlone
    <3>2. CASE Perform(c)
      BY <3>2 DEF Perform
    <3> QED BY <2>2, <3>1, <3>2
  <2>3. CASE Upgrade
    BY <2>1, <2>3 DEF Upgrade, callVars
  <2> QED BY <2>1, <2>2, <2>3 DEF Next
<1> QED BY <1>1, <1>2, TypeCorrect, PTL DEF Spec, CallsRunOut
=============================================================================
