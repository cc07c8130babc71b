-------------------------------- MODULE Handset --------------------------------
(***************************************************************************)
(* The handsets in front of the diversion service: which screen a handset  *)
(* shows, which requests the screen's keys and timeouts lead to            *)
(* (diversion/templates/yealink), and which screen the view answers a      *)
(* request with (diversion/views.py).  The requests are those of Diversion *)
(* and are handled there; here a handset makes one at a time, waits for    *)
(* the answer, and may give up waiting while the worker carries on.        *)
(***************************************************************************)
EXTENDS Diversion

CONSTANT MaxAbandons   \* bound: requests a handset gives up waiting for

ASSUME MaxAbandonsAssumption == MaxAbandons \in Nat

VARIABLES
  screen,     \* what each handset shows
  pending,    \* the request it waits for: which URL, and the worker that handles it
  abandons    \* what is left of the bound

handsetVars == <<screen, pending, abandons>>

Urls    == {"status", "enable", "set", "disable", "refresh"}
Success == {"enabled", "disabled"}
Screens == Success \cup {"blank", "on", "off", "input", "invalid", "unavailable"}

Pending == [worker : Workers, url : Urls]

ASSUME NoneAssumption == None \notin Pending

HandsetsInit ==
  /\ Init
  /\ screen = [d \in Devices |-> "blank"]
  /\ pending = [d \in Devices |-> None]
  /\ abandons = MaxAbandons

-----------------------------------------------------------------------------
(* Screens *)

\* Mutant: the success screens lead to the status page.
LinksToStatus(s) ==
  CASE s = "blank"   -> {"status"}
    [] s = "on"      -> {"disable", "enable", "refresh"}
    [] s = "off"     -> {"enable", "refresh"}
    [] s = "input"   -> {"set", "status"}
    [] s \in Success -> {"status"}
    [] s = "invalid" -> {"enable"}
    [] OTHER         -> {}

\* The URLs of a screen: soft keys, OK, cancel and what follows its timeout.
\* With no screen the handset's XML service key asks for the status.
Links(s) ==
  CASE s = "blank"   -> {"status"}
    [] s = "on"      -> {"disable", "enable", "refresh"}
    [] s = "off"     -> {"enable", "refresh"}
    [] s = "input"   -> {"set", "status"}
    [] s \in Success -> {"refresh"}
    [] s = "invalid" -> {"enable"}
    [] OTHER         -> {}

\* Mutant: the set URL is not taken for an enable.
OperationOfUnmapped(url) == IF url = "enable" THEN "status" ELSE url

\* The operation of the service behind a URL.
OperationOf(url) ==
  CASE url = "set"                -> "enable"
    [] url \in {"status", "enable"} -> "status"
    [] OTHER                      -> url

StatusScreen(state) == IF state.destination = None THEN "off" ELSE "on"

\* The screens of the exceptions of the service; any other is an HTTP error.
ErrorScreen == [unavailable |-> "unavailable", invalid |-> "invalid",
                raised |-> "blank", lost |-> "blank"]

\* The screen a view renders, from the result of the service and the state in it.
Rendered(url, result, state) ==
  IF result \in DOMAIN ErrorScreen THEN ErrorScreen[result]
  ELSE CASE url \in {"status", "refresh"} -> StatusScreen(state)
         [] url = "enable"                -> "input"
         [] url = "set"                   -> "enabled"
         [] url = "disable"               -> IF result = "unchanged" THEN "off" ELSE "disabled"

Waits(d, W) == pending[d] # None /\ pending[d].worker \in W

-----------------------------------------------------------------------------
(* Steps of a handset *)

\* A key or a timeout of the screen: the request goes to a free worker.
Press(d, w, url) ==
  /\ pending[d] = None
  /\ url \in Links(screen[d])
  /\ ReceiveQuery(w, d, OperationOf(url)) \/ ReceiveChange(w, d, OperationOf(url))
  /\ pending' = [pending EXCEPT ![d] = [worker |-> w, url |-> url]]
  /\ UNCHANGED <<screen, abandons>>

\* OK with a destination that is refused before any call is made.
EnterMalformed(d, w) ==
  /\ pending[d] = None
  /\ screen[d] = "input"
  /\ ReceiveMalformed(w)
  /\ screen' = [screen EXCEPT ![d] = "invalid"]
  /\ UNCHANGED <<pending, abandons>>

\* Exit, the X key, or the timeout of a screen that leads nowhere.
Leave(d) ==
  /\ pending[d] = None
  /\ screen[d] # "blank"
  /\ screen' = [screen EXCEPT ![d] = "blank"]
  /\ UNCHANGED <<vars, pending, abandons>>

\* The handset stops waiting; the worker does not know.
Abandon(d) ==
  /\ pending[d] # None
  /\ abandons > 0
  /\ abandons' = abandons - 1
  /\ pending' = [pending EXCEPT ![d] = None]
  /\ screen' = [screen EXCEPT ![d] = "blank"]
  /\ UNCHANGED vars

-----------------------------------------------------------------------------
(* Steps of the service *)

\* The state the service returns, from the cache or from CUCM.
Returned(w) == IF At(w, "looking") THEN Entry(w) ELSE request[w].current

Show(d, s) == /\ screen' = [screen EXCEPT ![d] = s]
              /\ pending' = [pending EXCEPT ![d] = None]

\* A worker goes on; if it is done, the handset that still waits for it gets
\* its screen.
Serve(w) ==
  LET d == request[w].device
  IN /\ Handle(w)
     /\ IF pc'[w] = "idle" /\ Waits(d, {w})
        THEN Show(d, Rendered(pending[d].url, outcome'[w], Returned(w)))
        ELSE UNCHANGED <<screen, pending>>
     /\ UNCHANGED abandons

\* A process is killed: handsets that wait for one of its workers get an error.
Crash(p) ==
  LET Lost == {d \in Devices : Waits(d, {w \in Workers : ProcessOf[w] = p})}
  IN /\ Restart(p)
     /\ screen'  = [d \in Devices |-> IF d \in Lost THEN "blank" ELSE screen[d]]
     /\ pending' = [d \in Devices |-> IF d \in Lost THEN None ELSE pending[d]]
     /\ UNCHANGED abandons

\* What happens without a handset noticing.
Background == /\ \/ \E m \in wire : CucmUpdate(m)
                 \/ \E p \in Processes, d \in Devices : Expire(p, d)
                 \/ \E l \in Lines : AdminEdit(l)
              /\ UNCHANGED handsetVars

HandsetsNext ==
  \/ \E d \in Devices : \/ \E w \in Workers : \/ \E url \in Urls : Press(d, w, url)
                                              \/ EnterMalformed(d, w)
                        \/ Leave(d) \/ Abandon(d)
  \/ \E w \in Workers : Serve(w)
  \/ \E p \in Processes : Crash(p)
  \/ Background

HandsetsSpec == HandsetsInit /\ [][HandsetsNext]_<<vars, handsetVars>>

-----------------------------------------------------------------------------
(* Properties *)

\* A handset that waits is being served: a worker handles the request that the
\* URL stands for, for this handset.
HandsetsTypeOK ==
  /\ TypeOK
  /\ screen \in [Devices -> Screens]
  /\ pending \in [Devices -> Pending \cup {None}]
  /\ abandons \in Nat
  /\ \A d \in Devices : pending[d] # None =>
       LET w == pending[d].worker
       IN  Active(w) /\ request[w].device = d /\ request[w].op = OperationOf(pending[d].url)

(***************************************************************************)
(* What a handset shows after "Call Diversion Enabled" or "Disabled" is    *)
(* true: the status screen that follows shows a state the line had after   *)
(* the success screen was left, whichever process answers and whatever it  *)
(* has in its cache (success_enabled.xml, views.py:121-122).               *)
(***************************************************************************)
SuccessThenTruth ==
  [][\A d \in Devices :
       /\ pending[d] # None /\ screen[d] \in Success
       /\ screen'[d] \in {"on", "off"}
       => \E state \in seen[pending[d].worker] : screen'[d] = StatusScreen(state)
    ]_<<vars, handsetVars>>

(***************************************************************************)
(* A success screen is true: unless it is a dry run, the line had the      *)
(* destination asked for, or none, while the request the screen answers    *)
(* was being handled (views.py:64-84, 93-118), whatever failed, was        *)
(* repeated, or was given up by the handset before.                        *)
(***************************************************************************)
SuccessIsTrue ==
  [][\A d \in Devices :
       /\ pending[d] # None /\ ~DryRun
       /\ screen'[d] \in Success /\ screen'[d] # screen[d]
       => LET w == pending[d].worker
          IN  /\ request[w].op \in Changing
              /\ \E state \in seen[w] : state.destination = request[w].wanted
    ]_<<vars, handsetVars>>
=============================================================================
