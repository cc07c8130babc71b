--------------------------- MODULE RequestProtocol ---------------------------
(***************************************************************************)
(* What a handset may rely on about the calls its request makes, without   *)
(* caches, lines, retries or clocks: Phone Manager is asked about the      *)
(* handset, then, for an enable, to normalise the number; then CUCM is     *)
(* read, and only a change goes on to update, apply and confirm.  Success  *)
(* is reported of a query that was answered from a cache or by CUCM, and   *)
(* of a change that CUCM's answer showed not to be needed, or confirmed.   *)
(*                                                                         *)
(* This is the protocol of one client, which handles one request after the *)
(* other.                                                                  *)
(***************************************************************************)

CONSTANT ApplyLine     \* updates are followed by applyLine

VARIABLES kind,        \* the request the client handles
          stage,       \* the call it makes or has just made
          result       \* how its latest request ended

vars == <<kind, stage, result>>

Init == kind = "none" /\ stage = "idle" /\ result = "none"

Begin == /\ stage = "idle"
         /\ kind' \in {"query", "enable", "disable"}
         /\ stage' = "device"
         /\ result' = "none"

\* The call that follows.
Following ==
  CASE stage = "device" -> IF kind = "enable" THEN "number" ELSE "read"
    [] stage = "number" -> "read"
    [] stage = "read"   -> IF kind = "query" THEN "read" ELSE "update"
    [] stage = "update" -> IF ApplyLine THEN "apply" ELSE "confirm"
    [] stage = "apply"  -> "confirm"
    [] OTHER            -> stage

Advance == stage' = Following /\ UNCHANGED <<kind, result>>

\* A handler may fail at any stage, and succeed at these.
MaySucceed == \/ stage \in {"read", "confirm"}
              \/ stage = "device" /\ kind = "query"

\* The answer is known.  The client is free at once, or first leaves a record.
Answer == /\ kind # "none" /\ kind' = "none"
          /\ stage' \in {"over", "idle"}
          /\ result' = "failed" \/ (result' = "success" /\ MaySucceed)

\* The record is left and the answer sent, or both fail.
Leave == /\ stage = "over" /\ stage' = "idle"
         /\ result' \in {result, "failed"}
         /\ UNCHANGED kind

\* The client is turned away.
Reject == /\ stage = "idle"
          /\ result' = "failed"
          /\ UNCHANGED <<kind, stage>>

Next == Begin \/ Advance \/ Answer \/ Leave \/ Reject

Spec == Init /\ [][Next]_vars
=============================================================================
