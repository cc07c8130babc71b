------------------------------- MODULE AxlCall -------------------------------
(***************************************************************************)
(* What one call of CucmAxlClient promises to the service: CUCM is asked   *)
(* at most MaxAttempts times, may carry each request out or not, and may   *)
(* do so after the call has returned; a call that succeeds has been        *)
(* carried out; a call that fails says nothing.                            *)
(***************************************************************************)
EXTENDS Naturals

CONSTANTS Calls,         \* the calls the service makes
          MaxAttempts    \* how often one of them may be sent

VARIABLES result,        \* "pending", "ok" or "error"
          sent,          \* requests sent for the call
          performed      \* requests of the call CUCM has carried out

vars == <<result, sent, performed>>

Init == /\ result = [c \in Calls |-> "pending"]
        /\ sent = [c \in Calls |-> 0]
        /\ performed = [c \in Calls |-> 0]

Send(c) == /\ result[c] = "pending"
           /\ sent[c] < MaxAttempts
           /\ sent' = [sent EXCEPT ![c] = @ + 1]
           /\ UNCHANGED <<result, performed>>

Perform(c) == /\ performed[c] < sent[c]
              /\ performed' = [performed EXCEPT ![c] = @ + 1]
              /\ UNCHANGED <<result, sent>>

Return(c, r) == /\ result[c] = "pending"
                /\ r = "ok" => performed[c] > 0
                /\ result' = [result EXCEPT ![c] = r]
                /\ UNCHANGED <<sent, performed>>

Next == \E c \in Calls : \/ Send(c) \/ Perform(c)
                         \/ \E r \in {"ok", "error"} : Return(c, r)

Spec == Init /\ [][Next]_vars
=============================================================================
