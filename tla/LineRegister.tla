----------------------------- MODULE LineRegister -----------------------------
(***************************************************************************)
(* What the diversion service promises about the lines it works on,        *)
(* without its handlers and caches: a register for each line, written at   *)
(* least once.  A change is tried a bounded number of times, and each try  *)
(* may take effect at any later time, also when the client has given up,   *)
(* or never.  A query writes nothing.  A change that is done was in effect *)
(* at some time while it was under way, and it writes its destination and  *)
(* otherwise what the register held meanwhile.                             *)
(***************************************************************************)
EXTENDS Naturals

CONSTANTS Clients,        \* who works on the registers
          Lines,          \* the registers
          Destinations,   \* what changes write
          SearchSpaces,   \* what they must preserve
          None,           \* no destination
          MaxAttempts     \* tries of one change

VARIABLES value,       \* what each register holds
          writes,      \* tries that may still take effect
          operation,   \* the operation each client has under way
          window,      \* the values its register has had meanwhile
          result       \* how its latest operation ended

vars == <<value, writes, operation, window, result>>

State == [destination : Destinations \cup {None}, searchSpace : SearchSpaces]

Idle      == [kind |-> "none"]
Under(c)  == operation[c].kind # "none"
Change(c) == operation[c].kind = "change"

Init == /\ value \in [Lines -> State]
        /\ writes = {}
        /\ operation = [c \in Clients |-> Idle]
        /\ window = [c \in Clients |-> {}]
        /\ result = [c \in Clients |-> "none"]

Begin(c, l, kind) ==
  /\ ~Under(c)
  /\ operation' = [operation EXCEPT ![c] = [kind |-> kind, line |-> l, wanted |-> None, tries |-> 0]]
  /\ window' = [window EXCEPT ![c] = {value[l]}]
  /\ result' = [result EXCEPT ![c] = "none"]
  /\ UNCHANGED <<value, writes>>

\* Without a destination a change clears the register; it may choose one first.
Choose(c, d) ==
  /\ Change(c) /\ operation[c].tries = 0
  /\ operation' = [operation EXCEPT ![c].wanted = d]
  /\ UNCHANGED <<value, writes, window, result>>

\* One more try, with a search space the register has had meanwhile.
Try(c, m) ==
  /\ Change(c) /\ operation[c].tries < MaxAttempts
  /\ m.line = operation[c].line /\ m.destination = operation[c].wanted
  /\ m.try = operation[c].tries + 1
  /\ \E v \in window[c] : m.searchSpace = v.searchSpace
  /\ operation' = [operation EXCEPT ![c].tries = @ + 1]
  /\ writes' = writes \cup {m}
  /\ UNCHANGED <<value, window, result>>

Become(l, v) ==
  /\ value' = [value EXCEPT ![l] = v]
  /\ window' = [c \in Clients |-> IF Under(c) /\ operation[c].line = l
                                  THEN window[c] \cup {v} ELSE window[c]]
  /\ UNCHANGED <<operation, result>>

TakeEffect(m) ==
  /\ Become(m.line, [destination |-> m.destination, searchSpace |-> m.searchSpace])
  /\ writes' = writes \ {m}

\* Somebody else changes the register.
Edit(l, v) == Become(l, v) /\ UNCHANGED writes

\* What a client may be told at the end.
Truthful(c, r) ==
  \/ r = "done"      /\ Change(c) /\ \E v \in window[c] : v.destination = operation[c].wanted
  \/ r = "answered"  /\ ~Change(c)
  \/ r = "simulated" /\ Change(c) /\ operation[c].tries = 0
  \/ r = "failed"

\* The operations of the clients C end; with a failure, a try may be withdrawn.
End(C, r) ==
  /\ \A c \in C : Under(c) /\ Truthful(c, r)
  /\ operation' = [c \in Clients |-> IF c \in C THEN Idle ELSE operation[c]]
  /\ window' = [c \in Clients |-> IF c \in C THEN {} ELSE window[c]]
  /\ result' = [c \in Clients |-> IF c \in C THEN r ELSE result[c]]
  /\ \/ UNCHANGED writes
     \/ r = "failed" /\ \E m \in writes : writes' = writes \ {m}
  /\ UNCHANGED value

\* A client is turned away.
Reject(c) == /\ ~Under(c)
             /\ result' = [result EXCEPT ![c] = "failed"]
             /\ window' = [window EXCEPT ![c] = {}]
             /\ UNCHANGED <<value, writes, operation>>

Next ==
  \/ \E c \in Clients : \/ \E l \in Lines, kind \in {"query", "change"} : Begin(c, l, kind)
                        \/ \E d \in Destinations : Choose(c, d)
                        \/ \E m \in writes' : Try(c, m)
                        \/ \E r \in {"done", "answered", "simulated", "failed"} : End({c}, r)
                        \/ Reject(c)
  \/ \E C \in SUBSET Clients : End(C, "failed")
  \/ \E m \in writes : TakeEffect(m)
  \/ \E l \in Lines, v \in State : Edit(l, v)

Spec == Init /\ [][Next]_vars
=============================================================================
