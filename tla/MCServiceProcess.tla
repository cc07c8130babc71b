-------------------------- MODULE MCServiceProcess --------------------------
(* The answers of Phone Manager that TLC tries. *)
EXTENDS ServiceProcess

Good == [status |-> "ok", body |-> "object", valid |-> TRUE, model |-> TRUE,
         lines |-> "one", names |-> "given"]

\* A good status and body, with any fields; a bad one.
MCAnswers == {a \in Answer : a.status = "ok" /\ a.body = "object"}
               \cup {[Good EXCEPT !.status = s] : s \in {"none", "invalid", "denied", "other"}}
               \cup {[Good EXCEPT !.body = b] : b \in {"garbled", "odd"}}
=============================================================================
