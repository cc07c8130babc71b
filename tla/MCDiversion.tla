----------------------------- MODULE MCDiversion -----------------------------
(* Deployments of the diversion service that TLC explores. *)
EXTENDS Diversion, TLC

\* gunicorn --workers 2: sync workers, each its own process (Processes = Workers)
Forked == [w \in Workers |-> w]

\* runserver of dev.sh: threads of the one process
Threaded == [w \in Workers |-> CHOOSE p \in Processes : TRUE]

\* each handset has a line of its own (Lines = Devices)
OwnLine == [d \in Devices |-> d]

\* the handsets share the one line
SharedLine == [d \in Devices |-> CHOOSE l \in Lines : TRUE]

\* Nothing distinguishes workers, destinations or search spaces among themselves.
Symmetry == Permutations(Workers) \cup Permutations(Destinations) \cup Permutations(SearchSpaces)

\* With a line each, nor do the handsets.
HandsetSymmetry == Symmetry \cup Permutations(Devices)
=============================================================================
