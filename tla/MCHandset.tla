------------------------------ MODULE MCHandset ------------------------------
(* Handsets in front of the deployments of MCDiversion. *)
EXTENDS Handset, MCDiversion
=============================================================================
