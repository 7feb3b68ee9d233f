---------------------------- MODULE MCDocumented ----------------------------
(***************************************************************************)
(* Instances of DocumentedBehaviour for TLC: those of MCRadar.             *)
(***************************************************************************)
EXTENDS MCRadar, DocumentedBehaviour
=============================================================================
