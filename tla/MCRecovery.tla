----------------------------- MODULE MCRecovery -----------------------------
(***************************************************************************)
(* Instances of Recovery for TLC: those of MCRadar.                        *)
(***************************************************************************)
EXTENDS MCRadar, Recovery
=============================================================================
