------------------------------ MODULE MCDryRun ------------------------------
(***************************************************************************)
(* Instances of DryRun for TLC: those of MCRadar.                          *)
(***************************************************************************)
EXTENDS MCRadar, DryRun
=============================================================================
