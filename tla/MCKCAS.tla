------------------------------- MODULE MCKCAS -------------------------------
(* KCAS by itself, for TLC.                                                *)
EXTENDS KCAS, KCASScenarios
=============================================================================
