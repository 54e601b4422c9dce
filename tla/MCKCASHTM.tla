----------------------------- MODULE MCKCASHTM ------------------------------
(* KCASHTM for TLC.                                                        *)
EXTENDS KCASHTM, KCASScenarios
=============================================================================
