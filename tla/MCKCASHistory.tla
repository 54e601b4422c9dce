--------------------------- MODULE MCKCASHistory ----------------------------
(* KCAS with its history variables, for TLC.                               *)
EXTENDS KCASHistory, KCASScenarios
=============================================================================
