-------------------------- MODULE MCUnbalancedTree --------------------------
(* UnbalancedTree for TLC.                                                 *)
EXTENDS UnbalancedTree, TreeScenarios
=============================================================================
