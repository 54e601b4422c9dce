----------------------------- MODULE MCAVLTree ------------------------------
(* AVLTree for TLC.                                                        *)
EXTENDS AVLTree, TreeScenarios
=============================================================================
