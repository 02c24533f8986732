-------------------------- MODULE MCAppDeployment --------------------------
(* Instance of AppDeployment for TLC.                                      *)
EXTENDS AppDeployment, TLC

CONSTANTS e1, e2, p1, p2, x1, v1, none

Symmetry == Permutations(Executors) \cup Permutations(Deployers)
=============================================================================
