-------------------------- MODULE MCDriverCommand --------------------------
(* Instance of DriverCommand for TLC.                                      *)
EXTENDS DriverCommand, TLC

CONSTANTS c1, c2, none

Symmetry == Permutations(Commands)
=============================================================================
