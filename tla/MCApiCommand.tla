---------------------------- MODULE MCApiCommand ----------------------------
(* Instance of ApiCommand for TLC.  Consumers, and messages, are           *)
(* interchangeable.                                                        *)
EXTENDS ApiCommand, TLC

CONSTANTS c1, c2, m1, m2, p1, redriver, none

Symmetry == Permutations(Consumers) \cup Permutations(Messages)
=============================================================================
