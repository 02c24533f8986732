------------------------- MODULE MCRuntimeOperation -------------------------
(* Instance of RuntimeOperation for TLC.  Runs are interchangeable.        *)
EXTENDS RuntimeOperation, TLC

CONSTANTS r1, r2, h1, o1, o2, none, sweeper

Symmetry == Permutations(Runs)
=============================================================================
