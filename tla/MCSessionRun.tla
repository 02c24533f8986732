---------------------------- MODULE MCSessionRun ----------------------------
(* Instance of SessionRun for TLC.  Handlers, and runs, are                *)
(* interchangeable.                                                        *)
EXTENDS SessionRun, TLC

CONSTANTS r1, r2, h1, h2, none, sweeper

Symmetry == Permutations(Handlers) \cup Permutations(Runs)
=============================================================================
