------------------------- MODULE MCSessionLifecycle -------------------------
(* Instance of SessionLifecycle for TLC.  Runs, and the executors of       *)
(* requests, are interchangeable.                                          *)
EXTENDS SessionLifecycle, TLC

CONSTANTS r1, r2, h1, o1, o2, none, sweeper

Symmetry == Permutations(Runs) \cup Permutations(Operations)
=============================================================================
