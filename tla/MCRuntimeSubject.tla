-------------------------- MODULE MCRuntimeSubject --------------------------
(* Instance of RuntimeSubject for TLC.                                     *)
EXTENDS RuntimeSubject, TLC

CONSTANTS d1, d2, p1, m1, m2, o1, o2, none, theSession
=============================================================================
