-------------------------- MODULE MCEventIngestion --------------------------
(* Instance of EventIngestion for TLC.                                     *)
EXTENDS EventIngestion

\* Events 2 and 3 are updates of one tool call, the others but the last are none of the stream.
MCReplays == [e \in 1 .. Final |->
  CASE e = 2 -> {3}
    [] e = 3 -> {2}
    [] e = Final -> {2, 3}
    [] OTHER -> {}]
=============================================================================
