------------------------------ MODULE DriverLog ------------------------------
(***************************************************************************)
(* What the event log promises a driver about the events of its run: none  *)
(* is appended before a promised one that precedes it, and no promised one *)
(* is left out; what is acknowledged is in the log; and a run completes    *)
(* only when all promised ones are in it.  The promise shrinks when the    *)
(* API settles the run itself: then events may be left out, and once the   *)
(* API's record of the end replaces the driver's, they may come late too.  *)
(* Even then what is in the log stays, and what is new comes after it.     *)
(***************************************************************************)
EXTENDS Naturals

CONSTANTS
  Final,      \* the driver's events are 1 .. Final
  Promised    \* those whose place in the log is promised

VARIABLES
  position,      \* the driver's events in the log -> their sequence numbers
  acked,         \* the events the driver has a receipt for
  completed,     \* the run completed
  overruled,     \* the API settled the run itself
  replaced       \* the end of the run that is in the log may be the API's

logVars == <<position, acked, completed, overruled, replaced>>

Stored == DOMAIN position
InDriverOrder == \A d \in Promised \cap Stored, e \in Stored : d < e => position[d] < position[e]
Gapless == \A d \in Promised, e \in Stored : d < e => d \in Stored

LogInit ==
  /\ Stored = {}
  /\ acked = {}
  /\ completed = FALSE
  /\ overruled = FALSE
  /\ replaced = FALSE

\* Only an end that the API settled replaces the driver's, and it does so for good.
Replace ==
  /\ replaced => replaced'
  /\ replaced' => replaced \/ overruled'

\* What is in the log stays where it is, and what is new comes after it.
Extend ==
  /\ Stored \subseteq Stored'
  /\ \A d \in Stored : position'[d] = position[d]
  /\ \A d \in Stored, e \in Stored' \ Stored : position[d] < position'[e]
  /\ replaced' \/ InDriverOrder'
  /\ overruled \/ Gapless'
  /\ Replace
  /\ UNCHANGED <<acked, completed, overruled>>

Acknowledge ==
  /\ acked \subseteq acked'
  /\ overruled \/ acked' \subseteq Stored
  /\ UNCHANGED <<position, completed, overruled, replaced>>

Finish ==
  /\ ~overruled
  /\ Promised \ {Final} \subseteq Stored
  /\ completed' = TRUE
  /\ UNCHANGED <<position, acked, overruled, replaced>>

Overrule ==
  /\ overruled' = TRUE
  /\ Replace
  /\ UNCHANGED <<position, acked, completed>>

LogNext == Extend \/ Acknowledge \/ Finish \/ Overrule

LogSpec == LogInit /\ [][LogNext]_logVars
=============================================================================
