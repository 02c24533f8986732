---------------------------- MODULE RunLifecycle ----------------------------
(***************************************************************************)
(* What the runs of one session promise to everyone who only looks at      *)
(* their status: a run is admitted when no other run of the session is     *)
(* active, then moves along the edges of the lifecycle machine, one edge   *)
(* at a time, until it reaches a terminal status, which it never leaves.   *)
(* SessionRun, where statuses are read and written by interleaved workers, *)
(* is shown to implement this specification.                               *)
(***************************************************************************)
EXTENDS RunStatus

CONSTANT Runs

VARIABLE status    \* run -> its status, "absent" before it is admitted

Init == status = [r \in Runs |-> "absent"]

Admit(r) ==
  /\ status[r] = "absent"
  /\ \A other \in Runs : status[other] \notin ActiveStatuses
  /\ status' = [status EXCEPT ![r] = "queued"]

Move(r) ==
  /\ status[r] \in RunStatuses
  /\ \E s \in NextStatuses[status[r]] : status' = [status EXCEPT ![r] = s]

Next == \E r \in Runs : Admit(r) \/ Move(r)

Spec == Init /\ [][Next]_status
=============================================================================
