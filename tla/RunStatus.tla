----------------------------- MODULE RunStatus ------------------------------
(***************************************************************************)
(* The statuses of a session run, the lifecycle machine over them, and     *)
(* their projection on the status of the session that owns the run.        *)
(*                                                                         *)
(* Definitions X_Y are plausible faulty forms of X, which the              *)
(* specification does not use.                                             *)
(***************************************************************************)

ActiveStatuses   == {"queued", "booting", "running", "waiting_input"}
TerminalStatuses == {"cancelled", "completed", "expired", "failed"}
RunStatuses      == ActiveStatuses \cup TerminalStatuses
SessionStatuses  == {"IDLE", "RUNNING", "RESCHEDULING", "TERMINATED"}

\* The statuses one lifecycle event leads to from each status.
NextStatuses ==
  [s \in RunStatuses |->
     CASE s = "queued"        -> (TerminalStatuses \ {"completed"}) \cup {"booting", "running"}
       [] s = "booting"       -> TerminalStatuses \cup {"running", "waiting_input"}
       [] s = "running"       -> TerminalStatuses \cup {"waiting_input"}
       [] s = "waiting_input" -> TerminalStatuses \cup {"running"}
       [] OTHER               -> {}]

\* What a request to move a run from current to target amounts to.
Decision(current, target) ==
  CASE current = target                 -> "duplicate"
    [] current \in TerminalStatuses     -> "stale"
    [] target \in NextStatuses[current] -> "accepted"
    [] OTHER                            -> "rejected"

\* The status a session shows for the run it last admitted.
Projected_Raw(status) == IF status \in ActiveStatuses THEN status ELSE "IDLE"
Projected(status) == IF status \in ActiveStatuses THEN "RUNNING" ELSE "IDLE"
=============================================================================
