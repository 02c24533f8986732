----------------------------- MODULE DriverStop -----------------------------
(***************************************************************************)
(* stopDriverSession: how an operation on a session of SessionRun stops    *)
(* the session's live driver and ends the run that driver executes.        *)
(*                                                                         *)
(* A session has one live driver instance at a time, which its runs share. *)
(* The procedure notes the active run of that instance before it sends the *)
(* stop command, and deals with that run only after the driver closed (or  *)
(* the command failed), so everyone else may move the run in between.      *)
(*                                                                         *)
(* Abstracted: whether the driver is ready for a stop command or is failed *)
(* directly; the time waited for its socket to close.                      *)
(***************************************************************************)
EXTENDS SessionRun

VARIABLE stop    \* operation -> the stop it executes: its phase, the run it noted, and
                 \* whether it fails once that run was dealt with

NoStop == [phase |-> "none", run |-> NoRun, fails |-> FALSE]

StopTypeOK ==
  stop \in [Operations -> [phase : {"none", "closing", "cancel", "called", "release", "failed"},
                           run : Runs \cup {NoRun}, fails : BOOLEAN]]

DriverIsLive == \E r \in Runs : driver[r] = "live"

BeginStop(o) ==
  LET executed == {r \in Runs : driver[r] = "live" /\ Active(r)}
  IN /\ stop[o] = NoStop
     /\ DriverIsLive
     /\ \E r \in IF executed = {} THEN {NoRun} ELSE executed :
          stop' = [stop EXCEPT ![o] = [NoStop EXCEPT !.phase = "closing", !.run = r]]
     /\ UNCHANGED vars

CloseDriver(o) ==
  /\ stop[o].phase = "closing"
  /\ driver' = [r \in Runs |-> IF driver[r] = "live" THEN "gone" ELSE driver[r]]
  /\ stop' = [stop EXCEPT ![o] = IF stop[o].run = NoRun THEN NoStop ELSE [@ EXCEPT !.phase = "cancel"]]
  /\ UNCHANGED <<session, run, events, dispatches, worker, crashes>>

\* The driver stays: it does not close in time or a call throws, and the stop then fails
\* once it dealt with the run; or the driver is still starting, and connects afterwards.
MissDriver(o) ==
  /\ stop[o].phase = "closing"
  /\ crashes < MaxCrashes
  /\ crashes' = crashes + 1
  /\ \E fails \in BOOLEAN :
       stop' = [stop EXCEPT ![o] =
         IF @.run # NoRun THEN [@ EXCEPT !.phase = "cancel", !.fails = fails]
         ELSE IF fails THEN [@ EXCEPT !.phase = "failed"] ELSE NoStop]
  /\ UNCHANGED <<session, run, driver, events, dispatches, worker>>

\* Cancels the run it noted, with or without its session.
CancelStoppedRun(o, preserve, operationId) ==
  /\ stop[o].phase = "cancel"
  /\ Start(o, [Call("stop", stop[o].run, "cancelled", FALSE)
                 EXCEPT !.preserve = preserve, !.op = operationId])
  /\ stop' = [stop EXCEPT ![o].phase = "called"]

\* assertStoppedDriverRunTransition: the stop fails unless the run has ended.
StoppedRunReturned(o) ==
  /\ stop[o].phase = "called"
  /\ worker[o].pc \in Outcomes
  /\ stop' = [stop EXCEPT ![o].phase =
                IF worker[o].pc \in {"lost", "rejected", "repair_needed"} THEN "failed" ELSE "release"]
  /\ worker' = [worker EXCEPT ![o] = Idle]
  /\ UNCHANGED <<session, run, driver, events, dispatches, crashes>>

\* Releases the lease, which a run that is still active loses.
ReleaseStoppedRun(o) ==
  LET r == stop[o].run
  IN /\ stop[o].phase = "release"
     /\ driver' = IF Active(r) THEN [driver EXCEPT ![r] = "none"] ELSE driver
     /\ stop' = [stop EXCEPT ![o] = IF @.fails THEN [@ EXCEPT !.phase = "failed"] ELSE NoStop]
     /\ UNCHANGED <<session, run, events, dispatches, worker, crashes>>

StopStep(o, preserve, operationId) ==
  \/ CloseDriver(o) \/ MissDriver(o) \/ CancelStoppedRun(o, preserve, operationId)
  \/ StoppedRunReturned(o) \/ ReleaseStoppedRun(o)

StopFailed(o) == stop[o].phase = "failed"

\* Whatever the operation was doing, it does it no more.
AbandonStop(o) ==
  /\ stop' = [stop EXCEPT ![o] = NoStop]
  /\ worker' = [worker EXCEPT ![o] = Idle]
=============================================================================
