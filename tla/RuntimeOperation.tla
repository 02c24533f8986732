-------------------------- MODULE RuntimeOperation --------------------------
(***************************************************************************)
(* Runtime state operations (restart the driver, recreate the sandbox,     *)
(* reset the agent state) on the session of SessionRun.                    *)
(*                                                                         *)
(* An operation snapshots the session, takes it to RESCHEDULING under its  *)
(* own id, stops the live driver and cancels the run it finds active,      *)
(* then gives the session back as IDLE, or restores it when it failed.     *)
(* Each of its steps is one statement; the run's writers, the sweep and    *)
(* other operations interleave, and the operation may be lost anywhere.    *)
(*                                                                         *)
(* Abstracted: the sandbox and its checkpoints, whose work only decides    *)
(* whether the operation succeeds; the 120 s window, which may have passed *)
(* or not; the progress events of the operation.                           *)
(*                                                                         *)
(* Definitions X_Y are plausible faulty forms of X, which the              *)
(* specification does not use.                                             *)
(***************************************************************************)
EXTENDS DriverStop

VARIABLE operation   \* operation -> its progress and what it remembers

opVars == <<vars, stop, operation>>

\* status, seq, op, last: the session as the operation knows it.  restore: the status
\* a failed operation gives back.  interrupts: whether it has a run to interrupt.
Phases == {"new", "start", "execute", "finish", "restore", "cancel", "append", "done", "lost"}

NewOperation == [phase |-> "new", status |-> "IDLE", seq |-> 0, op |-> NoOperation,
                 last |-> NoRun, restore |-> "IDLE", interrupts |-> FALSE]

Ended(o) == [NewOperation EXCEPT !.phase = "done"]

Become(o, phase) == operation' = [operation EXCEPT ![o].phase = phase]
End(o) == operation' = [operation EXCEPT ![o] = Ended(o)]

-----------------------------------------------------------------------------
\* Reads the session the operation is about to take.
ResolveTargets(o) ==
  /\ operation[o].phase = "new"
  /\ ~session.archived
  /\ session.status # "TERMINATED"
  /\ operation' = [operation EXCEPT ![o] =
       [@ EXCEPT !.phase = "start", !.status = session.status, !.seq = session.seq,
                 !.op = session.op, !.last = session.lastRun]]
  /\ UNCHANGED <<vars, stop>>

\* The session is still the one the operation knows, under this owner.
TargetIsFresh(o, status, owner) ==
  /\ ~session.archived
  /\ session.status = status
  /\ session.seq = operation[o].seq
  /\ session.lastRun = operation[o].last
  /\ session.op = owner

TakesSession(o) ==
  /\ operation[o].status # "RESCHEDULING"
  /\ operation[o].op = NoOperation
  /\ TargetIsFresh(o, operation[o].status, NoOperation)

StartPhase(o) ==
  /\ operation[o].phase = "start"
  /\ IF TakesSession(o)
     THEN /\ session' = SessionPatch("RESCHEDULING", o)
          /\ operation' = [operation EXCEPT ![o].phase = "execute", ![o].seq = @ + 1]
     ELSE /\ UNCHANGED session
          /\ End(o)
  /\ UNCHANGED <<run, driver, events, dispatches, worker, crashes, stop>>

-----------------------------------------------------------------------------
(* Execution: stop the driver, end the run it executes.                    *)

StopDriver(o) ==
  /\ operation[o].phase = "execute"
  /\ BeginStop(o)
  /\ Become(o, "finish")

NothingToStop(o) ==
  /\ operation[o].phase = "execute"
  /\ ~DriverIsLive
  /\ Become(o, "finish")
  /\ UNCHANGED <<vars, stop>>

\* The session stays with the operation when its run is cancelled.
Stopping(o) == StopStep(o, TRUE, o) /\ UNCHANGED operation

\* The driver is stopped; the rest of the work on the sandbox succeeds or fails.
Executed(o) == operation[o].phase = "finish" /\ stop[o] = NoStop

\* A failed operation reads its run to see what the session should go back to.
RestoredStatus(o) ==
  IF operation[o].status = "RUNNING" /\ operation[o].last # NoRun /\ Active(operation[o].last)
  THEN "RUNNING"
  ELSE "IDLE"

Fail(o) ==
  /\ \/ operation[o].phase = "execute"
     \/ operation[o].phase = "finish" /\ (stop[o] = NoStop \/ StopFailed(o))
  /\ operation' = [operation EXCEPT ![o].phase = "restore", ![o].restore = RestoredStatus(o)]
  /\ stop' = [stop EXCEPT ![o] = NoStop]
  /\ UNCHANGED vars

-----------------------------------------------------------------------------
(* Giving the session back.                                                *)

\* A run to interrupt: any when the operation went through, none when a failed
\* one had found the session idle.
Interrupts(o, completes) ==
  LET any == operation[o].last # NoRun /\ (completes \/ operation[o].status # "IDLE")
  IN operation' = [operation EXCEPT ![o].phase = "cancel", ![o].interrupts = any]

\* More than 120 s passed: the session is terminated, archived or not.
Expire(o) ==
  /\ Executed(o)
  /\ session.status = "RESCHEDULING"
  /\ session.op = o
  /\ session.seq = operation[o].seq
  /\ session' = SessionPatch("TERMINATED", NoOperation)
  /\ Interrupts(o, TRUE)
  /\ UNCHANGED <<run, driver, events, dispatches, worker, crashes, stop>>

GiveBack(o, status, completes) ==
  /\ TargetIsFresh(o, "RESCHEDULING", o)
  /\ session' = SessionPatch(status, NoOperation)
  /\ Interrupts(o, completes)
  /\ UNCHANGED <<run, driver, events, dispatches, worker, crashes, stop>>

Complete(o) == Executed(o) /\ GiveBack(o, "IDLE", TRUE)

Restore(o) == operation[o].phase = "restore" /\ GiveBack(o, operation[o].restore, FALSE)

\* The session was taken from the operation.  A completing operation then leaves
\* its run alone; a failing one interrupts it nevertheless.
LoseSession(o) ==
  /\ ~TargetIsFresh(o, "RESCHEDULING", o)
  /\ \/ Executed(o) /\ End(o)
     \/ operation[o].phase = "restore" /\ Interrupts(o, FALSE)
  /\ UNCHANGED <<vars, stop>>

\* Cancels the run the session had when the operation began, if it is still
\* active, without the session.
InterruptRun(o) ==
  LET r == operation[o].last
  IN /\ operation[o].phase = "cancel"
     /\ run' = IF operation[o].interrupts /\ Active(r)
               THEN [run EXCEPT ![r] = [status |-> "cancelled", seq |-> @.seq + 1, op |-> o]]
               ELSE run
     /\ Become(o, "append")
     /\ UNCHANGED <<session, driver, events, dispatches, worker, crashes, stop>>

\* Tells of that run if this operation cancelled it, here or when it stopped the driver.
AppendInterrupted_AnyOutcome(o) ==
  LET r    == operation[o].last
      mine == operation[o].interrupts
  IN /\ operation[o].phase = "append"
     /\ events' = IF mine /\ Writable THEN events \cup {[run |-> r, status |-> "cancelled"]}
                                      ELSE events
     /\ End(o)
     /\ UNCHANGED <<session, run, driver, dispatches, worker, crashes, stop>>
AppendInterrupted(o) ==
  LET r    == operation[o].last
      mine == operation[o].interrupts /\ run[r].status = "cancelled" /\ run[r].op = o
  IN /\ operation[o].phase = "append"
     /\ events' = IF mine /\ Writable THEN events \cup {[run |-> r, status |-> "cancelled"]}
                                      ELSE events
     /\ End(o)
     /\ UNCHANGED <<session, run, driver, dispatches, worker, crashes, stop>>

\* The execution is lost with whatever call it was making, or an exception ends it outside
\* of its error path, as one in the broadcast that follows the start would.
LoseOperation(o) ==
  /\ operation[o].phase \notin {"new", "done", "lost"}
  /\ crashes < MaxCrashes
  /\ crashes' = crashes + 1
  /\ AbandonStop(o)
  /\ operation' = [operation EXCEPT ![o] = [NewOperation EXCEPT !.phase = "lost"]]
  /\ UNCHANGED <<session, run, driver, events, dispatches>>

-----------------------------------------------------------------------------
OperationInit ==
  /\ Init
  /\ stop = [o \in Operations |-> NoStop]
  /\ operation = [o \in Operations |-> NewOperation]

OperationStep(o) ==
  \/ StartPhase(o) \/ StopDriver(o) \/ NothingToStop(o) \/ Stopping(o)
  \/ Fail(o) \/ Expire(o) \/ Complete(o) \/ Restore(o) \/ LoseSession(o)
  \/ InterruptRun(o) \/ AppendInterrupted(o)

OperationNext ==
  \/ Next /\ UNCHANGED <<stop, operation>>
  \/ \E o \in Operations : ResolveTargets(o) \/ OperationStep(o) \/ LoseOperation(o)

OperationSpec == OperationInit /\ [][OperationNext]_opVars

\* An operation that is not lost goes on, and so do the executions of SessionRun.
OperationFairness ==
  /\ \A w \in Workers : WF_opVars(Step(w) /\ UNCHANGED <<stop, operation>>)
  /\ \A r \in Runs : SF_opVars(driver[r] # "live" /\ FailStale(r) /\ UNCHANGED <<stop, operation>>)
  /\ \A r \in Runs : SF_opVars(Reconcile(r) /\ UNCHANGED <<stop, operation>>)
  /\ \A o \in Operations : WF_opVars(OperationStep(o))

OperationFairSpec == OperationSpec /\ OperationFairness

-----------------------------------------------------------------------------
(* Properties.                                                             *)

Remembered == [phase : Phases, status : SessionStatuses, seq : Nat,
               op : Operations \cup {NoOperation}, last : Runs \cup {NoRun},
               restore : {"IDLE", "RUNNING"},
               interrupts : BOOLEAN]

\* The operation that owns the session, unless it was lost, is still to give it back,
\* and knows the session as it is: it never takes its own session for someone else's.
OwnerKnowsSession ==
  \A o \in Operations : session.op = o =>
    /\ session.status = "RESCHEDULING"
    /\ operation[o].phase # "lost" => /\ operation[o].phase \in {"execute", "finish", "restore"}
                                      /\ TargetIsFresh(o, "RESCHEDULING", o)

\* Every variable has its type, and the session is owned by an operation that knows it.
OperationTypeOK ==
  /\ TypeOK /\ StopTypeOK
  /\ operation \in [Operations -> Remembered]
  /\ OwnerKnowsSession

\* An operation that is not lost does not keep the session it took, whoever moves the
\* session or its run meanwhile, and when the work on the sandbox fails.  One that an
\* exception ends outside of its error path counts as lost.
OperationGivesBack ==
  \A o \in Operations : session.op = o ~> (session.op # o \/ operation[o].phase = "lost")

\* A session that shows RUNNING for a run that ended, as a failed operation or a
\* lost execution leaves it, is brought back in line once the driver is gone.
ProjectionRepaired ==
  \A r \in Runs : (Terminal(r) /\ driver[r] # "live" /\ ProjectionStale(r))
                  ~> (driver[r] = "live" \/ ~ProjectionStale(r))
=============================================================================
