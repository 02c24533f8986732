----------------------------- MODULE SessionRun -----------------------------
(***************************************************************************)
(* The run lifecycle of one session of the API Worker.                     *)
(*                                                                         *)
(* session and run are rows of the D1 database.  Every statement (and      *)
(* every batch) is atomic, but the code reads in one statement and writes  *)
(* in a later one: transitionSessionRunStatus reads the run joined with    *)
(* its session, decides, and then writes with a compare-and-set on the     *)
(* run's status and statusSeq.  A worker is one call of that function by   *)
(* one of its callers; anything may happen between two of its steps, and   *)
(* a worker may be lost between any two (the isolate is evicted).          *)
(*                                                                         *)
(* Abstracted: the run's error, timestamps and usage; the columns of the   *)
(* message, command and event inserted on admission; heartbeats and        *)
(* timeouts, whose expiry may happen at any moment.                        *)
(*                                                                         *)
(* Definitions X_Y are plausible faulty forms of X, which the              *)
(* specification does not use.                                             *)
(***************************************************************************)
EXTENDS Naturals, RunStatus

CONSTANTS
  Runs,          \* the runs that may be admitted
  NoRun,
  Handlers,      \* request, queue-consumer and driver-object executions
  Sweeper,       \* the scheduled maintenance execution
  Operations,    \* ids of the operations of the modules that extend this one
  NoOperation,
  MaxFlipSeq,    \* the driver starts no running / waiting_input flip past this statusSeq
  MaxCrashes     \* number of lost executions, and of stops that miss their driver

\* An operation executes its calls under its own id.
Workers == Handlers \cup {Sweeper} \cup Operations

ASSUME ConstantsAssumption ==
  /\ NoRun \notin Runs
  /\ NoOperation \notin Operations
  /\ Sweeper \notin Handlers \cup Operations
  /\ Handlers \cap Operations = {}
  /\ MaxFlipSeq \in Nat
  /\ MaxCrashes \in Nat

VARIABLES
  session,       \* the session row
  run,           \* run -> its row; status "absent" before the insert
  driver,        \* run -> state of the driver instance that holds its lease
  events,        \* persisted terminal session events
  dispatches,    \* run -> number of dispatchers that won its acquisition
  worker,        \* worker -> the call it is executing
  crashes        \* executions lost, and stops that missed, so far

vars == <<session, run, driver, events, dispatches, worker, crashes>>

Active(r)   == run[r].status \in ActiveStatuses
Terminal(r) == run[r].status \in TerminalStatuses

-----------------------------------------------------------------------------
(* The rows and how they are written.                                      *)

\* Every write of the session status: a new sequence number, and the operation
\* that owns the session only while it is RESCHEDULING.
SessionPatch_KeepsOwner(status, operation) ==
  [session EXCEPT !.status = status,
                  !.op     = IF status = "RESCHEDULING" THEN operation ELSE @,
                  !.seq    = @ + 1]
SessionPatch(status, operation) ==
  [session EXCEPT !.status = status,
                  !.op     = IF status = "RESCHEDULING" THEN operation ELSE NoOperation,
                  !.seq    = @ + 1]

\* Runtime events are accepted for a session that is neither archived nor terminated.
Writable == ~session.archived /\ session.status # "TERMINATED"

-----------------------------------------------------------------------------
(* A call: who makes it, what it asks for, and what it has read so far.    *)

\* dispatch, hydrate: the dispatcher of a queued run.  failure: whoever records
\* the canonical failure of a run.  driver: the driver object.  viewer: the cancel
\* request.  maintenance: the sweep.  stop, system: the modules that extend
\* this one, which look at the outcome.
Callers == {"dispatch", "hydrate", "failure", "driver", "viewer", "maintenance",
            "stop", "system"}

\* What a call comes to; "lost" is a stale call whose compare-and-set failed.
Outcomes == {"applied", "duplicate", "stale", "lost", "rejected", "repair_needed"}

NoSnapshot == [status |-> "absent", seq |-> 0, last |-> NoRun, session |-> "IDLE"]

Idle == [pc |-> "idle", by |-> "viewer", run |-> NoRun, target |-> "queued",
         preserve |-> FALSE, op |-> NoOperation, appends |-> FALSE, seen |-> NoSnapshot]

Call(by, r, target, appends) ==
  [Idle EXCEPT !.pc = "read", !.by = by, !.run = r, !.target = target, !.appends = appends]

HasTerminalEvent(r) == [run |-> r, status |-> run[r].status] \in events

\* findTerminalRunCandidates: the driver cannot replay its final event any more.
ProjectionStale(r) == session.lastRun = r /\ session.status = "RUNNING"
Reconcilable_ProjectionOnly(r) ==
  /\ Terminal(r)
  /\ Writable
  /\ driver[r] # "live"
  /\ ProjectionStale(r)
Reconcilable_EventOnly(r) ==
  /\ Terminal(r)
  /\ Writable
  /\ driver[r] # "live"
  /\ ~HasTerminalEvent(r)
Reconcilable(r) ==
  /\ Terminal(r)
  /\ Writable
  /\ driver[r] # "live"
  /\ ProjectionStale(r) \/ ~HasTerminalEvent(r)

-----------------------------------------------------------------------------
(* Admission of a queued run: one batch.                                   *)

Admissible_AnyStatus ==
  /\ ~session.archived
  /\ session.status # "TERMINATED"
  /\ session.op = NoOperation

Admissible ==
  /\ ~session.archived
  /\ session.status = "IDLE"
  /\ session.op = NoOperation
  /\ \A r \in Runs : ~Active(r)

Admit(r) ==
  /\ run[r].status = "absent"
  /\ Admissible
  /\ run' = [run EXCEPT ![r] = [@ EXCEPT !.status = "queued"]]
  /\ session' = [SessionPatch("RUNNING", NoOperation) EXCEPT !.lastRun = r]
  /\ UNCHANGED <<driver, events, dispatches, worker, crashes>>

-----------------------------------------------------------------------------
(* The callers of transitionSessionRunStatus, each under its own guard.    *)

Start(w, call) ==
  /\ worker[w] = Idle
  /\ worker' = [worker EXCEPT ![w] = call]
  /\ UNCHANGED <<session, run, driver, events, dispatches, crashes>>

\* A dispatcher, inline or from the queue, that found the run queued.
Dispatch(w, r) ==
  /\ run[r].status = "queued"
  /\ Start(w, Call("dispatch", r, "booting", FALSE))

\* A dispatcher that found the run queued and could not hydrate its context.
FailHydration(w, r) ==
  /\ run[r].status = "queued"
  /\ Start(w, Call("hydrate", r, "failed", TRUE))

\* The dispatcher that won the run could not provision or reach its driver.
FailProvision(w, r) ==
  /\ dispatches[r] > 0
  /\ Start(w, Call("failure", r, "failed", TRUE))

\* A batch of driver events that moves the run; replayed until acknowledged.
DriverEvent(w, r, target) ==
  /\ driver[r] = "live"
  /\ target \in {"running", "waiting_input"} => run[r].seq < MaxFlipSeq
  /\ Start(w, Call("driver", r, target, target \in TerminalStatuses))

\* The driver object records that its driver failed, or that it completed.
DriverFailure(w, r) ==
  /\ driver[r] # "none"
  /\ Start(w, Call("failure", r, "failed", TRUE))

DriverCompletion(w, r) ==
  /\ driver[r] # "none"
  /\ Active(r) \/ run[r].status = "completed"
  /\ Start(w, Call("driver", r, "completed", TRUE))

\* The driver object found its driver gone with the run still active.
Reclaim(w, r) ==
  /\ driver[r] = "gone"
  /\ Active(r)
  /\ Start(w, Call("driver", r, "failed", TRUE))

ViewerCancel(w, r) ==
  /\ Active(r)
  /\ Start(w, Call("viewer", r, "cancelled", TRUE))

\* The sweep found the run active without a sign of life of its driver.
FailStale_NeedsDriver(r) ==
  /\ Active(r)
  /\ driver[r] = "gone"
  /\ Start(Sweeper, Call("maintenance", r, "failed", FALSE))

FailStale(r) ==
  /\ Active(r)
  /\ Start(Sweeper, Call("maintenance", r, "failed", FALSE))

\* The sweep found a terminal run whose projection or final event is missing.
\* It repeats the transition only when the projection is stale.
Reconcile(r) ==
  /\ Reconcilable(r)
  /\ LET call == Call("maintenance", r, run[r].status, ~HasTerminalEvent(r))
     IN Start(Sweeper, IF ProjectionStale(r) THEN call ELSE [call EXCEPT !.pc = "append"])

-----------------------------------------------------------------------------
(* The steps of a call.                                                    *)

\* The callers that append the run's final event after this outcome.
AppendsAfter_EvenStale(call, outcome) == call.appends /\ outcome # "repair_needed"
AppendsAfter(call, outcome) ==
  /\ call.appends
  /\ outcome = "applied" \/ (outcome = "duplicate" /\ call.by # "viewer")

\* recordCanonicalSessionRunFailure reads the run again when it lost.
RereadsAfter(call, outcome) ==
  /\ call.by = "failure"
  /\ outcome \in {"stale", "lost", "rejected"}

Resume(call, outcome) ==
  CASE AppendsAfter(call, outcome)   -> [call EXCEPT !.pc = "append", !.seen = NoSnapshot]
    [] RereadsAfter(call, outcome)   -> [call EXCEPT !.pc = "reread", !.seen = NoSnapshot]
    [] call.by \in {"stop", "system"} -> [Idle EXCEPT !.pc = outcome]
    [] OTHER                         -> Idle

Return(w, outcome) == worker' = [worker EXCEPT ![w] = Resume(@, outcome)]

NeedsRepair(call) ==
  /\ ~call.preserve
  /\ session.lastRun = call.run
  /\ session.status \notin {Projected(call.target), "TERMINATED"}

\* The row may have been deleted; only the failed hydration expects a status, "queued".
ReadDecision_ExpectsNothing(call) ==
  IF run[call.run].status = "absent" THEN "rejected" ELSE Decision(run[call.run].status, call.target)
ReadDecision(call) ==
  IF run[call.run].status = "absent" \/ (call.by = "hydrate" /\ run[call.run].status # "queued")
  THEN "rejected"
  ELSE Decision(run[call.run].status, call.target)

\* Reads the run and its session, and decides.
ReadRun(w) ==
  LET call     == worker[w]
      row      == run[call.run]
      decision == ReadDecision(call)
      snapshot == [status |-> row.status, seq |-> row.seq,
                   last |-> session.lastRun, session |-> session.status]
  IN /\ call.pc = "read"
     /\ \/ /\ decision = "accepted"
           /\ worker' = [worker EXCEPT ![w].pc = "write", ![w].seen = snapshot]
        \/ /\ decision = "duplicate"
           /\ NeedsRepair(call)
           /\ worker' = [worker EXCEPT ![w].pc = "repair"]
        \/ /\ decision = "duplicate"
           /\ ~NeedsRepair(call)
           /\ Return(w, "duplicate")
        \/ /\ decision \in {"stale", "rejected"}
           /\ Return(w, decision)
     /\ UNCHANGED <<session, run, driver, events, dispatches, crashes>>

\* The compare-and-set, with the session update batched to it unless the
\* caller preserves the session or saw that another run is its last one.
RowIsAsSeen_Unchecked(call) == call.run \in Runs
RowIsAsSeen(call) == run[call.run].status = call.seen.status /\ run[call.run].seq = call.seen.seq

Moved(call) ==
  [run EXCEPT ![call.run] = [status |-> call.target, seq |-> @.seq + 1, op |-> call.op]]

ProjectsOn(call) == ~call.preserve /\ call.seen.last = call.run

UpdatesSession_AnyRun(call) == ProjectsOn(call) /\ session.status # "TERMINATED"
UpdatesSession_Terminated(call) == ProjectsOn(call) /\ session.lastRun = call.run
UpdatesSession(call) ==
  ProjectsOn(call) /\ session.lastRun = call.run /\ session.status # "TERMINATED"

WriteOutcome(call) ==
  IF ProjectsOn(call) /\ ~UpdatesSession(call) /\ call.seen.session # "TERMINATED"
  THEN "repair_needed"
  ELSE "applied"

WriteRun(w) ==
  LET call == worker[w]
  IN /\ call.pc = "write"
     /\ RowIsAsSeen(call)
     /\ run' = Moved(call)
     /\ session' = IF UpdatesSession(call)
                   THEN SessionPatch(Projected(call.target), NoOperation)
                   ELSE session
     /\ dispatches' = IF call.by = "dispatch" THEN [dispatches EXCEPT ![call.run] = @ + 1]
                                              ELSE dispatches
     /\ Return(w, WriteOutcome(call))
     /\ UNCHANGED <<driver, events, crashes>>

\* The batched session update only asks whether the run is where this call wanted
\* it, so it also applies when another writer made the same move.
LoseRace(w) ==
  LET call    == worker[w]
      arrived == run[call.run].status = call.target /\ run[call.run].seq = call.seen.seq + 1
  IN /\ call.pc = "write"
     /\ ~RowIsAsSeen(call)
     /\ session' = IF arrived /\ UpdatesSession(call)
                   THEN SessionPatch(Projected(call.target), NoOperation)
                   ELSE session
     /\ Return(w, "lost")
     /\ UNCHANGED <<run, driver, events, dispatches, crashes>>

\* A duplicate request brings the session back in line with its last run,
\* without looking at the run again.
RepairProjection(w) ==
  LET call    == worker[w]
      applies == session.lastRun = call.run /\ session.status # "TERMINATED"
  IN /\ call.pc = "repair"
     /\ session' = IF applies THEN SessionPatch(Projected(call.target), NoOperation) ELSE session
     /\ Return(w, IF applies THEN "duplicate" ELSE "repair_needed")
     /\ UNCHANGED <<run, driver, events, dispatches, crashes>>

Reread(w) ==
  LET call == worker[w]
  IN /\ call.pc = "reread"
     /\ worker' = [worker EXCEPT ![w] = IF run[call.run].status = call.target
                                        THEN [call EXCEPT !.pc = "append"] ELSE Idle]
     /\ UNCHANGED <<session, run, driver, events, dispatches, crashes>>

\* Appends the final event, once per run and status; refused when the session
\* takes no events any more.
AppendEvent(w) ==
  LET call == worker[w]
  IN /\ call.pc = "append"
     /\ events' = IF Writable THEN events \cup {[run |-> call.run, status |-> call.target]}
                              ELSE events
     /\ worker' = [worker EXCEPT ![w] = Idle]
     /\ UNCHANGED <<session, run, driver, dispatches, crashes>>

\* The writes that reach the session alone.  Without operations the second is never
\* needed; RuntimeOperation reaches it.
WriteSession(w) ==
  /\ worker[w].pc \in {"write", "repair"}
  /\ LoseRace(w) \/ RepairProjection(w)

Step(w) ==
  \/ ReadRun(w) \/ WriteRun(w) \/ WriteSession(w)
  \/ Reread(w) \/ AppendEvent(w)

-----------------------------------------------------------------------------
(* The driver instance that executes the run, and lost executions.         *)

\* Only the dispatcher that won the run links a driver to it, while it is active.
LeaseDriver(r) ==
  /\ dispatches[r] > 0
  /\ Active(r)
  /\ driver[r] = "none"
  /\ driver' = [driver EXCEPT ![r] = "live"]
  /\ UNCHANGED <<session, run, events, dispatches, worker, crashes>>

\* The dispatcher gives up the driver of an attempt before it retries.
ReleaseLease(r) ==
  /\ driver[r] # "none"
  /\ Active(r)
  /\ driver' = [driver EXCEPT ![r] = "none"]
  /\ UNCHANGED <<session, run, events, dispatches, worker, crashes>>

DriverStops(r) ==
  /\ driver[r] = "live"
  /\ driver' = [driver EXCEPT ![r] = "gone"]
  /\ UNCHANGED <<session, run, events, dispatches, worker, crashes>>

Crash(w) ==
  /\ worker[w] # Idle
  /\ crashes < MaxCrashes
  /\ worker' = [worker EXCEPT ![w] = Idle]
  /\ crashes' = crashes + 1
  /\ UNCHANGED <<session, run, driver, events, dispatches>>

-----------------------------------------------------------------------------
Init ==
  /\ session = [status |-> "IDLE", seq |-> 0, op |-> NoOperation,
                archived |-> FALSE, lastRun |-> NoRun]
  /\ run = [r \in Runs |-> [status |-> "absent", seq |-> 0, op |-> NoOperation]]
  /\ driver = [r \in Runs |-> "none"]
  /\ events = {}
  /\ dispatches = [r \in Runs |-> 0]
  /\ worker = [w \in Workers |-> Idle]
  /\ crashes = 0

HandlerStarts(w, r) ==
  \/ Dispatch(w, r) \/ FailHydration(w, r) \/ FailProvision(w, r)
  \/ DriverFailure(w, r) \/ DriverCompletion(w, r) \/ Reclaim(w, r)
  \/ ViewerCancel(w, r)
  \/ \E target \in RunStatuses \ {"queued", "booting", "expired"} : DriverEvent(w, r, target)

SweeperStarts(r) == FailStale(r) \/ Reconcile(r)

DriverChanges(r) == LeaseDriver(r) \/ ReleaseLease(r) \/ DriverStops(r)

Next ==
  \/ \E r \in Runs : Admit(r) \/ SweeperStarts(r) \/ DriverChanges(r)
  \/ \E w \in Handlers, r \in Runs : HandlerStarts(w, r)
  \/ \E w \in Workers : Step(w)
  \/ \E w \in Workers \ Operations : Crash(w)

Spec == Init /\ [][Next]_vars

\* Executions that are not lost go on, and the scheduled sweep, which takes its
\* candidates oldest first, gets to every one of them.  Nothing else is fair:
\* no dispatch, driver event or viewer request need ever come.
Fairness ==
  /\ \A w \in Workers : WF_vars(Step(w))
  /\ \A r \in Runs : SF_vars(driver[r] # "live" /\ FailStale(r))
  /\ \A r \in Runs : SF_vars(Reconcile(r))

FairSpec == Spec /\ Fairness

-----------------------------------------------------------------------------
(* Properties.                                                             *)

Sessions == [status : SessionStatuses, seq : Nat, op : Operations \cup {NoOperation},
             archived : BOOLEAN, lastRun : Runs \cup {NoRun}]

Rows == [status : RunStatuses \cup {"absent"}, seq : Nat, op : Operations \cup {NoOperation}]

Snapshots == [status : RunStatuses \cup {"absent"}, seq : Nat,
              last : Runs \cup {NoRun}, session : SessionStatuses]

Calls == [pc : {"idle", "read", "write", "repair", "reread", "append"} \cup Outcomes, by : Callers,
          run : Runs \cup {NoRun}, target : RunStatuses, preserve : BOOLEAN,
          op : Operations \cup {NoOperation}, appends : BOOLEAN, seen : Snapshots]

Busy(call) == call.pc \notin {"idle"} \cup Outcomes

\* Every variable has its type, and a busy worker works on a run.
TypeOK ==
  /\ session \in Sessions
  /\ run \in [Runs -> Rows]
  /\ driver \in [Runs -> {"none", "live", "gone"}]
  /\ events \subseteq [run : Runs, status : RunStatuses]
  /\ dispatches \in [Runs -> Nat]
  /\ worker \in [Workers -> Calls]
  /\ crashes \in 0..MaxCrashes
  /\ \A w \in Workers : Busy(worker[w]) => worker[w].run \in Runs

\* At most one run of the session is active, and it is the session's last run.
\* No unique index of the database says so: the admission batch must.
OneActiveRun ==
  \A r \in Runs : Active(r) => /\ session.lastRun = r
                               /\ \A other \in Runs \ {r} : ~Active(other)

\* While neither an operation nor a deletion owns the session, it is RUNNING
\* exactly as long as its last run is active, whatever the writers raced on.
SessionFollowsRun ==
  session.status \in {"IDLE", "RUNNING"} =>
    (session.status = "RUNNING" <=> \E r \in Runs : Active(r))

\* However often a queued run is delivered, one dispatcher wins it and provisions it.
OneDispatcher == \A r \in Runs : dispatches[r] <= 1

\* A dispatcher that could not hydrate a run never fails it once another one won it.
HydrationFailsOnlyUnclaimed ==
  [][\A w \in Workers :
       (worker[w].by = "hydrate" /\ WriteRun(w)) => dispatches[worker[w].run] = 0]_vars

\* A final event that was persisted tells how the run really ended, even when
\* several writers raced to end it.
FinalEventsTrue ==
  \A e \in events : run[e.run].status = e.status /\ e.status \in TerminalStatuses

\* A run that ended never changes again.
TerminalIsFinal == [][\A r \in Runs : Terminal(r) => run'[r] = run[r]]_run

\* Whichever request, operation, run writer or driver event comes late, a session
\* that was terminated is never shown idle or running again.
TerminatedIsFinal ==
  [][session.status = "TERMINATED" => session'.status = "TERMINATED"]_session

\* Whoever only looks at the statuses sees the abstract lifecycle.
Lifecycle == INSTANCE RunLifecycle WITH status <- [r \in Runs |-> run[r].status]
ImplementsLifecycle == Lifecycle!Spec

\* An active run nobody executes ends, unless a driver is linked to it.
StrandedRunEnds ==
  \A r \in Runs : (Active(r) /\ driver[r] # "live") ~> (Terminal(r) \/ driver[r] = "live")

\* A run that ended and whose driver is gone gets its final event, whatever
\* execution was lost between the transition and the event, while the session
\* takes events.
FinalEventPersisted ==
  \A r \in Runs : (Terminal(r) /\ driver[r] # "live") ~> (HasTerminalEvent(r) \/ ~Writable)
=============================================================================
