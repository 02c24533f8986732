-------------------------- MODULE SessionRunProofs --------------------------
(***************************************************************************)
(* The type correctness and the safety properties of SessionRun, for any   *)
(* number of runs, handlers and lost executions.                           *)
(*                                                                         *)
(* TypeOK is inductive.  None of the others is alone: what a worker may    *)
(* write depends on what it read before others wrote.  RunInv therefore    *)
(* says what a call in progress still knows about its run (Informed): a    *)
(* call about to write holds an edge of the machine that leaves the status *)
(* it read, and a call about to append a final event works on a run that   *)
(* ended that way.  The compare-and-set turns the first into a fact about  *)
(* the run, and the finality of terminal statuses (TerminalStays)          *)
(* preserves the second.                                                   *)
(*                                                                         *)
(* Last, what stopping a session's driver keeps of all this, for the       *)
(* modules whose operations stop one: a stop that goes on to cancel has    *)
(* noted a run (StopInv), so that the call it makes is a call on a run.    *)
(***************************************************************************)
EXTENDS DriverStop, TLAPS

\* The statuses: active and terminal ones are disjoint, and the machine and the
\* projection stay among the known ones.
LEMMA StatusFacts ==
  /\ ActiveStatuses \subseteq RunStatuses
  /\ TerminalStatuses \subseteq RunStatuses
  /\ ActiveStatuses \cap TerminalStatuses = {}
  /\ "absent" \notin RunStatuses
  /\ \A s \in RunStatuses : Projected(s) \in {"IDLE", "RUNNING"}
  /\ \A s \in RunStatuses : NextStatuses[s] \subseteq RunStatuses
BY DEF ActiveStatuses, TerminalStatuses, RunStatuses, Projected, NextStatuses

\* A worker that does nothing has the type of a call.
LEMMA IdleType == Idle \in Calls /\ Idle.pc = "idle"
BY DEF Idle, NoSnapshot, Calls, Snapshots, Callers, RunStatuses, ActiveStatuses,
       SessionStatuses, TerminalStatuses

\* A call starts with reading, and is what its caller asked for.
LEMMA CallType ==
  ASSUME NEW by \in Callers, NEW r \in Runs, NEW target \in RunStatuses, NEW appends \in BOOLEAN
  PROVE  LET call == Call(by, r, target, appends)
         IN /\ call \in Calls /\ call.pc = "read" /\ call.by = by /\ call.run = r
            /\ call.target = target /\ call.appends = appends /\ ~call.preserve
BY IdleType DEF Call, Idle, Calls

\* What a worker does after an outcome: append, read again, hand the outcome to its
\* caller, or nothing.
LEMMA ResumeCases ==
  ASSUME NEW call, NEW outcome
  PROVE  \/ /\ AppendsAfter(call, outcome)
            /\ Resume(call, outcome) = [call EXCEPT !.pc = "append", !.seen = NoSnapshot]
         \/ /\ RereadsAfter(call, outcome)
            /\ Resume(call, outcome) = [call EXCEPT !.pc = "reread", !.seen = NoSnapshot]
         \/ Resume(call, outcome) = [Idle EXCEPT !.pc = outcome]
         \/ Resume(call, outcome) = Idle
BY DEF Resume

\* What a call has read before it read anything.
LEMMA SnapshotType == NoSnapshot \in Snapshots
BY DEF NoSnapshot, Snapshots, SessionStatuses

\* Whatever a worker does next is a call on the same run.
LEMMA ResumeType ==
  ASSUME NEW call \in Calls, call.run \in Runs, NEW outcome \in Outcomes
  PROVE  LET next == Resume(call, outcome)
         IN /\ next \in Calls
            /\ next.pc \notin {"idle"} \cup Outcomes => next.run \in Runs
<1>1. [call EXCEPT !.pc = "append", !.seen = NoSnapshot] \in Calls
  BY SnapshotType DEF Calls
<1>2. [call EXCEPT !.pc = "reread", !.seen = NoSnapshot] \in Calls
  BY SnapshotType DEF Calls
<1>3. [Idle EXCEPT !.pc = outcome] \in Calls
  BY IdleType DEF Calls
<1>4. Resume(call, outcome) \in Calls
  BY <1>1, <1>2, <1>3, ResumeCases, IdleType
<1>5. CASE Resume(call, outcome).run = call.run
  BY <1>4, <1>5
<1>6. CASE Resume(call, outcome) = [Idle EXCEPT !.pc = outcome]
  <2>1. Resume(call, outcome).pc = outcome
    BY <1>6, IdleType DEF Calls
  <2> QED BY <1>4, <2>1
<1>7. CASE Resume(call, outcome) = Idle
  BY <1>4, <1>7, IdleType
<1>8. [call EXCEPT !.pc = "append", !.seen = NoSnapshot].run = call.run
  BY DEF Calls
<1>9. [call EXCEPT !.pc = "reread", !.seen = NoSnapshot].run = call.run
  BY DEF Calls
<1> QED BY <1>5, <1>6, <1>7, <1>8, <1>9, ResumeCases

\* A write of the session status leaves a session row.
LEMMA PatchType ==
  ASSUME session \in Sessions, NEW status \in SessionStatuses,
         NEW operation \in Operations \cup {NoOperation}
  PROVE  /\ SessionPatch(status, operation) \in Sessions
         /\ SessionPatch(status, operation).status = status
         /\ SessionPatch(status, operation).lastRun = session.lastRun
<1> DEFINE owner  == IF status = "RESCHEDULING" THEN operation ELSE NoOperation
           number == session.seq + 1
<1>1. owner \in Operations \cup {NoOperation} /\ number \in Nat
  BY DEF Sessions
<1>2. SessionPatch(status, operation) =
        [session EXCEPT !.status = status, !.op = owner, !.seq = number]
  BY Zenon DEF SessionPatch
<1> HIDE DEF owner, number
<1> QED BY <1>1, <1>2 DEF Sessions

\* The compare-and-set changes the status of one run, and leaves rows.
LEMMA MovedType ==
  ASSUME run \in [Runs -> Rows], NEW call \in Calls, call.run \in Runs
  PROVE  /\ Moved(call) \in [Runs -> Rows]
         /\ Moved(call)[call.run].status = call.target
         /\ \A r \in Runs \ {call.run} : Moved(call)[r] = run[r]
<1> DEFINE number == run[call.run].seq + 1
           row    == [status |-> call.target, seq |-> number, op |-> call.op]
<1>1. number \in Nat
  BY DEF Rows
<1>2. Moved(call) = [run EXCEPT ![call.run] = row]
  BY Zenon DEF Moved
<1>3. row \in Rows /\ row.status = call.target
  BY <1>1 DEF Rows, Calls
<1> HIDE DEF row
<1> QED BY <1>2, <1>3

-----------------------------------------------------------------------------
(* The calls in progress.                                                  *)

WorkersOK == /\ worker \in [Workers -> Calls]
             /\ \A w \in Workers : Busy(worker[w]) => worker[w].run \in Runs

\* One worker goes on to another call; the others stay as they are.
LEMMA WorkerChange ==
  ASSUME WorkersOK, NEW w \in Workers, NEW call \in Calls, Busy(call) => call.run \in Runs,
         worker' = [worker EXCEPT ![w] = call]
  PROVE  WorkersOK'
BY DEF WorkersOK, Busy

\* A worker that returns goes on to a call.
LEMMA ReturnType ==
  ASSUME WorkersOK, NEW w \in Workers, worker[w].run \in Runs, NEW outcome \in Outcomes,
         Return(w, outcome)
  PROVE  WorkersOK'
<1>1. worker' = [worker EXCEPT ![w] = Resume(worker[w], outcome)]
  BY DEF Return
<1>2. worker[w] \in Calls
  BY DEF WorkersOK
<1> QED BY <1>1, <1>2, ResumeType, WorkerChange DEF Busy

\* What every call of SessionRun is when it starts.
Startable(call, r) ==
  /\ call \in Calls
  /\ call.run = r
  /\ ~call.preserve
  /\ call.appends => call.target \in TerminalStatuses
  /\ call.by = "dispatch" => call.target = "booting"
  /\ call.by \in {"hydrate", "failure"} => call.target = "failed"
  /\ \/ call.pc = "read"
     \/ call.pc = "append" /\ call.target = run[r].status /\ Terminal(r)

\* Every caller on a handler starts a call of its own kind (Startable).
LEMMA HandlerCalls ==
  ASSUME NEW w, NEW r \in Runs, HandlerStarts(w, r)
  PROVE  \E call : Startable(call, r) /\ Start(w, call)
<1> DEFINE Begins(by, target, appends) ==
             LET call == Call(by, r, target, appends) IN Startable(call, r) /\ Start(w, call)
<1>1. ASSUME NEW by \in Callers, NEW target \in RunStatuses, NEW appends \in BOOLEAN,
             appends => target \in TerminalStatuses,
             by = "dispatch" => target = "booting",
             by \in {"hydrate", "failure"} => target = "failed"
      PROVE  Startable(Call(by, r, target, appends), r)
  BY <1>1, CallType DEF Startable
<1>2. CASE Dispatch(w, r)
  <2>1. Startable(Call("dispatch", r, "booting", FALSE), r)
    BY <1>1 DEF Callers, RunStatuses, ActiveStatuses
  <2> QED BY <1>2, <2>1 DEF Dispatch
<1>3. CASE FailHydration(w, r)
  <2>1. Startable(Call("hydrate", r, "failed", TRUE), r)
    BY <1>1 DEF Callers, RunStatuses, TerminalStatuses
  <2> QED BY <1>3, <2>1 DEF FailHydration
<1>4. CASE FailProvision(w, r) \/ DriverFailure(w, r)
  <2>1. Startable(Call("failure", r, "failed", TRUE), r)
    BY <1>1 DEF Callers, RunStatuses, TerminalStatuses
  <2> QED BY <1>4, <2>1 DEF FailProvision, DriverFailure
<1>5. CASE DriverCompletion(w, r)
  <2>1. Startable(Call("driver", r, "completed", TRUE), r)
    BY <1>1 DEF Callers, RunStatuses, TerminalStatuses
  <2> QED BY <1>5, <2>1 DEF DriverCompletion
<1>6. CASE Reclaim(w, r)
  <2>1. Startable(Call("driver", r, "failed", TRUE), r)
    BY <1>1 DEF Callers, RunStatuses, TerminalStatuses
  <2> QED BY <1>6, <2>1 DEF Reclaim
<1>7. CASE ViewerCancel(w, r)
  <2>1. Startable(Call("viewer", r, "cancelled", TRUE), r)
    BY <1>1 DEF Callers, RunStatuses, TerminalStatuses
  <2> QED BY <1>7, <2>1 DEF ViewerCancel
<1>8. ASSUME NEW target \in RunStatuses, DriverEvent(w, r, target)
      PROVE  \E call : Startable(call, r) /\ Start(w, call)
  <2> DEFINE final == target \in TerminalStatuses
  <2>1. final \in BOOLEAN /\ (final => target \in TerminalStatuses)
    OBVIOUS
  <2>2. Start(w, Call("driver", r, target, final))
    BY <1>8 DEF DriverEvent
  <2> HIDE DEF final
  <2>3. Startable(Call("driver", r, target, final), r)
    BY <1>1, <2>1 DEF Callers
  <2> QED BY <2>2, <2>3
<1> QED BY <1>2, <1>3, <1>4, <1>5, <1>6, <1>7, <1>8 DEF HandlerStarts

\* So does the sweep.
LEMMA SweeperCalls ==
  ASSUME NEW r \in Runs, SweeperStarts(r)
  PROVE  \E call : Startable(call, r) /\ Start(Sweeper, call)
<1>1. CASE FailStale(r)
  <2> DEFINE call == Call("maintenance", r, "failed", FALSE)
  <2>1. "maintenance" \in Callers /\ "failed" \in RunStatuses /\ FALSE \in BOOLEAN
    BY DEF Callers, RunStatuses, TerminalStatuses
  <2>2. /\ call \in Calls /\ call.pc = "read" /\ call.by = "maintenance" /\ call.run = r
        /\ ~call.appends /\ ~call.preserve
    BY <2>1, IdleType DEF Call, Idle, Calls
  <2>3. Start(Sweeper, call)
    BY <1>1 DEF FailStale
  <2> HIDE DEF call
  <2>4. Startable(call, r)
    BY <2>2 DEF Startable
  <2> QED BY <2>3, <2>4
<1>2. CASE Reconcile(r)
  <2> DEFINE missing  == ~HasTerminalEvent(r)
             repeated == Call("maintenance", r, run[r].status, missing)
             appended == [repeated EXCEPT !.pc = "append"]
  <2>1. Terminal(r)
    BY <1>2 DEF Reconcile, Reconcilable
  <2>2. run[r].status \in RunStatuses /\ "maintenance" \in Callers
    BY <2>1 DEF Terminal, RunStatuses, Callers
  <2>3. missing \in BOOLEAN
    OBVIOUS
  <2> HIDE DEF missing
  <2>4. /\ repeated \in Calls /\ repeated.pc = "read" /\ repeated.by = "maintenance"
        /\ repeated.run = r /\ repeated.target = run[r].status /\ ~repeated.preserve
    BY <2>2, <2>3, CallType
  <2> HIDE DEF repeated
  <2>5. Startable(repeated, r)
    BY <2>1, <2>4 DEF Startable, Terminal
  <2>6. /\ appended \in Calls /\ appended.pc = "append" /\ appended.by = "maintenance"
        /\ appended.run = r /\ appended.target = run[r].status /\ ~appended.preserve
    BY <2>4 DEF Calls
  <2> HIDE DEF appended
  <2>7. Startable(appended, r)
    BY <2>1, <2>6 DEF Startable, Terminal
  <2>8. Start(Sweeper, repeated) \/ Start(Sweeper, appended)
    BY <1>2 DEF Reconcile, missing, repeated, appended
  <2> QED BY <2>5, <2>7, <2>8
<1> QED BY <1>1, <1>2 DEF SweeperStarts

-----------------------------------------------------------------------------
(* Type correctness.                                                       *)

\* The first state has its type.
LEMMA TypeInit == Init => TypeOK
<1> SUFFICES ASSUME Init PROVE TypeOK
  OBVIOUS
<1>1. session \in Sessions
  BY DEF Init, Sessions, SessionStatuses
<1>2. run \in [Runs -> Rows]
  BY DEF Init, Rows
<1>3. worker \in [Workers -> Calls] /\ \A w \in Workers : ~Busy(worker[w])
  BY IdleType DEF Init, Busy
<1> QED BY <1>1, <1>2, <1>3, ConstantsAssumption DEF Init, TypeOK, ConstantsAssumption

\* Starting a call keeps the type.
LEMMA TypeStart ==
  ASSUME TypeOK, NEW w \in Workers, NEW r \in Runs, NEW call, Startable(call, r), Start(w, call)
  PROVE  TypeOK'
<1>1. WorkersOK
  BY DEF TypeOK, WorkersOK
<1>2. WorkersOK'
  BY <1>1, WorkerChange DEF Start, Startable
<1> QED BY <1>2 DEF TypeOK, WorkersOK, Start

\* Admission keeps the type.
LEMMA TypeAdmit == ASSUME TypeOK, NEW r \in Runs, Admit(r) PROVE TypeOK'
<1>1. session' \in Sessions
  <2> DEFINE patched == SessionPatch("RUNNING", NoOperation)
  <2>1. patched \in Sessions
    BY PatchType DEF TypeOK, SessionStatuses
  <2>2. session' = [patched EXCEPT !.lastRun = r]
    BY DEF Admit
  <2> HIDE DEF patched
  <2> QED BY <2>1, <2>2 DEF Sessions
<1>2. run' \in [Runs -> Rows]
  BY DEF Admit, TypeOK, Rows, RunStatuses, ActiveStatuses
<1> QED BY <1>1, <1>2 DEF Admit, TypeOK, Busy

\* Every step of a call keeps the type.
LEMMA TypeStep == ASSUME TypeOK, NEW w \in Workers, Step(w) PROVE TypeOK'
<1> DEFINE call == worker[w]
<1>1. WorkersOK /\ call \in Calls
  BY DEF TypeOK, WorkersOK
<1>2. call.run \in Runs /\ call.target \in RunStatuses
  BY <1>1 DEF Step, WriteSession, ReadRun, WriteRun, LoseRace, RepairProjection, Reread, AppendEvent,
     TypeOK, Busy, Outcomes, Calls
<1>3. SessionPatch(Projected(call.target), NoOperation) \in Sessions
  BY <1>2, StatusFacts, PatchType DEF TypeOK, SessionStatuses
<1>4. CASE ReadRun(w)
  <2>1. WorkersOK'
    <3> DEFINE snapshot == [status |-> run[call.run].status, seq |-> run[call.run].seq,
                            last |-> session.lastRun, session |-> session.status]
    <3>1. snapshot \in Snapshots
      BY <1>2 DEF TypeOK, Snapshots, Rows, Sessions
    <3>2. CASE worker' = [worker EXCEPT ![w] = [call EXCEPT !.pc = "write", !.seen = snapshot]]
      <4>1. /\ [call EXCEPT !.pc = "write", !.seen = snapshot] \in Calls
            /\ [call EXCEPT !.pc = "write", !.seen = snapshot].run \in Runs
        BY <1>1, <1>2, <3>1 DEF Calls
      <4> HIDE DEF snapshot
      <4> QED BY <1>1, <3>2, <4>1, WorkerChange
    <3>3. CASE worker' = [worker EXCEPT ![w] = [call EXCEPT !.pc = "repair"]]
      <4>1. /\ [call EXCEPT !.pc = "repair"] \in Calls
            /\ [call EXCEPT !.pc = "repair"].run \in Runs
        BY <1>1, <1>2 DEF Calls
      <4> QED BY <1>1, <3>3, <4>1, WorkerChange
    <3>4. CASE \E outcome \in Outcomes : Return(w, outcome)
      BY <1>1, <1>2, <3>4, ReturnType
    <3> QED BY <1>4, <3>2, <3>3, <3>4 DEF ReadRun, Outcomes
  <2> QED BY <1>4, <2>1 DEF ReadRun, TypeOK, WorkersOK
<1>5. CASE WriteRun(w)
  <2>1. Return(w, "applied") \/ Return(w, "repair_needed")
    BY <1>5 DEF WriteRun, WriteOutcome
  <2>2. WorkersOK'
    BY <1>1, <1>2, <2>1, ReturnType DEF Outcomes
  <2>3. run' \in [Runs -> Rows]
    BY <1>1, <1>2, <1>5, MovedType DEF WriteRun, TypeOK
  <2>4. session' \in Sessions
    BY <1>3, <1>5 DEF WriteRun, TypeOK
  <2>5. dispatches' \in [Runs -> Nat]
    BY <1>2, <1>5 DEF WriteRun, TypeOK
  <2> QED BY <1>5, <2>2, <2>3, <2>4, <2>5 DEF WriteRun, TypeOK, WorkersOK
<1>6. CASE LoseRace(w)
  <2>1. WorkersOK'
    BY <1>1, <1>2, <1>6, ReturnType DEF LoseRace, Outcomes
  <2>2. session' \in Sessions
    BY <1>3, <1>6 DEF LoseRace, TypeOK
  <2> QED BY <1>6, <2>1, <2>2 DEF LoseRace, TypeOK, WorkersOK
<1>7. CASE RepairProjection(w)
  <2>1. Return(w, "duplicate") \/ Return(w, "repair_needed")
    BY <1>7 DEF RepairProjection
  <2>2. WorkersOK'
    BY <1>1, <1>2, <2>1, ReturnType DEF Outcomes
  <2>3. session' \in Sessions
    BY <1>3, <1>7 DEF RepairProjection, TypeOK
  <2> QED BY <1>7, <2>2, <2>3 DEF RepairProjection, TypeOK, WorkersOK
<1>8. CASE Reread(w)
  <2>1. /\ [call EXCEPT !.pc = "append"] \in Calls
        /\ [call EXCEPT !.pc = "append"].run \in Runs
    BY <1>1, <1>2 DEF Calls
  <2>2. \/ worker' = [worker EXCEPT ![w] = [call EXCEPT !.pc = "append"]]
        \/ worker' = [worker EXCEPT ![w] = Idle]
    BY <1>8 DEF Reread
  <2>3. WorkersOK'
    BY <1>1, <2>1, <2>2, IdleType, WorkerChange DEF Busy
  <2> QED BY <1>8, <2>3 DEF Reread, TypeOK, WorkersOK
<1>9. CASE AppendEvent(w)
  <2>1. WorkersOK'
    BY <1>1, <1>9, IdleType, WorkerChange DEF AppendEvent, Busy
  <2>2. events' \subseteq [run : Runs, status : RunStatuses]
    BY <1>2, <1>9 DEF AppendEvent, TypeOK
  <2> QED BY <1>9, <2>1, <2>2 DEF AppendEvent, TypeOK, WorkersOK
<1> QED BY <1>4, <1>5, <1>6, <1>7, <1>8, <1>9 DEF Step, WriteSession

\* Driver changes and lost executions keep the type.
LEMMA TypeOther ==
  ASSUME TypeOK, \/ \E r \in Runs : DriverChanges(r)
                 \/ \E w \in Workers : Crash(w)
  PROVE  TypeOK'
<1>1. ASSUME NEW r \in Runs, DriverChanges(r) PROVE TypeOK'
  BY <1>1 DEF DriverChanges, LeaseDriver, ReleaseLease, DriverStops, TypeOK, Busy
<1>2. ASSUME NEW w \in Workers, Crash(w) PROVE TypeOK'
  <2>1. WorkersOK'
    BY <1>2, IdleType, WorkerChange DEF Crash, TypeOK, WorkersOK, Busy
  <2>2. crashes' \in 0..MaxCrashes
    BY <1>2, ConstantsAssumption DEF Crash, TypeOK, ConstantsAssumption
  <2> QED BY <1>2, <2>1, <2>2 DEF Crash, TypeOK, WorkersOK
<1> QED BY <1>1, <1>2

\* TypeOK is inductive.
LEMMA TypeNext == TypeOK /\ [Next]_vars => TypeOK'
<1> SUFFICES ASSUME TypeOK, [Next]_vars PROVE TypeOK'
  OBVIOUS
<1>1. CASE UNCHANGED vars
  BY <1>1 DEF vars, TypeOK, Busy
<1>2. ASSUME NEW r \in Runs, Admit(r) PROVE TypeOK'
  BY <1>2, TypeAdmit
<1>3. ASSUME NEW r \in Runs, SweeperStarts(r) PROVE TypeOK'
  BY <1>3, SweeperCalls, TypeStart DEF Workers
<1>4. ASSUME NEW w \in Handlers, NEW r \in Runs, HandlerStarts(w, r) PROVE TypeOK'
  BY <1>4, HandlerCalls, TypeStart DEF Workers
<1>5. ASSUME NEW w \in Workers, Step(w) PROVE TypeOK'
  BY <1>5, TypeStep
<1> QED BY <1>1, <1>2, <1>3, <1>4, <1>5, TypeOther DEF Next

\* Whatever writers, handlers and crashes interleave, every row and every call in
\* progress keeps its type.
THEOREM TypeCorrect == Spec => []TypeOK
<1> QED BY TypeInit, TypeNext, PTL DEF Spec

-----------------------------------------------------------------------------
(* Safety.                                                                 *)

Informed(call, rows) ==
  /\ call.appends => call.target \in TerminalStatuses
  /\ call.by = "dispatch" => call.target = "booting"
  /\ call.by \in {"hydrate", "failure"} => call.target = "failed"
  /\ call.pc = "write" => /\ call.seen.status \in RunStatuses
                          /\ call.target \in NextStatuses[call.seen.status]
                          /\ call.by = "hydrate" => call.seen.status = "queued"
  /\ call.pc = "append" => /\ call.target \in TerminalStatuses
                           /\ rows[call.run].status = call.target
  /\ call.pc = "repair" /\ call.appends => rows[call.run].status = call.target
  /\ call.pc = "reread" => call.target \in TerminalStatuses

CallsInformed == \A w \in Workers : Informed(worker[w], run)

\* A run nobody moved yet has no dispatcher.
Unclaimed == \A r \in Runs : run[r].status \in {"absent", "queued"} => dispatches[r] = 0

RunInv ==
  /\ TypeOK
  /\ CallsInformed
  /\ Unclaimed
  /\ OneDispatcher
  /\ OneActiveRun
  /\ FinalEventsTrue

-----------------------------------------------------------------------------
(* The machine.                                                            *)

\* An edge of the machine leaves an active status, never leads back to queued, and
\* leads to booting only from queued.
LEMMA EdgeFacts ==
  ASSUME NEW s \in RunStatuses, NEW t \in NextStatuses[s]
  PROVE  /\ s \in ActiveStatuses
         /\ t \in RunStatuses
         /\ t \notin {"absent", "queued"}
         /\ t = "booting" => s = "queued"
BY DEF NextStatuses, RunStatuses, ActiveStatuses, TerminalStatuses

\* What a decision that is not a refusal tells of the row it was read from.
LEMMA DecisionFacts ==
  ASSUME NEW call, ReadDecision(call) \notin {"stale", "rejected"},
         run[call.run].status \in RunStatuses \cup {"absent"}
  PROVE  /\ run[call.run].status \in RunStatuses
         /\ ReadDecision(call) = "accepted" =>
              /\ call.target \in NextStatuses[run[call.run].status]
              /\ call.by = "hydrate" => run[call.run].status = "queued"
         /\ ReadDecision(call) = "duplicate" => run[call.run].status = call.target
BY DEF ReadDecision, Decision

-----------------------------------------------------------------------------
(* Calls in progress.                                                      *)

\* A worker that does nothing knows nothing wrong.
LEMMA IdleInformed == ASSUME NEW rows PROVE Informed(Idle, rows)
BY DEF Informed, Idle

\* What a worker knows carries over to what it does after an outcome.
LEMMA ResumeInformed ==
  ASSUME NEW call \in Calls, NEW outcome \in Outcomes, NEW rows, NEW before,
         Informed(call, before),
         call.appends /\ outcome \in {"applied", "duplicate"} => rows[call.run].status = call.target
  PROVE  Informed(Resume(call, outcome), rows)
<1>1. CASE /\ AppendsAfter(call, outcome)
           /\ Resume(call, outcome) = [call EXCEPT !.pc = "append", !.seen = NoSnapshot]
  BY <1>1 DEF AppendsAfter, Informed, Calls
<1>2. CASE /\ RereadsAfter(call, outcome)
           /\ Resume(call, outcome) = [call EXCEPT !.pc = "reread", !.seen = NoSnapshot]
  BY <1>2 DEF RereadsAfter, Informed, Calls, TerminalStatuses
<1>3. CASE Resume(call, outcome) = [Idle EXCEPT !.pc = outcome]
  BY <1>3 DEF Informed, Idle, Outcomes
<1>4. CASE Resume(call, outcome) = Idle
  BY <1>4, IdleInformed
<1> QED BY <1>1, <1>2, <1>3, <1>4, ResumeCases

\* A worker moves on while terminal runs stay as they are.
LEMMA InformedChange ==
  ASSUME RunInv, NEW w \in Workers, NEW call, Informed(call, run'),
         worker' = [worker EXCEPT ![w] = call],
         \A r \in Runs : Terminal(r) => run'[r] = run[r]
  PROVE  CallsInformed'
<1> SUFFICES ASSUME NEW v \in Workers PROVE Informed(worker'[v], run')
  BY DEF CallsInformed
<1>1. worker \in [Workers -> Calls]
  BY DEF RunInv, TypeOK
<1>2. CASE v = w
  BY <1>1, <1>2
<1>3. CASE v # w
  <2>1. worker'[v] = worker[v] /\ Informed(worker[v], run)
    BY <1>1, <1>3 DEF RunInv, CallsInformed
  <2>2. Busy(worker[v]) => worker[v].run \in Runs
    BY DEF RunInv, TypeOK
  <2> QED BY <2>1, <2>2 DEF Informed, Busy, Terminal, Outcomes
<1> QED BY <1>2, <1>3

-----------------------------------------------------------------------------
(* The steps of SessionRun.                                                *)

\* A step that moves no run keeps what RunInv says of the rows.
LEMMA RowsKept ==
  ASSUME RunInv, run' = run, session'.lastRun = session.lastRun,
         UNCHANGED <<events, dispatches>>
  PROVE  Unclaimed' /\ OneDispatcher' /\ OneActiveRun' /\ FinalEventsTrue'
BY DEF RunInv, Unclaimed, OneDispatcher, OneActiveRun, FinalEventsTrue, Active

\* A call that starts is informed.
LEMMA InvStart ==
  ASSUME RunInv, TypeOK', NEW w \in Workers, NEW r \in Runs, NEW call,
         Startable(call, r), Start(w, call)
  PROVE  RunInv'
<1>1. Informed(call, run')
  BY DEF Startable, Start, Informed, Terminal
<1>2. CallsInformed'
  BY <1>1, InformedChange DEF Start
<1> QED BY <1>2, RowsKept DEF RunInv, Start

\* Admission keeps RunInv: no run was active, and the new one has no dispatcher.
LEMMA InvAdmit == ASSUME RunInv, TypeOK', NEW r \in Runs, Admit(r) PROVE RunInv'
<1>1. /\ run' \in [Runs -> Rows] /\ run'[r].status = "queued"
      /\ \A other \in Runs \ {r} : run'[other] = run[other]
      /\ run[r].status = "absent"
  BY DEF Admit, RunInv, TypeOK, Rows
<1>2. session'.lastRun = r
  <2> DEFINE patched == SessionPatch("RUNNING", NoOperation)
  <2>1. patched \in Sessions
    BY PatchType DEF RunInv, TypeOK, SessionStatuses
  <2>2. session' = [patched EXCEPT !.lastRun = r]
    BY DEF Admit
  <2> HIDE DEF patched
  <2> QED BY <2>1, <2>2 DEF Sessions
<1>3. \A other \in Runs : Terminal(other) => other # r /\ run'[other] = run[other]
  BY <1>1 DEF Terminal, TerminalStatuses
<1>4. CallsInformed'
  <2> SUFFICES ASSUME NEW w \in Workers PROVE Informed(worker[w], run')
    BY DEF Admit, CallsInformed
  <2>1. Informed(worker[w], run) /\ (Busy(worker[w]) => worker[w].run \in Runs)
    BY DEF RunInv, CallsInformed, TypeOK
  <2> QED BY <1>3, <2>1 DEF Informed, Busy, Outcomes, Terminal
<1>5. Unclaimed' /\ OneDispatcher'
  BY <1>1 DEF RunInv, Unclaimed, OneDispatcher, Admit
<1>6. OneActiveRun'
  BY <1>1, <1>2 DEF Admit, Admissible, OneActiveRun, Active, ActiveStatuses
<1>7. FinalEventsTrue'
  BY <1>3 DEF RunInv, TypeOK, FinalEventsTrue, Terminal, Admit
<1> QED BY <1>4, <1>5, <1>6, <1>7 DEF RunInv

\* The compare-and-set keeps RunInv: what the call read is what it writes on.
LEMMA InvWrite == ASSUME RunInv, TypeOK', NEW w \in Workers, WriteRun(w) PROVE RunInv'
<1> DEFINE call == worker[w]
           r    == call.run
<1>1. call \in Calls /\ r \in Runs
  BY DEF RunInv, TypeOK, WriteRun, Busy, Outcomes
<1>2. /\ call.seen.status \in RunStatuses /\ call.target \in NextStatuses[call.seen.status]
      /\ run[r].status = call.seen.status
      /\ call.by = "dispatch" => call.target = "booting"
  BY DEF RunInv, CallsInformed, Informed, WriteRun, RowIsAsSeen
<1>3. /\ run[r].status \in ActiveStatuses
      /\ call.target \notin {"absent", "queued"}
      /\ call.by = "dispatch" => run[r].status = "queued"
  BY <1>2, EdgeFacts
<1>4. run'[r].status = call.target /\ \A other \in Runs \ {r} : run'[other] = run[other]
  BY <1>1, MovedType DEF WriteRun, RunInv, TypeOK
<1>5. \A other \in Runs : Terminal(other) => other # r /\ run'[other] = run[other]
  BY <1>3, <1>4, StatusFacts DEF Terminal
<1>6. CallsInformed'
  <2>1. PICK outcome \in Outcomes : Return(w, outcome)
    BY DEF WriteRun, WriteOutcome, Outcomes
  <2>2. Informed(call, run)
    BY DEF RunInv, CallsInformed
  <2>3. Informed(Resume(call, outcome), run')
    BY <1>1, <1>4, <2>2, ResumeInformed
  <2> QED BY <1>5, <2>1, <2>3, InformedChange DEF Return
<1>7. Unclaimed' /\ OneDispatcher'
  <2>1. dispatches \in [Runs -> Nat]
    BY DEF RunInv, TypeOK
  <2>2. \A other \in Runs \ {r} : dispatches'[other] = dispatches[other]
    BY <1>1, <2>1 DEF WriteRun
  <2>3. dispatches'[r] <= 1
    <3>1. CASE call.by = "dispatch"
      <4>1. dispatches[r] = 0
        BY <1>1, <1>3, <3>1 DEF RunInv, Unclaimed
      <4>2. dispatches'[r] = dispatches[r] + 1
        BY <1>1, <2>1, <3>1 DEF WriteRun
      <4> QED BY <4>1, <4>2
    <3>2. CASE call.by # "dispatch"
      BY <1>1, <3>2 DEF RunInv, OneDispatcher, WriteRun
    <3> QED BY <3>1, <3>2
  <2> QED BY <1>3, <1>4, <2>2, <2>3 DEF RunInv, Unclaimed, OneDispatcher
<1>8. OneActiveRun'
  <2>1. session'.lastRun = session.lastRun
    BY <1>1, StatusFacts, PatchType DEF WriteRun, RunInv, TypeOK, Calls, SessionStatuses
  <2>2. \A other \in Runs : run'[other].status \in ActiveStatuses => Active(other)
    BY <1>3, <1>4 DEF Active
  <2> QED BY <2>1, <2>2 DEF RunInv, OneActiveRun, Active
<1>9. FinalEventsTrue'
  BY <1>5 DEF RunInv, TypeOK, FinalEventsTrue, Terminal, WriteRun
<1> QED BY <1>6, <1>7, <1>8, <1>9 DEF RunInv

\* Reading keeps RunInv: what it decides is true of the row.
LEMMA InvRead == ASSUME RunInv, TypeOK', NEW w \in Workers, ReadRun(w) PROVE RunInv'
<1> DEFINE call     == worker[w]
           snapshot == [status |-> run[call.run].status, seq |-> run[call.run].seq,
                        last |-> session.lastRun, session |-> session.status]
<1>1. call \in Calls /\ call.run \in Runs /\ Informed(call, run)
  BY DEF RunInv, CallsInformed, TypeOK, ReadRun, Busy, Outcomes
<1>2. run[call.run].status \in RunStatuses \cup {"absent"}
  BY <1>1 DEF RunInv, TypeOK, Rows
<1>3. UNCHANGED <<session, run, events, dispatches>>
  BY DEF ReadRun
<1>4. CASE /\ ReadDecision(call) = "accepted"
           /\ worker' = [worker EXCEPT ![w] = [call EXCEPT !.pc = "write", !.seen = snapshot]]
  <2> DEFINE next == [call EXCEPT !.pc = "write", !.seen = snapshot]
  <2>1. /\ next.pc = "write" /\ next.seen.status = run[call.run].status
        /\ next.by = call.by /\ next.target = call.target /\ next.appends = call.appends
    BY <1>1 DEF Calls
  <2>2. next.seen.status \in RunStatuses /\ call.target \in NextStatuses[next.seen.status]
        /\ (call.by = "hydrate" => next.seen.status = "queued")
    BY <1>2, <1>4, <2>1, DecisionFacts
  <2> HIDE DEF next
  <2>3. Informed(next, run')
    BY <1>1, <2>1, <2>2 DEF Informed
  <2> QED BY <1>3, <1>4, <2>3, InformedChange, RowsKept DEF RunInv, next
<1>5. CASE /\ ReadDecision(call) = "duplicate"
           /\ worker' = [worker EXCEPT ![w] = [call EXCEPT !.pc = "repair"]]
  <2> DEFINE next == [call EXCEPT !.pc = "repair"]
  <2>1. /\ next.pc = "repair" /\ next.run = call.run
        /\ next.by = call.by /\ next.target = call.target /\ next.appends = call.appends
    BY <1>1 DEF Calls
  <2>2. run[call.run].status = call.target
    BY <1>2, <1>5, DecisionFacts
  <2> HIDE DEF next
  <2>3. Informed(next, run')
    BY <1>1, <1>3, <2>1, <2>2 DEF Informed
  <2> QED BY <1>3, <1>5, <2>3, InformedChange, RowsKept DEF RunInv, next
<1>6. CASE \E outcome \in {"duplicate", "stale", "rejected"} :
             /\ Return(w, outcome)
             /\ outcome = "duplicate" => ReadDecision(call) = "duplicate"
  <2>1. PICK outcome \in {"duplicate", "stale", "rejected"} :
               /\ Return(w, outcome)
               /\ outcome = "duplicate" => ReadDecision(call) = "duplicate"
    BY <1>6
  <2>2. outcome = "duplicate" => run[call.run].status = call.target
    BY <1>2, <2>1, DecisionFacts
  <2>3. Informed(Resume(call, outcome), run')
    BY <1>1, <1>3, <2>1, <2>2, ResumeInformed DEF Outcomes
  <2> QED BY <1>3, <2>1, <2>3, InformedChange, RowsKept DEF RunInv, Return
<1> QED BY <1>4, <1>5, <1>6 DEF ReadRun

\* A lost race and a repair keep RunInv: neither moves a run.
LEMMA InvLoseRepair ==
  ASSUME RunInv, TypeOK', NEW w \in Workers, LoseRace(w) \/ RepairProjection(w)
  PROVE  RunInv'
<1> DEFINE call == worker[w]
<1>1. call \in Calls /\ call.run \in Runs /\ Informed(call, run)
  BY DEF RunInv, CallsInformed, TypeOK, LoseRace, RepairProjection, Busy, Outcomes
<1>2. UNCHANGED <<run, events, dispatches>> /\ session'.lastRun = session.lastRun
  BY <1>1, StatusFacts, PatchType
  DEF LoseRace, RepairProjection, RunInv, TypeOK, Calls, SessionStatuses
<1>3. PICK outcome \in {"lost", "duplicate", "repair_needed"} :
        /\ Return(w, outcome)
        /\ outcome = "duplicate" => call.pc = "repair"
  BY DEF LoseRace, RepairProjection
<1>4. outcome \in Outcomes
      /\ (call.appends /\ outcome \in {"applied", "duplicate"} => run'[call.run].status = call.target)
  BY <1>1, <1>2, <1>3 DEF Outcomes, Informed
<1>5. Informed(Resume(call, outcome), run')
  BY <1>1, <1>4, ResumeInformed
<1> QED BY <1>2, <1>3, <1>5, InformedChange, RowsKept DEF RunInv, Return

\* Reading the run again keeps RunInv: it appends only what the row says.
LEMMA InvReread == ASSUME RunInv, TypeOK', NEW w \in Workers, Reread(w) PROVE RunInv'
<1> DEFINE call == worker[w]
           next == [call EXCEPT !.pc = "append"]
<1>1. /\ call \in Calls /\ call.run \in Runs /\ Informed(call, run)
  BY DEF RunInv, CallsInformed, TypeOK, Reread, Busy, Outcomes
<1>2. UNCHANGED <<session, run, events, dispatches>>
  BY DEF Reread
<1>3. CASE worker' = [worker EXCEPT ![w] = Idle]
  BY <1>2, <1>3, IdleInformed, InformedChange, RowsKept DEF RunInv
<1>4. CASE /\ run[call.run].status = call.target /\ call.target \in TerminalStatuses
           /\ worker' = [worker EXCEPT ![w] = next]
  <2>1. /\ next.pc = "append" /\ next.run = call.run
        /\ next.by = call.by /\ next.target = call.target /\ next.appends = call.appends
    BY <1>1 DEF Calls
  <2> HIDE DEF next
  <2>2. Informed(next, run')
    BY <1>1, <1>2, <1>4, <2>1 DEF Informed
  <2> QED BY <1>2, <1>4, <2>2, InformedChange, RowsKept DEF RunInv
<1>5. call.target \in TerminalStatuses
  BY <1>1 DEF Reread, Informed
<1> QED BY <1>3, <1>4, <1>5 DEF Reread

\* Appending a final event keeps RunInv: the run ended that way.
LEMMA InvAppend == ASSUME RunInv, TypeOK', NEW w \in Workers, AppendEvent(w) PROVE RunInv'
<1> DEFINE call == worker[w]
<1>1. /\ call.run \in Runs /\ call.target \in TerminalStatuses
      /\ run[call.run].status = call.target
  BY DEF RunInv, CallsInformed, Informed, TypeOK, AppendEvent, Busy, Outcomes
<1>2. CallsInformed'
  BY IdleInformed, InformedChange DEF AppendEvent
<1>3. FinalEventsTrue'
  BY <1>1 DEF RunInv, FinalEventsTrue, AppendEvent
<1> QED BY <1>2, <1>3
  DEF RunInv, AppendEvent, Unclaimed, OneDispatcher, OneActiveRun, Active

\* Driver changes and lost executions keep RunInv.
LEMMA InvOther ==
  ASSUME RunInv, TypeOK', \/ \E r \in Runs : DriverChanges(r)
                         \/ \E w \in Workers : Crash(w)
  PROVE  RunInv'
<1>1. UNCHANGED <<session, run, events, dispatches>>
  BY DEF DriverChanges, LeaseDriver, ReleaseLease, DriverStops, Crash
<1>2. CASE \E r \in Runs : DriverChanges(r)
  <2>1. UNCHANGED worker
    BY <1>2 DEF DriverChanges, LeaseDriver, ReleaseLease, DriverStops
  <2>2. CallsInformed'
    BY <1>1, <2>1 DEF RunInv, CallsInformed
  <2> QED BY <1>1, <2>2, RowsKept DEF RunInv
<1>3. CASE \E w \in Workers : Crash(w)
  BY <1>1, <1>3, IdleInformed, InformedChange, RowsKept DEF Crash, RunInv
<1> QED BY <1>2, <1>3

\* The first state satisfies RunInv.
LEMMA InvInit == Init => RunInv
<1> SUFFICES ASSUME Init PROVE RunInv
  OBVIOUS
<1>1. TypeOK
  BY TypeInit
<1>2. CallsInformed
  BY IdleInformed DEF Init, CallsInformed
<1> QED BY <1>1, <1>2
  DEF Init, RunInv, Unclaimed, OneDispatcher, OneActiveRun, FinalEventsTrue, Active, ActiveStatuses

\* RunInv is inductive.
LEMMA InvNext == RunInv /\ [Next]_vars => RunInv'
<1> SUFFICES ASSUME RunInv, [Next]_vars PROVE RunInv'
  OBVIOUS
<1>1. TypeOK'
  BY TypeNext DEF RunInv
<1>2. CASE UNCHANGED vars
  BY <1>1, <1>2
  DEF vars, RunInv, CallsInformed, Unclaimed, OneDispatcher, OneActiveRun, FinalEventsTrue, Active
<1>3. ASSUME NEW r \in Runs, Admit(r) PROVE RunInv'
  BY <1>1, <1>3, InvAdmit
<1>4. ASSUME NEW r \in Runs, SweeperStarts(r) PROVE RunInv'
  BY <1>1, <1>4, SweeperCalls, InvStart DEF Workers
<1>5. ASSUME NEW w \in Handlers, NEW r \in Runs, HandlerStarts(w, r) PROVE RunInv'
  BY <1>1, <1>5, HandlerCalls, InvStart DEF Workers
<1>6. ASSUME NEW w \in Workers, Step(w) PROVE RunInv'
  BY <1>1, <1>6, InvRead, InvWrite, InvLoseRepair, InvReread, InvAppend DEF Step, WriteSession
<1> QED BY <1>1, <1>2, <1>3, <1>4, <1>5, <1>6, InvOther DEF Next

\* RunInv holds throughout.
LEMMA InvCorrect == Spec => []RunInv
<1> QED BY InvInit, InvNext, PTL DEF Spec

-----------------------------------------------------------------------------
(* What follows.                                                           *)

\* Nobody who is late admits a second active run, or takes the session from the
\* active one.
THEOREM ActiveRunIsUnique == Spec => []OneActiveRun
<1>1. RunInv => OneActiveRun
  BY DEF RunInv
<1> QED BY <1>1, InvCorrect, PTL

\* However many dispatchers are sent for a run, one of them wins it.
THEOREM DispatcherIsUnique == Spec => []OneDispatcher
<1>1. RunInv => OneDispatcher
  BY DEF RunInv
<1> QED BY <1>1, InvCorrect, PTL

\* Persisted final events agree with the run, whoever appended them.
THEOREM FinalEventsAreTrue == Spec => []FinalEventsTrue
<1>1. RunInv => FinalEventsTrue
  BY DEF RunInv
<1> QED BY <1>1, InvCorrect, PTL

\* Only admission and the compare-and-set change a run.
LEMMA RunsMove ==
  ASSUME RunInv, [Next]_vars
  PROVE  \/ run' = run
         \/ \E r \in Runs : Admit(r)
         \/ \E w \in Workers : WriteRun(w)
BY DEF Next, vars, SweeperStarts, FailStale, Reconcile, Start, DriverChanges, LeaseDriver,
   ReleaseLease, DriverStops, HandlerStarts, Dispatch, FailHydration, FailProvision,
   DriverFailure, DriverCompletion, Reclaim, ViewerCancel, DriverEvent, Step, WriteSession, ReadRun,
   LoseRace, RepairProjection, Reread, AppendEvent, Crash

\* The compare-and-set moves one run along one edge.
LEMMA WriteMoves ==
  ASSUME RunInv, NEW w \in Workers, WriteRun(w)
  PROVE  LET r == worker[w].run
         IN /\ r \in Runs
            /\ run[r].status \in ActiveStatuses
            /\ run'[r].status \in NextStatuses[run[r].status]
            /\ \A other \in Runs \ {r} : run'[other] = run[other]
            /\ worker[w].by = "hydrate" => run[r].status = "queued"
<1> DEFINE call == worker[w]
<1>1. call \in Calls /\ call.run \in Runs
  BY DEF RunInv, TypeOK, WriteRun, Busy, Outcomes
<1>2. /\ call.seen.status \in RunStatuses /\ call.target \in NextStatuses[call.seen.status]
      /\ run[call.run].status = call.seen.status
      /\ call.by = "hydrate" => call.seen.status = "queued"
  BY DEF RunInv, CallsInformed, Informed, WriteRun, RowIsAsSeen
<1>3. run'[call.run].status = call.target
      /\ \A other \in Runs \ {call.run} : run'[other] = run[other]
  BY <1>1, MovedType DEF WriteRun, RunInv, TypeOK
<1> QED BY <1>1, <1>2, <1>3, EdgeFacts

\* No write, however stale what it was decided on, touches a run that ended.
THEOREM EndedRunsStay == Spec => TerminalIsFinal
<1>1. RunInv /\ [Next]_vars => [\A r \in Runs : Terminal(r) => run'[r] = run[r]]_run
  <2> SUFFICES ASSUME RunInv, [Next]_vars, NEW r \in Runs, Terminal(r) PROVE run'[r] = run[r]
    OBVIOUS
  <2>1. ASSUME NEW other \in Runs, Admit(other) PROVE run'[r] = run[r]
    BY <2>1 DEF Admit, Terminal, TerminalStatuses, RunInv, TypeOK
  <2>2. ASSUME NEW w \in Workers, WriteRun(w) PROVE run'[r] = run[r]
    BY <2>2, WriteMoves, StatusFacts DEF Terminal
  <2> QED BY <2>1, <2>2, RunsMove
<1> QED BY <1>1, InvCorrect, PTL DEF Spec, TerminalIsFinal

\* A dispatcher that failed to hydrate a run ends it only while nobody has won it.
THEOREM HydrationIsCareful == Spec => HydrationFailsOnlyUnclaimed
<1>1. RunInv /\ [Next]_vars =>
        [\A w \in Workers :
           (worker[w].by = "hydrate" /\ WriteRun(w)) => dispatches[worker[w].run] = 0]_vars
  <2> SUFFICES ASSUME RunInv, NEW w \in Workers, worker[w].by = "hydrate", WriteRun(w)
               PROVE  dispatches[worker[w].run] = 0
    OBVIOUS
  <2> QED BY WriteMoves DEF RunInv, Unclaimed
<1> QED BY <1>1, InvCorrect, PTL DEF Spec, HydrationFailsOnlyUnclaimed

\* What the abstract lifecycle sees.
Statuses == [r \in Runs |-> run[r].status]

\* Moving one run along an edge is a step of the abstract lifecycle.
LEMMA MoveImplements ==
  ASSUME NEW r \in Runs, run[r].status \in RunStatuses,
         run'[r].status \in NextStatuses[run[r].status],
         \A other \in Runs \ {r} : run'[other] = run[other]
  PROVE  Lifecycle!Next
<1>1. Lifecycle!RunStatuses = RunStatuses /\ Lifecycle!NextStatuses = NextStatuses
  BY DEF Lifecycle!RunStatuses, Lifecycle!NextStatuses, Lifecycle!ActiveStatuses,
     Lifecycle!TerminalStatuses, RunStatuses, NextStatuses, ActiveStatuses, TerminalStatuses
<1>2. Statuses' = [Statuses EXCEPT ![r] = run'[r].status]
  BY DEF Statuses
<1>3. /\ Statuses[r] \in Lifecycle!RunStatuses
      /\ run'[r].status \in Lifecycle!NextStatuses[Statuses[r]]
  BY <1>1 DEF Statuses
<1>4. Lifecycle!Move(r)
  BY <1>2, <1>3 DEF Lifecycle!Move, Statuses
<1> QED BY <1>4 DEF Lifecycle!Next

\* The rows start as the abstract lifecycle does.
LEMMA InitImplements == Init => Lifecycle!Init
BY DEF Init, Lifecycle!Init

\* Every step of the interleaved workers is one of the abstract lifecycle, or none.
LEMMA StepImplements == ASSUME RunInv, [Next]_vars PROVE Lifecycle!Next \/ Statuses' = Statuses
<1>1. CASE run' = run
  BY <1>1 DEF Statuses
<1>2. ASSUME NEW r \in Runs, Admit(r) PROVE Lifecycle!Next
  <2>1. /\ run'[r].status = "queued" /\ run[r].status = "absent"
        /\ \A other \in Runs \ {r} : run'[other] = run[other]
    BY <1>2 DEF Admit, RunInv, TypeOK, Rows
  <2>2. \A other \in Runs : run[other].status \notin ActiveStatuses
    BY <1>2 DEF Admit, Admissible, Active
  <2>3. Lifecycle!Admit(r)
    BY <2>1, <2>2 DEF Lifecycle!Admit, Lifecycle!ActiveStatuses, ActiveStatuses
  <2> QED BY <2>3 DEF Lifecycle!Next
<1>3. ASSUME NEW w \in Workers, WriteRun(w) PROVE Lifecycle!Next
  BY <1>3, WriteMoves, StatusFacts, MoveImplements
<1> QED BY <1>1, <1>2, <1>3, RunsMove

\* Every behaviour of the interleaved workers is one of the abstract lifecycle.
THEOREM LifecycleImplemented == Spec => ImplementsLifecycle
<1>1. RunInv /\ [Next]_vars => [Lifecycle!Next]_Statuses
  BY StepImplements
<1> QED BY <1>1, InitImplements, InvCorrect, PTL
    DEF Spec, ImplementsLifecycle, Lifecycle!Spec, Statuses

-----------------------------------------------------------------------------
(* The session's projection.  While no operation or deletion works on the  *)
(* session, a call that is about to write has seen its run as the last one *)
(* of the session, and nobody ever finds the projection stale.             *)

Projects(call) ==
  /\ ~call.preserve
  /\ call.pc # "repair"
  /\ call.pc = "write" => call.seen.last = call.run

FollowInv ==
  /\ RunInv
  /\ session.status \in {"IDLE", "RUNNING"}
  /\ SessionFollowsRun
  /\ \A w \in Workers : Projects(worker[w])

\* A worker that does nothing projects nothing.
LEMMA IdleProjects == Projects(Idle)
BY DEF Projects, Idle

\* One worker goes on to a call that projects; the others still do.
LEMMA ProjectsChange ==
  ASSUME FollowInv, NEW w \in Workers, NEW call, Projects(call),
         worker' = [worker EXCEPT ![w] = call]
  PROVE  \A v \in Workers : Projects(worker'[v])
BY DEF FollowInv, RunInv, TypeOK

\* A worker that returns still projects.
LEMMA ReturnProjects ==
  ASSUME FollowInv, NEW w \in Workers, NEW outcome \in Outcomes, Return(w, outcome)
  PROVE  \A v \in Workers : Projects(worker'[v])
<1> DEFINE call == worker[w]
<1>1. call \in Calls /\ Projects(call)
  BY DEF FollowInv, RunInv, TypeOK
<1>2. CASE Resume(call, outcome) = [call EXCEPT !.pc = "append", !.seen = NoSnapshot]
  BY <1>1, <1>2, ProjectsChange DEF Return, Projects, Calls
<1>3. CASE Resume(call, outcome) = [call EXCEPT !.pc = "reread", !.seen = NoSnapshot]
  BY <1>1, <1>3, ProjectsChange DEF Return, Projects, Calls
<1>4. CASE Resume(call, outcome) = [Idle EXCEPT !.pc = outcome]
  BY <1>4, ProjectsChange DEF Return, Projects, Idle, Outcomes
<1>5. CASE Resume(call, outcome) = Idle
  BY <1>5, IdleProjects, ProjectsChange DEF Return
<1> QED BY <1>2, <1>3, <1>4, <1>5, ResumeCases

\* A step that moves neither a run nor the session keeps the agreement.
LEMMA FollowKept ==
  ASSUME FollowInv, run' = run, session' = session
  PROVE  SessionFollowsRun' /\ session'.status \in {"IDLE", "RUNNING"}
BY DEF FollowInv, SessionFollowsRun, Active

\* Reading keeps the agreement, and finds no projection to repair.
LEMMA FollowRead ==
  ASSUME FollowInv, NEW w \in Workers, ReadRun(w)
  PROVE  \A v \in Workers : Projects(worker'[v])
<1> DEFINE call     == worker[w]
           snapshot == [status |-> run[call.run].status, seq |-> run[call.run].seq,
                        last |-> session.lastRun, session |-> session.status]
<1>1. call \in Calls /\ call.run \in Runs /\ Projects(call)
  BY DEF FollowInv, RunInv, TypeOK, ReadRun, Busy, Outcomes
<1>2. run[call.run].status \in RunStatuses \cup {"absent"}
  BY <1>1 DEF FollowInv, RunInv, TypeOK, Rows
<1>3. CASE /\ ReadDecision(call) = "accepted"
           /\ worker' = [worker EXCEPT ![w] = [call EXCEPT !.pc = "write", !.seen = snapshot]]
  <2> DEFINE next == [call EXCEPT !.pc = "write", !.seen = snapshot]
  <2>1. /\ next.pc = "write" /\ next.seen.last = session.lastRun
        /\ next.run = call.run /\ next.preserve = call.preserve
    BY <1>1 DEF Calls
  <2>2. Active(call.run)
    BY <1>1, <1>2, <1>3, DecisionFacts, EdgeFacts DEF Active
  <2>3. session.lastRun = call.run
    BY <1>1, <2>2 DEF FollowInv, RunInv, OneActiveRun
  <2> HIDE DEF next
  <2>4. Projects(next)
    BY <1>1, <2>1, <2>3 DEF Projects
  <2> QED BY <1>3, <2>4, ProjectsChange DEF next
<1>4. ASSUME ReadDecision(call) = "duplicate" PROVE ~NeedsRepair(call)
  <2>1. run[call.run].status = call.target
    BY <1>2, <1>4, DecisionFacts
  <2>2. ASSUME session.lastRun = call.run
        PROVE  session.status = "RUNNING" <=> call.target \in ActiveStatuses
    BY <1>1, <2>1, <2>2 DEF FollowInv, RunInv, OneActiveRun, SessionFollowsRun, Active
  <2> QED BY <2>2 DEF NeedsRepair, Projected, FollowInv
<1>5. CASE \E outcome \in Outcomes : Return(w, outcome)
  BY <1>5, ReturnProjects
<1> QED BY <1>3, <1>4, <1>5 DEF ReadRun, Outcomes

\* The compare-and-set takes the session along, and a lost race leaves it in agreement.
LEMMA FollowWrite ==
  ASSUME FollowInv, RunInv', NEW w \in Workers, WriteRun(w) \/ LoseRace(w)
  PROVE  SessionFollowsRun' /\ session'.status \in {"IDLE", "RUNNING"}
<1> DEFINE call == worker[w]
<1>1. call \in Calls /\ call.run \in Runs /\ call.target \in RunStatuses
  BY DEF FollowInv, RunInv, TypeOK, WriteRun, LoseRace, Busy, Outcomes, Calls
<1>2. CASE run'[call.run].status = call.target
           /\ session.lastRun = call.run
           /\ session' = SessionPatch(Projected(call.target), NoOperation)
  <2>1. /\ session'.status = Projected(call.target) /\ session'.lastRun = call.run
        /\ Projected(call.target) \in {"IDLE", "RUNNING"}
    BY <1>1, <1>2, StatusFacts, PatchType DEF FollowInv, RunInv, TypeOK, SessionStatuses
  <2>2. \A r \in Runs : run'[r].status \in ActiveStatuses => r = call.run
    BY <2>1 DEF RunInv, OneActiveRun, Active
  <2>3. (\E r \in Runs : run'[r].status \in ActiveStatuses) <=> call.target \in ActiveStatuses
    BY <1>1, <1>2, <2>2
  <2> QED BY <2>1, <2>3 DEF SessionFollowsRun, Active, Projected
<1>3. CASE WriteRun(w)
  <2>1. /\ Active(call.run) /\ run'[call.run].status = call.target
    BY <1>1, <1>3, WriteMoves, MovedType DEF FollowInv, RunInv, TypeOK, WriteRun, Active
  <2>2. session.lastRun = call.run
    BY <1>1, <2>1 DEF FollowInv, RunInv, OneActiveRun
  <2>3. UpdatesSession(call)
    BY <1>3, <2>2 DEF WriteRun, UpdatesSession, ProjectsOn, FollowInv, Projects
  <2> QED BY <1>2, <1>3, <2>1, <2>2, <2>3 DEF WriteRun
<1>4. CASE LoseRace(w)
  BY <1>2, <1>4, FollowKept DEF LoseRace, UpdatesSession
<1> QED BY <1>3, <1>4

\* Admission shows the session RUNNING for its new run.
LEMMA FollowAdmit ==
  ASSUME FollowInv, NEW r \in Runs, Admit(r)
  PROVE  SessionFollowsRun' /\ session'.status \in {"IDLE", "RUNNING"}
<1>1. run'[r].status = "queued"
  BY DEF Admit, FollowInv, RunInv, TypeOK, Rows
<1>2. session'.status = "RUNNING"
  <2> DEFINE patched == SessionPatch("RUNNING", NoOperation)
  <2>1. patched \in Sessions /\ patched.status = "RUNNING"
    BY PatchType DEF FollowInv, RunInv, TypeOK, SessionStatuses
  <2>2. session' = [patched EXCEPT !.lastRun = r]
    BY DEF Admit
  <2> HIDE DEF patched
  <2> QED BY <2>1, <2>2 DEF Sessions
<1> QED BY <1>1, <1>2 DEF SessionFollowsRun, Active, ActiveStatuses

\* FollowInv is inductive.
LEMMA FollowNext == FollowInv /\ [Next]_vars => FollowInv'
<1> SUFFICES ASSUME FollowInv, [Next]_vars PROVE FollowInv'
  OBVIOUS
<1>1. RunInv'
  BY InvNext DEF FollowInv
<1>2. CASE UNCHANGED vars
  BY <1>1, <1>2, FollowKept DEF vars, FollowInv
<1>3. ASSUME NEW w \in Workers, NEW r \in Runs, NEW call, Startable(call, r), Start(w, call)
      PROVE  FollowInv'
  <2>1. Projects(call)
    BY <1>3 DEF Startable, Projects
  <2> QED BY <1>1, <1>3, <2>1, ProjectsChange, FollowKept DEF FollowInv, Start
<1>4. ASSUME NEW r \in Runs, Admit(r) PROVE FollowInv'
  BY <1>1, <1>4, FollowAdmit DEF FollowInv, Admit
<1>5. ASSUME NEW w \in Workers, Step(w) PROVE FollowInv'
  <2>1. CASE ReadRun(w)
    BY <1>1, <2>1, FollowRead, FollowKept DEF FollowInv, ReadRun
  <2>2. CASE WriteRun(w) \/ LoseRace(w)
    <3>1. \E outcome \in Outcomes : Return(w, outcome)
      BY <2>2 DEF WriteRun, LoseRace, WriteOutcome, Outcomes
    <3> QED BY <1>1, <2>2, <3>1, FollowWrite, ReturnProjects DEF FollowInv
  <2>3. CASE RepairProjection(w)
    BY <2>3 DEF RepairProjection, FollowInv, Projects
  <2>4. CASE Reread(w)
    <3>1. worker[w] \in Calls /\ Projects(worker[w])
      BY DEF FollowInv, RunInv, TypeOK
    <3>2. Projects([worker[w] EXCEPT !.pc = "append"])
      BY <3>1 DEF Projects, Calls
    <3> QED BY <1>1, <2>4, <3>2, IdleProjects, ProjectsChange, FollowKept DEF FollowInv, Reread
  <2>5. CASE AppendEvent(w)
    BY <1>1, <2>5, IdleProjects, ProjectsChange, FollowKept DEF FollowInv, AppendEvent
  <2> QED BY <1>5, <2>1, <2>2, <2>3, <2>4, <2>5 DEF Step, WriteSession
<1>6. ASSUME NEW r \in Runs, DriverChanges(r) PROVE FollowInv'
  BY <1>1, <1>6, FollowKept DEF FollowInv, DriverChanges, LeaseDriver, ReleaseLease, DriverStops
<1>7. ASSUME NEW w \in Workers, Crash(w) PROVE FollowInv'
  BY <1>1, <1>7, IdleProjects, ProjectsChange, FollowKept DEF FollowInv, Crash
<1>8. ASSUME NEW r \in Runs, SweeperStarts(r) PROVE FollowInv'
  BY <1>3, <1>8, SweeperCalls DEF Workers
<1>9. ASSUME NEW w \in Handlers, NEW r \in Runs, HandlerStarts(w, r) PROVE FollowInv'
  BY <1>3, <1>9, HandlerCalls DEF Workers
<1> QED BY <1>2, <1>4, <1>5, <1>6, <1>7, <1>8, <1>9 DEF Next

\* Whatever the writers raced on, the session shows RUNNING exactly while its last
\* run is active.
THEOREM SessionAgrees == Spec => []SessionFollowsRun
<1>1. Init => FollowInv
  BY InvInit, IdleProjects
  DEF Init, FollowInv, SessionFollowsRun, Active, ActiveStatuses
<1>2. FollowInv => SessionFollowsRun
  BY DEF FollowInv
<1> QED BY <1>1, <1>2, FollowNext, PTL DEF Spec

-----------------------------------------------------------------------------
(* Stopping a driver.                                                      *)

StopInv ==
  /\ StopTypeOK
  /\ \A o \in Operations : stop[o].phase = "cancel" => stop[o].run \in Runs

\* Before any stop.
LEMMA StopInit == stop = [o \in Operations |-> NoStop] => StopInv
BY DEF StopInv, StopTypeOK, NoStop

\* Operations are workers.
LEMMA OperationWorks == ASSUME NEW o \in Operations PROVE o \in Workers
BY DEF Workers

\* A worker that is abandoned, or whose outcome was seen, is idle again.
LEMMA IdleWorker ==
  ASSUME TypeOK, NEW w \in Workers, worker' = [worker EXCEPT ![w] = Idle],
         UNCHANGED <<session, run, driver, events, dispatches>>, crashes' \in 0..MaxCrashes
  PROVE  TypeOK' /\ (RunInv => RunInv')
<1>1. TypeOK'
  BY IdleType, WorkerChange DEF TypeOK, WorkersOK, Busy
<1>2. ASSUME RunInv PROVE RunInv'
  <2>1. CallsInformed'
    BY <1>2, IdleInformed, InformedChange
  <2> QED BY <1>1, <1>2, <2>1, RowsKept DEF RunInv
<1> QED BY <1>1, <1>2

\* The call that cancels the run a stop noted.
Cancellation(r, preserve, operationId) ==
  [Call("stop", r, "cancelled", FALSE) EXCEPT !.preserve = preserve, !.op = operationId]

\* It is a call on that run, which appends no event.
LEMMA StopCall ==
  ASSUME NEW r \in Runs, NEW preserve \in BOOLEAN, NEW operationId \in Operations \cup {NoOperation}
  PROVE  LET call == Cancellation(r, preserve, operationId)
         IN call \in Calls /\ call.run = r /\ call.pc = "read" /\ call.by = "stop" /\ ~call.appends
<1> DEFINE plain == Call("stop", r, "cancelled", FALSE)
<1>1. "stop" \in Callers /\ "cancelled" \in RunStatuses /\ FALSE \in BOOLEAN
  BY DEF Callers, RunStatuses, TerminalStatuses
<1>2. plain \in Calls /\ plain.pc = "read" /\ plain.by = "stop" /\ plain.run = r /\ ~plain.appends
  BY <1>1, IdleType DEF Call, Idle, Calls
<1> HIDE DEF plain
<1>3. LET call == [plain EXCEPT !.preserve = preserve, !.op = operationId]
      IN call \in Calls /\ call.pc = "read" /\ call.by = "stop" /\ call.run = r /\ ~call.appends
  BY <1>2 DEF Calls
<1> QED BY <1>3 DEF plain, Cancellation

\* A stop begins with a run its driver executes, or with none.
LEMMA BeginStopInv ==
  ASSUME StopInv, NEW o \in Operations, BeginStop(o)
  PROVE  StopInv' /\ UNCHANGED vars
BY DEF BeginStop, StopInv, StopTypeOK, NoStop

\* Every step of a stop keeps the types, and what RunInv says of the runs.
LEMMA StopStepInv ==
  ASSUME TypeOK, StopInv, NEW o \in Operations, NEW preserve \in BOOLEAN,
         NEW operationId \in Operations \cup {NoOperation}, StopStep(o, preserve, operationId)
  PROVE  TypeOK' /\ StopInv' /\ (RunInv => RunInv') /\ UNCHANGED <<session, run>>
<1>1. CASE CloseDriver(o)
  <2>1. StopInv'
    BY <1>1 DEF CloseDriver, StopInv, StopTypeOK, NoStop
  <2>2. TypeOK'
    BY <1>1 DEF CloseDriver, TypeOK, Busy
  <2>3. RunInv => RunInv'
    BY <1>1, <2>2, RowsKept DEF CloseDriver, RunInv, CallsInformed
  <2> QED BY <1>1, <2>1, <2>2, <2>3 DEF CloseDriver
<1>2. CASE CancelStoppedRun(o, preserve, operationId)
  <2> DEFINE call == Cancellation(stop[o].run, preserve, operationId)
  <2>1. StopInv'
    BY <1>2 DEF CancelStoppedRun, StopInv, StopTypeOK
  <2>0. stop[o].run \in Runs
    BY <1>2 DEF CancelStoppedRun, StopInv
  <2>2. /\ call \in Calls /\ call.run \in Runs /\ call.pc = "read" /\ call.by = "stop"
        /\ ~call.appends
    BY <2>0, StopCall
  <2>3. Start(o, call)
    BY <1>2 DEF CancelStoppedRun, Cancellation
  <2> HIDE DEF call
  <2>4. TypeOK'
    BY <2>2, <2>3, OperationWorks, WorkerChange DEF Start, TypeOK, WorkersOK
  <2>5. ASSUME RunInv PROVE RunInv'
    <3>0. Informed(call, run')
      BY <2>2 DEF Informed
    <3>1. CallsInformed'
      BY <3>0, <2>3, <2>5, OperationWorks, InformedChange DEF Start
    <3> QED BY <2>3, <2>4, <2>5, <3>1, RowsKept DEF RunInv, Start
  <2> QED BY <2>1, <2>3, <2>4, <2>5 DEF Start
<1>3. CASE StoppedRunReturned(o)
  <2>1. StopInv'
    BY <1>3 DEF StoppedRunReturned, StopInv, StopTypeOK
  <2>2. TypeOK' /\ (RunInv => RunInv')
    BY <1>3, OperationWorks, IdleWorker DEF StoppedRunReturned, TypeOK
  <2> QED BY <1>3, <2>1, <2>2 DEF StoppedRunReturned
<1>4. CASE ReleaseStoppedRun(o)
  <2>1. StopInv'
    BY <1>4 DEF ReleaseStoppedRun, StopInv, StopTypeOK, NoStop
  <2>2. TypeOK'
    BY <1>4 DEF ReleaseStoppedRun, TypeOK, Busy
  <2>3. RunInv => RunInv'
    BY <1>4, <2>2, RowsKept DEF ReleaseStoppedRun, RunInv, CallsInformed
  <2> QED BY <1>4, <2>1, <2>2, <2>3 DEF ReleaseStoppedRun
<1>5. CASE MissDriver(o)
  <2>1. StopInv'
    <3>1. PICK fails \in BOOLEAN :
            stop' = [stop EXCEPT ![o] =
              IF @.run # NoRun THEN [@ EXCEPT !.phase = "cancel", !.fails = fails]
              ELSE IF fails THEN [@ EXCEPT !.phase = "failed"] ELSE NoStop]
      BY <1>5 DEF MissDriver
    <3>2. CASE stop[o].run # NoRun
      <4>1. stop' = [stop EXCEPT ![o] = [@ EXCEPT !.phase = "cancel", !.fails = fails]]
        BY <3>1, <3>2
      <4> QED BY <3>2, <4>1 DEF StopInv, StopTypeOK
    <3>3. CASE stop[o].run = NoRun /\ fails
      <4>1. stop' = [stop EXCEPT ![o] = [@ EXCEPT !.phase = "failed"]]
        BY <3>1, <3>3
      <4> QED BY <4>1 DEF StopInv, StopTypeOK
    <3>4. CASE stop[o].run = NoRun /\ ~fails
      <4>1. stop' = [stop EXCEPT ![o] = NoStop]
        BY <3>1, <3>4
      <4> QED BY <4>1 DEF StopInv, StopTypeOK, NoStop
    <3> QED BY <3>1, <3>2, <3>3, <3>4
  <2>2. TypeOK'
    <3>1. crashes' \in 0..MaxCrashes
      BY <1>5, ConstantsAssumption DEF MissDriver, TypeOK
    <3> QED BY <1>5, <3>1 DEF MissDriver, TypeOK, Busy
  <2>3. RunInv => RunInv'
    BY <1>5, <2>2, RowsKept DEF MissDriver, RunInv, CallsInformed
  <2> QED BY <1>5, <2>1, <2>2, <2>3 DEF MissDriver
<1> QED BY <1>1, <1>2, <1>3, <1>4, <1>5 DEF StopStep

\* Losing an operation with its stop and the call it makes keeps them, too.
LEMMA AbandonInv ==
  ASSUME TypeOK, StopInv, NEW o \in Operations, AbandonStop(o),
         UNCHANGED <<session, run, driver, events, dispatches>>, crashes' \in 0..MaxCrashes
  PROVE  TypeOK' /\ StopInv' /\ (RunInv => RunInv')
<1>1. StopInv'
  BY DEF AbandonStop, StopInv, StopTypeOK, NoStop
<1> QED BY <1>1, OperationWorks, IdleWorker DEF AbandonStop

-----------------------------------------------------------------------------
(* The session under the steps of SessionRun.                              *)

\* A write of the session status says who owns the session then, and is counted.
LEMMA PatchOwner ==
  ASSUME session \in Sessions, NEW status \in SessionStatuses,
         NEW operationId \in Operations \cup {NoOperation}
  PROVE  /\ SessionPatch(status, operationId).op =
              (IF status = "RESCHEDULING" THEN operationId ELSE NoOperation)
         /\ SessionPatch(status, operationId).archived = session.archived
         /\ SessionPatch(status, operationId).seq = session.seq + 1
<1> DEFINE owner  == IF status = "RESCHEDULING" THEN operationId ELSE NoOperation
           number == session.seq + 1
<1>1. SessionPatch(status, operationId) =
        [session EXCEPT !.status = status, !.op = owner, !.seq = number]
  BY Zenon DEF SessionPatch
<1> HIDE DEF owner, number
<1>2. SessionPatch(status, operationId).op = owner
  BY <1>1 DEF Sessions
<1>3. SessionPatch(status, operationId).archived = session.archived
      /\ SessionPatch(status, operationId).seq = number
  BY <1>1 DEF Sessions
<1> QED BY <1>2, <1>3 DEF owner, number

\* No writer of a run moves a session that was terminated, and what it leaves belongs
\* to no operation.
SessionMoves ==
  /\ session.status # "TERMINATED"
  /\ session'.status # "TERMINATED"
  /\ session'.op = NoOperation

\* Every step of the writers leaves the session alone or moves it so.
LEMMA SessionSteps == ASSUME TypeOK, Next PROVE session' = session \/ SessionMoves
<1>1. ASSUME NEW status \in {"IDLE", "RUNNING"}, session.status # "TERMINATED",
             session' = SessionPatch(status, NoOperation)
      PROVE  SessionMoves
  <2>1. status \in SessionStatuses /\ session \in Sessions
    BY DEF SessionStatuses, TypeOK
  <2> QED BY <1>1, <2>1, PatchType, PatchOwner DEF SessionMoves
<1>2. ASSUME NEW r \in Runs, Admit(r) PROVE SessionMoves
  <2> DEFINE patched == SessionPatch("RUNNING", NoOperation)
  <2>1. session \in Sessions /\ "RUNNING" \in SessionStatuses
    BY DEF TypeOK, SessionStatuses
  <2>2. patched \in Sessions /\ patched.status = "RUNNING" /\ patched.op = NoOperation
    BY <2>1, PatchType, PatchOwner
  <2>3. session' = [patched EXCEPT !.lastRun = r] /\ session.status = "IDLE"
    BY <1>2 DEF Admit, Admissible
  <2> HIDE DEF patched
  <2> QED BY <2>2, <2>3 DEF SessionMoves, Sessions
<1>3. ASSUME NEW w \in Workers, Step(w) PROVE session' = session \/ SessionMoves
  <2> DEFINE call == worker[w]
  <2>1. call.target \in RunStatuses
    BY DEF TypeOK, Calls
  <2>2. Projected(call.target) \in {"IDLE", "RUNNING"}
    BY <2>1, StatusFacts
  <2>3. CASE WriteRun(w)
    BY <1>1, <2>2, <2>3 DEF WriteRun, UpdatesSession
  <2>4. CASE LoseRace(w)
    BY <1>1, <2>2, <2>4 DEF LoseRace, UpdatesSession
  <2>5. CASE RepairProjection(w)
    BY <1>1, <2>2, <2>5 DEF RepairProjection
  <2>6. CASE ReadRun(w) \/ Reread(w) \/ AppendEvent(w)
    BY <2>6 DEF ReadRun, Reread, AppendEvent
  <2> QED BY <1>3, <2>3, <2>4, <2>5, <2>6 DEF Step, WriteSession
<1>4. ASSUME NEW r \in Runs, SweeperStarts(r) \/ DriverChanges(r) PROVE session' = session
  BY <1>4 DEF SweeperStarts, FailStale, Reconcile, Start, DriverChanges, LeaseDriver,
     ReleaseLease, DriverStops
<1>5. ASSUME NEW w \in Handlers, NEW r \in Runs, HandlerStarts(w, r) PROVE session' = session
  BY <1>5, HandlerCalls DEF Start
<1>6. ASSUME NEW w \in Workers \ Operations, Crash(w) PROVE session' = session
  BY <1>6 DEF Crash
<1> QED BY <1>2, <1>3, <1>4, <1>5, <1>6 DEF Next
=============================================================================
