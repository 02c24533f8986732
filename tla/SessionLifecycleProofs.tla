----------------------- MODULE SessionLifecycleProofs -----------------------
(***************************************************************************)
(* Safety of archive, unarchive and delete composed with the runs of their *)
(* session, for any runs, handlers, requests and number of lost            *)
(* executions: the types with the anchor of a deletion (a session that is  *)
(* terminated keeps the id of its deletion until it is gone), and that no  *)
(* late writer revives a session that was terminated.                      *)
(*                                                                         *)
(* LifeInv adds to them that a request that reached its anchor has an id   *)
(* to write, and that a request cancels runs of the session only.  SafeInv *)
(* adds what SessionRunProofs proves of the runs, up to the deletion of    *)
(* the row.  Then the runs and events are gone, and nothing brings one     *)
(* back: the deletion had terminated the session (Doomed), which therefore *)
(* admits no run and takes no event, and a call that decided on a run it   *)
(* read (SeenRuns) finds none to write.                                    *)
(***************************************************************************)
EXTENDS SessionLifecycle, SessionRunProofs

Anchored == session.status = "TERMINATED" /\ ~deleted => session.op # NoOperation

LifeInv ==
  /\ TypeOK
  /\ StopInv
  /\ request \in [Operations -> Requests]
  /\ deleted \in BOOLEAN
  /\ Anchored

-----------------------------------------------------------------------------
\* No request at first.
LEMMA NoRequestType == NoRequest \in Requests
BY DEF NoRequest, Requests, Phases

\* The initial state.
LEMMA LifeInit == LifecycleInit => LifeInv
<1> SUFFICES ASSUME LifecycleInit PROVE LifeInv
  OBVIOUS
<1>1. TypeOK /\ StopInv
  BY TypeInit, StopInit DEF LifecycleInit
<1>2. request \in [Operations -> Requests] /\ deleted \in BOOLEAN
  BY NoRequestType DEF LifecycleInit
<1>3. Anchored
  BY DEF LifecycleInit, Init, Anchored
<1> QED BY <1>1, <1>2, <1>3 DEF LifeInv

\* The steps of SessionRun keep LifeInv: they never terminate a session.
LEMMA LifeRunStep ==
  ASSUME LifeInv, Next, UNCHANGED <<stop, request, deleted>>
  PROVE  LifeInv' /\ (session.status = "TERMINATED" => session'.status = "TERMINATED")
<1>1. TypeOK'
  BY TypeNext DEF LifeInv
<1>2. StopInv'
  BY DEF LifeInv, StopInv, StopTypeOK
<1>3. session' = session \/ SessionMoves
  BY SessionSteps DEF LifeInv
<1> QED BY <1>1, <1>2, <1>3 DEF LifeInv, Anchored, SessionMoves

-----------------------------------------------------------------------------
(* The steps of a request.                                                 *)

\* A request that goes on to another phase, or ends.
LEMMA BecomeType ==
  ASSUME LifeInv, NEW o \in Operations, NEW phase \in Phases, Become(o, phase)
  PROVE  request' \in [Operations -> Requests]
<1> DEFINE next == [request[o] EXCEPT !.phase = phase]
<1>1. request[o] \in Requests
  BY DEF LifeInv
<1>2. next \in Requests
  BY <1>1 DEF Requests
<1>3. request' = [request EXCEPT ![o] = next]
  BY DEF Become
<1> HIDE DEF next
<1> QED BY <1>2, <1>3 DEF LifeInv

\* A request that ends.
LEMMA EndType ==
  ASSUME LifeInv, NEW o \in Operations, End(o) PROVE request' \in [Operations -> Requests]
BY NoRequestType DEF LifeInv, End

\* Nothing but the request's memory changes.
LEMMA RequestOnly ==
  ASSUME LifeInv, UNCHANGED <<vars, deleted>>, StopInv', request' \in [Operations -> Requests]
  PROVE  LifeInv' /\ session' = session
BY DEF LifeInv, vars, TypeOK, Busy, Anchored

\* A step that writes the session alone.
LEMMA SessionWritten ==
  ASSUME LifeInv, UNCHANGED <<run, driver, events, dispatches, worker, crashes, stop, deleted>>,
         session' \in Sessions, Anchored', request' \in [Operations -> Requests]
  PROVE  LifeInv'
BY DEF LifeInv, TypeOK, Busy, StopInv, StopTypeOK

Keeps == LifeInv' /\ (session.status = "TERMINATED" => session'.status = "TERMINATED")

\* A new request, and the repair of a deletion.
LEMMA LifeBegin ==
  ASSUME LifeInv, NEW o \in Operations,
         RepairDelete(o) \/ \E kind \in Kinds : Begin(o, kind)
  PROVE  Keeps
<1>1. ASSUME NEW kind \in {"archive", "unarchive", "delete"}, NEW phase \in {"list", "begun"},
             request' = [request EXCEPT ![o] = [NoRequest EXCEPT !.kind = kind, !.phase = phase]]
      PROVE  request' \in [Operations -> Requests]
  <2> DEFINE next == [NoRequest EXCEPT !.kind = kind, !.phase = phase]
  <2>1. next \in Requests
    BY NoRequestType DEF Requests, Phases
  <2> HIDE DEF next
  <2>2. request' = [request EXCEPT ![o] = next]
    BY <1>1 DEF next
  <2> QED BY <2>1, <2>2 DEF LifeInv
<1>2. ASSUME NEW kind \in Kinds, Begin(o, kind) PROVE request' \in [Operations -> Requests]
  <2> DEFINE phase == IF kind = "unarchive" THEN "list" ELSE "begun"
  <2>1. kind \in {"archive", "unarchive", "delete"} /\ phase \in {"list", "begun"}
    BY KindsAssumption
  <2>2. request' = [request EXCEPT ![o] = [NoRequest EXCEPT !.kind = kind, !.phase = phase]]
    BY <1>2 DEF Begin
  <2> HIDE DEF phase
  <2> QED BY <1>1, <2>1, <2>2
<1>3. ASSUME RepairDelete(o) PROVE request' \in [Operations -> Requests]
  BY <1>1, <1>3 DEF RepairDelete
<1>4. UNCHANGED <<vars, stop, deleted>>
  BY DEF RepairDelete, Begin
<1>5. StopInv'
  BY <1>4 DEF LifeInv, StopInv, StopTypeOK
<1> QED BY <1>2, <1>3, <1>4, <1>5, RequestOnly DEF Keeps

\* The writes of the archived mark leave the status and the owner.
LEMMA LifeMark ==
  ASSUME LifeInv, NEW o \in Operations, ArchiveRow(o) \/ Unarchive(o) PROVE Keeps
<1>1. \E archived \in BOOLEAN : session' = [session EXCEPT !.archived = archived]
                                \/ session' = session
  BY DEF ArchiveRow, Unarchive
<1>2. session' \in Sessions /\ session'.status = session.status /\ session'.op = session.op
  BY <1>1 DEF LifeInv, TypeOK, Sessions
<1>3. request' \in [Operations -> Requests]
  BY BecomeType, EndType DEF ArchiveRow, Unarchive, Phases
<1>4. Anchored' /\ UNCHANGED <<run, driver, events, dispatches, worker, crashes, stop, deleted>>
  BY <1>2 DEF ArchiveRow, Unarchive, LifeInv, Anchored
<1> QED BY <1>2, <1>3, <1>4, SessionWritten DEF Keeps

\* A deletion finds the id it continues under, or takes its own.
LEMMA LifeOwner == ASSUME LifeInv, NEW o \in Operations, ResolveOwner(o) PROVE Keeps
<1> DEFINE owner == IF session.status = "TERMINATED" /\ session.op # NoOperation
                    THEN session.op ELSE o
           next  == [request[o] EXCEPT !.owner = owner]
<1>1. owner \in Operations \cup {NoOperation} /\ request[o] \in Requests
  BY DEF LifeInv, TypeOK, Sessions
<1>2. request' = [request EXCEPT ![o] = next]
  BY DEF ResolveOwner
<1> HIDE DEF owner
<1>3. next \in Requests
  BY <1>1 DEF Requests
<1> HIDE DEF next
<1>4. request' \in [Operations -> Requests]
  BY <1>2, <1>3 DEF LifeInv
<1>5. StopInv' /\ UNCHANGED <<vars, deleted>>
  BY DEF ResolveOwner, LifeInv, StopInv, StopTypeOK
<1> QED BY <1>4, <1>5, RequestOnly DEF Keeps

\* The anchor: the session is terminated under an id.
LEMMA LifeAnchor == ASSUME LifeInv, NEW o \in Operations, AdmitDelete(o) PROVE Keeps
<1>1. request[o].owner \in Operations \cup {NoOperation} /\ request[o].owner # NoOperation
  BY DEF AdmitDelete, LifeInv, Requests
<1>2. request' \in [Operations -> Requests]
  BY BecomeType DEF AdmitDelete, Phases
<1>3. CASE deleted
  BY <1>2, <1>3, SessionWritten DEF AdmitDelete, LifeInv, TypeOK, Anchored, Keeps
<1>4. CASE ~deleted
  <2> DEFINE number == session.seq + 1
  <2>1. session \in Sessions /\ number \in Nat
    BY DEF LifeInv, TypeOK, Sessions
  <2>2. session' = [session EXCEPT !.archived = TRUE, !.status = "TERMINATED",
                                   !.op = request[o].owner, !.seq = number]
    BY <1>4 DEF AdmitDelete
  <2> HIDE DEF number
  <2>3. /\ session' \in Sessions /\ session'.status = "TERMINATED"
        /\ session'.op = request[o].owner
    BY <1>1, <2>1, <2>2 DEF Sessions, SessionStatuses
  <2>4. Anchored' /\ UNCHANGED <<run, driver, events, dispatches, worker, crashes, stop, deleted>>
    BY <1>1, <2>3 DEF AdmitDelete, Anchored
  <2> QED BY <1>2, <2>3, <2>4, SessionWritten DEF Keeps
<1> QED BY <1>3, <1>4

\* Stopping the driver leaves the session to the run's writer.
LEMMA LifeStop ==
  ASSUME LifeInv, NEW o \in Operations,
         StopDriver(o) \/ NothingToStop(o) \/ Stopping(o) \/ StopThrows(o)
  PROVE  Keeps
<1>1. CASE Stopping(o)
  <2>1. TypeOK' /\ StopInv' /\ UNCHANGED <<session, run>>
    BY <1>1, StopStepInv DEF Stopping, LifeInv
  <2> QED BY <1>1, <2>1 DEF Stopping, LifeInv, Anchored, Keeps
<1>2. CASE StopDriver(o) \/ NothingToStop(o)
  <2>1. AfterStop(o) \in Phases
    BY DEF AfterStop, Phases
  <2>2. request' \in [Operations -> Requests]
    BY <1>2, <2>1, BecomeType DEF StopDriver, NothingToStop
  <2>3. StopInv' /\ UNCHANGED <<vars, deleted>>
    BY <1>2, BeginStopInv DEF StopDriver, NothingToStop, LifeInv, StopInv, StopTypeOK
  <2> QED BY <2>2, <2>3, RequestOnly DEF Keeps
<1>3. CASE StopThrows(o)
  <2>1. request' \in [Operations -> Requests]
    BY <1>3, EndType DEF StopThrows
  <2>2. StopInv' /\ UNCHANGED <<vars, deleted>>
    BY <1>3 DEF StopThrows, LifeInv, StopInv, StopTypeOK, NoStop
  <2> QED BY <2>1, <2>2, RequestOnly DEF Keeps
<1> QED BY <1>1, <1>2, <1>3

\* Cancelling the runs that were listed.
LEMMA LifeCancel ==
  ASSUME LifeInv, NEW o \in Operations,
         ListActiveRuns(o) \/ CancelListedRun(o) \/ ListedRunReturned(o)
  PROVE  Keeps
<1>0. request[o] \in Requests
  BY DEF LifeInv
<1>1. CASE ListActiveRuns(o)
  <2> DEFINE active == {r \in Runs : Active(r)}
             next   == [request[o] EXCEPT !.phase = "cancelling", !.cancels = active]
  <2>1. active \in SUBSET Runs
    OBVIOUS
  <2>2. request' = [request EXCEPT ![o] = next]
    BY <1>1 DEF ListActiveRuns
  <2> HIDE DEF active
  <2>3. next \in Requests
    BY <1>0, <2>1 DEF Requests, Phases
  <2> HIDE DEF next
  <2>4. request' \in [Operations -> Requests]
    BY <2>2, <2>3 DEF LifeInv
  <2>5. StopInv' /\ UNCHANGED <<vars, deleted>>
    BY <1>1 DEF ListActiveRuns, LifeInv, StopInv, StopTypeOK
  <2> QED BY <2>4, <2>5, RequestOnly DEF Keeps
<1>2. CASE CancelListedRun(o)
  <2> PICK r \in request[o].cancels :
         /\ Start(o, Call("system", r, "cancelled", FALSE))
         /\ request' = [request EXCEPT ![o].cancels = @ \ {r}]
    BY <1>2 DEF CancelListedRun
  <2> DEFINE rest == request[o].cancels \ {r}
             next == [request[o] EXCEPT !.cancels = rest]
             call == Call("system", r, "cancelled", FALSE)
  <2>1. r \in Runs /\ rest \in SUBSET Runs
    BY <1>0 DEF Requests
  <2>2. "system" \in Callers /\ "cancelled" \in RunStatuses /\ FALSE \in BOOLEAN
    BY DEF Callers, RunStatuses, TerminalStatuses
  <2>3. call \in Calls /\ call.run = r
    BY <2>1, <2>2, IdleType DEF Call, Idle, Calls
  <2>4. request' = [request EXCEPT ![o] = next]
    OBVIOUS
  <2> HIDE DEF call, rest
  <2>5. next \in Requests
    BY <1>0, <2>1 DEF Requests
  <2> HIDE DEF next
  <2>6. request' \in [Operations -> Requests]
    BY <2>4, <2>5 DEF LifeInv
  <2>7. Start(o, call)
    BY DEF call
  <2>8. TypeOK'
    BY <2>1, <2>3, <2>7, OperationWorks, WorkerChange DEF LifeInv, Start, TypeOK, WorkersOK
  <2>9. StopInv' /\ Anchored' /\ UNCHANGED <<session, deleted>>
    BY <1>2, <2>7 DEF CancelListedRun, Start, LifeInv, StopInv, StopTypeOK, Anchored
  <2> QED BY <2>6, <2>8, <2>9 DEF LifeInv, Keeps
<1>3. CASE ListedRunReturned(o)
  <2>1. TypeOK'
    BY <1>3, OperationWorks, IdleWorker DEF ListedRunReturned, LifeInv, TypeOK
  <2>2. request' \in [Operations -> Requests]
    BY <1>3, EndType DEF ListedRunReturned, LifeInv
  <2>3. StopInv' /\ Anchored' /\ UNCHANGED <<session, deleted>>
    BY <1>3 DEF ListedRunReturned, LifeInv, StopInv, StopTypeOK, Anchored
  <2> QED BY <2>1, <2>2, <2>3 DEF LifeInv, Keeps
<1> QED BY <1>1, <1>2, <1>3

\* Normalisation writes no terminated session.
LEMMA LifeNormalize == ASSUME LifeInv, NEW o \in Operations, NormalizeSession(o) PROVE Keeps
<1>1. request' \in [Operations -> Requests]
  BY BecomeType DEF NormalizeSession, Phases
<1>2. session \in Sessions /\ "IDLE" \in SessionStatuses
  BY DEF LifeInv, TypeOK, SessionStatuses
<1>3. /\ session' \in Sessions
      /\ \/ session' = session
         \/ session.status # "TERMINATED" /\ session'.status = "IDLE"
  BY <1>2, PatchType DEF NormalizeSession
<1>4. Anchored' /\ UNCHANGED <<run, driver, events, dispatches, worker, crashes, stop, deleted>>
  BY <1>3 DEF NormalizeSession, LifeInv, Anchored
<1> QED BY <1>1, <1>3, <1>4, SessionWritten DEF Keeps

\* The row goes with the runs and the events of its session.
LEMMA LifeDelete == ASSUME LifeInv, NEW o \in Operations, DeleteRow(o) PROVE Keeps
<1>1. request' \in [Operations -> Requests]
  BY EndType DEF DeleteRow
<1>2. session' \in Sessions /\ session'.status = session.status
  BY DEF DeleteRow, LifeInv, TypeOK, Sessions
<1>3. run' \in [Runs -> Rows]
  BY DEF DeleteRow, Rows
<1>4. TypeOK'
  BY <1>2, <1>3 DEF DeleteRow, LifeInv, TypeOK, Busy
<1>5. StopInv' /\ deleted'
  BY DEF DeleteRow, LifeInv, StopInv, StopTypeOK
<1> QED BY <1>1, <1>2, <1>4, <1>5 DEF LifeInv, Anchored, Keeps

\* The end of an archive, and a lost request.
LEMMA LifeEnd == ASSUME LifeInv, NEW o \in Operations, FinishArchive(o) \/ LoseRequest(o) PROVE Keeps
<1>1. request' \in [Operations -> Requests]
  BY EndType DEF FinishArchive, LoseRequest
<1>2. CASE FinishArchive(o)
  <2>1. StopInv' /\ UNCHANGED <<vars, deleted>>
    BY <1>2 DEF FinishArchive, LifeInv, StopInv, StopTypeOK
  <2> QED BY <1>1, <2>1, RequestOnly DEF Keeps
<1>3. CASE LoseRequest(o)
  <2>1. crashes' \in 0..MaxCrashes
    BY <1>3, ConstantsAssumption DEF LoseRequest, LifeInv, TypeOK, ConstantsAssumption
  <2>2. TypeOK' /\ StopInv'
    BY <1>3, <2>1, AbandonInv DEF LoseRequest, LifeInv
  <2> QED BY <1>1, <1>3, <2>2 DEF LoseRequest, LifeInv, Anchored, Keeps
<1> QED BY <1>2, <1>3

-----------------------------------------------------------------------------
(* The invariant, and what follows from it.                                *)

\* Every step keeps LifeInv, and a terminated session terminated.
LEMMA LifeNext == ASSUME LifeInv, [LifecycleNext]_lifecycleVars PROVE Keeps
<1>1. CASE UNCHANGED lifecycleVars
  <2>1. StopInv' /\ request' \in [Operations -> Requests] /\ UNCHANGED <<vars, deleted>>
    BY <1>1 DEF lifecycleVars, LifeInv, StopInv, StopTypeOK
  <2> QED BY <2>1, RequestOnly DEF Keeps
<1>2. CASE Next /\ UNCHANGED <<stop, request, deleted>>
  BY <1>2, LifeRunStep DEF Keeps
<1>3. ASSUME NEW o \in Operations,
             (\E kind \in Kinds : Begin(o, kind)) \/ RequestStep(o) \/ LoseRequest(o) \/ RepairDelete(o)
      PROVE  Keeps
  BY <1>3, LifeBegin, LifeMark, LifeOwner, LifeAnchor, LifeStop, LifeCancel, LifeNormalize,
     LifeDelete, LifeEnd DEF RequestStep
<1> QED BY <1>1, <1>2, <1>3 DEF LifecycleNext

\* LifeInv holds in every reachable state.
LEMMA LifeCorrect == LifecycleSpec => []LifeInv
<1>1. LifeInv /\ [LifecycleNext]_lifecycleVars => LifeInv'
  BY LifeNext DEF Keeps
<1> QED BY <1>1, LifeInit, PTL DEF LifecycleSpec

-----------------------------------------------------------------------------
(* The runs under requests, and after the session is gone.                 *)

\* A deletion that got past its anchor has terminated the session.
Doomed ==
  \A o \in Operations : request[o].kind = "delete" =>
    /\ request[o].phase \in {"begun", "stopping", "finish"}
    /\ request[o].phase # "begun" => session.status = "TERMINATED"

\* A call about to write has read a run.
SeenRuns == \A w \in Workers : worker[w].pc = "write" => worker[w].seen.status \in RunStatuses

SafeInv ==
  /\ LifeInv
  /\ Doomed
  /\ GoneIsEmpty
  /\ OneDispatcher
  /\ SeenRuns
  /\ ~deleted => RunInv

\* What RunInv knows of the calls.
LEMMA SeenByInv == (RunInv => SeenRuns /\ OneDispatcher) /\ (RunInv' => SeenRuns' /\ OneDispatcher')
BY DEF RunInv, CallsInformed, Informed, SeenRuns

\* The initial state.
LEMMA SafeInit == LifecycleInit => SafeInv
<1> SUFFICES ASSUME LifecycleInit PROVE SafeInv
  OBVIOUS
<1>1. RunInv /\ SeenRuns /\ OneDispatcher
  BY InvInit, SeenByInv DEF LifecycleInit
<1>2. Doomed /\ GoneIsEmpty
  BY DEF LifecycleInit, NoRequest, Doomed, GoneIsEmpty
<1> QED BY <1>1, <1>2, LifeInit DEF SafeInv

\* A worker that goes on to a call that writes nothing.
LEMMA SeenChange ==
  ASSUME SafeInv, NEW w \in Workers, NEW call, call.pc # "write",
         worker' = [worker EXCEPT ![w] = call]
  PROVE  SeenRuns'
BY DEF SafeInv, LifeInv, TypeOK, SeenRuns

\* A worker that returns writes nothing.
LEMMA SeenReturn ==
  ASSUME SafeInv, NEW w \in Workers, NEW outcome \in Outcomes, Return(w, outcome)
  PROVE  SeenRuns'
<1> DEFINE call == worker[w]
           next == Resume(call, outcome)
<1>1. call \in Calls
  BY DEF SafeInv, LifeInv, TypeOK
<1>2. [call EXCEPT !.pc = "append", !.seen = NoSnapshot].pc = "append"
  BY <1>1 DEF Calls
<1>3. [call EXCEPT !.pc = "reread", !.seen = NoSnapshot].pc = "reread"
  BY <1>1 DEF Calls
<1>4. [Idle EXCEPT !.pc = outcome].pc # "write" /\ Idle.pc # "write"
  BY DEF Idle, Outcomes
<1>6. next.pc # "write"
  BY <1>2, <1>3, <1>4, ResumeCases
<1> HIDE DEF next
<1>5. worker' = [worker EXCEPT ![w] = next]
  BY DEF Return, next
<1> QED BY <1>5, <1>6, SeenChange

\* Once the session is gone, the workers find no run to write and append no event.
LEMMA GoneStep ==
  ASSUME SafeInv, deleted, Next
  PROVE  UNCHANGED <<run, events, dispatches>> /\ SeenRuns'
<1>1. \A r \in Runs : run[r].status = "absent" /\ ~Active(r) /\ ~Terminal(r)
  BY DEF SafeInv, GoneIsEmpty, Active, Terminal, ActiveStatuses, TerminalStatuses
<1>2. session.status = "TERMINATED"
  BY DEF SafeInv, GoneIsEmpty
<1>3. ASSUME NEW r \in Runs PROVE ~Admit(r) /\ ~SweeperStarts(r)
  BY <1>1, <1>2 DEF Admit, Admissible, SweeperStarts, FailStale, Reconcile, Reconcilable
<1>4. ASSUME NEW r \in Runs, DriverChanges(r)
      PROVE  UNCHANGED <<run, events, dispatches>> /\ SeenRuns'
  BY <1>4 DEF DriverChanges, LeaseDriver, ReleaseLease, DriverStops, SafeInv, SeenRuns
<1>5. ASSUME NEW w \in Handlers, NEW r \in Runs, HandlerStarts(w, r)
      PROVE  UNCHANGED <<run, events, dispatches>> /\ SeenRuns'
  <2>1. PICK call : Startable(call, r) /\ Start(w, call)
    BY <1>5, HandlerCalls
  <2> QED BY <2>1, SeenChange DEF Startable, Start, Workers
<1>6. ASSUME NEW w \in Workers, Step(w)
      PROVE  UNCHANGED <<run, events, dispatches>> /\ SeenRuns'
  <2> DEFINE call == worker[w]
  <2>1. call \in Calls /\ (Busy(call) => call.run \in Runs)
    BY DEF SafeInv, LifeInv, TypeOK
  <2>2. CASE ReadRun(w)
    <3>1. ReadDecision(call) = "rejected"
      BY <1>1, <2>1, <2>2 DEF ReadRun, ReadDecision, Busy, Outcomes
    <3>2. Return(w, "rejected") /\ UNCHANGED <<run, events, dispatches>>
      BY <2>2, <3>1 DEF ReadRun
    <3> QED BY <3>2, SeenReturn DEF Outcomes
  <2>3. CASE WriteRun(w)
    <3>1. call.run \in Runs /\ call.seen.status \in RunStatuses
      BY <2>1, <2>3 DEF WriteRun, SafeInv, SeenRuns, Busy, Outcomes
    <3>2. run[call.run].status = call.seen.status
      BY <2>3 DEF WriteRun, RowIsAsSeen
    <3> QED BY <1>1, <3>1, <3>2 DEF RunStatuses, ActiveStatuses, TerminalStatuses
  <2>4. CASE WriteSession(w)
    <3>1. /\ \E outcome \in Outcomes : Return(w, outcome)
          /\ UNCHANGED <<run, events, dispatches>>
      BY <2>4 DEF WriteSession, LoseRace, RepairProjection, Outcomes
    <3> QED BY <3>1, SeenReturn
  <2>5. CASE Reread(w)
    <3> DEFINE next == IF run[call.run].status = call.target THEN [call EXCEPT !.pc = "append"]
                                                             ELSE Idle
    <3>1. next.pc # "write"
      BY <2>1 DEF Calls, Idle
    <3>2. worker' = [worker EXCEPT ![w] = next] /\ UNCHANGED <<run, events, dispatches>>
      BY <2>5 DEF Reread
    <3> HIDE DEF next
    <3> QED BY <3>1, <3>2, SeenChange
  <2>6. CASE AppendEvent(w)
    <3>1. worker' = [worker EXCEPT ![w] = Idle] /\ UNCHANGED <<run, events, dispatches>>
      BY <1>2, <2>6 DEF AppendEvent, Writable
    <3> QED BY <3>1, SeenChange DEF Idle
  <2> QED BY <1>6, <2>2, <2>3, <2>4, <2>5, <2>6 DEF Step
<1>7. ASSUME NEW w \in Workers \ Operations, Crash(w)
      PROVE  UNCHANGED <<run, events, dispatches>> /\ SeenRuns'
  BY <1>7, SeenChange DEF Crash, Idle
<1> QED BY <1>3, <1>4, <1>5, <1>6, <1>7 DEF Next

\* The steps of SessionRun keep SafeInv, before and after.
LEMMA SafeRunStep ==
  ASSUME SafeInv, Keeps, Next, UNCHANGED <<stop, request, deleted>>
  PROVE  SafeInv'
<1>1. Doomed' /\ LifeInv'
  BY DEF SafeInv, Doomed, Keeps
<1>2. CASE ~deleted
  <2>1. RunInv'
    BY <1>2, InvNext DEF SafeInv
  <2> QED BY <1>1, <1>2, <2>1, SeenByInv DEF SafeInv, GoneIsEmpty
<1>3. CASE deleted
  <2>1. UNCHANGED <<run, events, dispatches>> /\ SeenRuns'
    BY <1>3, GoneStep
  <2>2. GoneIsEmpty' /\ OneDispatcher'
    BY <1>3, <2>1 DEF SafeInv, Keeps, GoneIsEmpty, OneDispatcher
  <2> QED BY <1>1, <1>3, <2>1, <2>2 DEF SafeInv
<1> QED BY <1>2, <1>3 DEF SafeInv, LifeInv

-----------------------------------------------------------------------------
(* The steps of a request, before and after the deletion.                  *)

\* A request that a step leaves in a phase of its own kind.
LEMMA DoomedKept ==
  ASSUME SafeInv, Keeps, NEW o \in Operations,
         \A other \in Operations \ {o} : request'[other] = request[other],
         request'[o].kind = "delete" =>
           /\ request'[o].phase \in {"begun", "stopping", "finish"}
           /\ request'[o].phase # "begun" => session'.status = "TERMINATED"
  PROVE  Doomed'
BY DEF SafeInv, Keeps, Doomed

\* A request that goes on to a phase of a deletion only if it is a deletion.
LEMMA BecomeDoomed ==
  ASSUME SafeInv, Keeps, NEW o \in Operations, NEW phase, Become(o, phase),
         request[o].kind = "delete" => phase \in {"stopping", "finish"} /\ session'.status = "TERMINATED"
  PROVE  Doomed'
<1> DEFINE next == [request[o] EXCEPT !.phase = phase]
<1>1. request[o] \in Requests
  BY DEF SafeInv, LifeInv
<1>2. request' = [request EXCEPT ![o] = next]
  BY DEF Become
<1>3. next.kind = request[o].kind /\ next.phase = phase
  BY <1>1 DEF Requests
<1> HIDE DEF next
<1>4. /\ request'[o].kind = request[o].kind /\ request'[o].phase = phase
      /\ \A other \in Operations \ {o} : request'[other] = request[other]
  BY <1>2, <1>3 DEF SafeInv, LifeInv
<1> QED BY <1>4, DoomedKept

\* A request that ends is no deletion any more.
LEMMA EndDoomed == ASSUME SafeInv, Keeps, NEW o \in Operations, End(o) PROVE Doomed'
<1>1. request'[o] = NoRequest /\ \A other \in Operations \ {o} : request'[other] = request[other]
  BY DEF End, SafeInv, LifeInv
<1> QED BY <1>1, DoomedKept DEF NoRequest

\* A step that leaves the rows of the runs keeps SafeInv if it does what RunInv knows.
LEMMA RowsSafe ==
  ASSUME SafeInv, Keeps, Doomed', UNCHANGED <<run, events, dispatches, deleted>>,
         SeenRuns', RunInv => RunInv'
  PROVE  SafeInv'
BY DEF SafeInv, Keeps, GoneIsEmpty, OneDispatcher

\* A step that writes the session, or nothing, keeps SafeInv.
LEMMA SessionSafe ==
  ASSUME SafeInv, Keeps, Doomed', session'.lastRun = session.lastRun,
         UNCHANGED <<run, driver, events, dispatches, worker, crashes, deleted>>
  PROVE  SafeInv'
<1>1. SeenRuns'
  BY DEF SafeInv, SeenRuns
<1>2. ASSUME RunInv PROVE RunInv'
  <2>1. CallsInformed'
    BY <1>2 DEF RunInv, CallsInformed
  <2> QED BY <1>2, <2>1, RowsKept DEF RunInv, Keeps, LifeInv
<1> QED BY <1>1, <1>2, RowsSafe

\* A request begins, or a deletion is resumed.
LEMMA SafeBegin ==
  ASSUME SafeInv, Keeps, NEW o \in Operations, RepairDelete(o) \/ \E kind \in Kinds : Begin(o, kind)
  PROVE  SafeInv'
<1>1. /\ request'[o].kind = "delete" => request'[o].phase = "begun"
      /\ \A other \in Operations \ {o} : request'[other] = request[other]
  BY DEF RepairDelete, Begin, NoRequest, SafeInv, LifeInv
<1>2. UNCHANGED <<vars, deleted>>
  BY DEF RepairDelete, Begin
<1> QED BY <1>1, <1>2, DoomedKept, SessionSafe DEF vars

\* The marks that requests write on the session, the anchor of a deletion among them.
LEMMA SafeMark ==
  ASSUME SafeInv, Keeps, NEW o \in Operations,
         ArchiveRow(o) \/ Unarchive(o) \/ AdmitDelete(o) \/ NormalizeSession(o)
  PROVE  SafeInv'
<1>0. session \in Sessions
  BY DEF SafeInv, LifeInv, TypeOK
<1>1. CASE ArchiveRow(o)
  <2>1. session'.lastRun = session.lastRun
    BY <1>0, <1>1 DEF ArchiveRow, Sessions
  <2>2. Doomed'
    BY <1>1, BecomeDoomed DEF ArchiveRow
  <2> QED BY <1>1, <2>1, <2>2, SessionSafe DEF ArchiveRow
<1>2. CASE Unarchive(o)
  <2>1. session'.lastRun = session.lastRun
    BY <1>0, <1>2 DEF Unarchive, Sessions
  <2>2. Doomed'
    BY <1>2, EndDoomed DEF Unarchive
  <2> QED BY <1>2, <2>1, <2>2, SessionSafe DEF Unarchive
<1>3. CASE AdmitDelete(o)
  <2>1. session'.lastRun = session.lastRun
    BY <1>0, <1>3 DEF AdmitDelete, Sessions
  <2>2. session'.status = "TERMINATED"
    BY <1>0, <1>3 DEF AdmitDelete, Sessions, SafeInv, GoneIsEmpty
  <2>3. Doomed'
    BY <1>3, <2>2, BecomeDoomed DEF AdmitDelete
  <2> QED BY <1>3, <2>1, <2>3, SessionSafe DEF AdmitDelete
<1>4. CASE NormalizeSession(o)
  <2>1. session'.lastRun = session.lastRun
    BY <1>0, <1>4, PatchType DEF NormalizeSession, SessionStatuses
  <2>2. request[o].kind # "delete"
    BY <1>4 DEF NormalizeSession, SafeInv, Doomed
  <2>3. Doomed'
    BY <1>4, <2>2, BecomeDoomed DEF NormalizeSession
  <2> QED BY <1>4, <2>1, <2>3, SessionSafe DEF NormalizeSession
<1> QED BY <1>1, <1>2, <1>3, <1>4

\* The steps that change only what the request remembers.
LEMMA SafeMemory ==
  ASSUME SafeInv, Keeps, NEW o \in Operations,
         \/ ResolveOwner(o) \/ StopDriver(o) \/ NothingToStop(o) \/ StopThrows(o)
         \/ ListActiveRuns(o) \/ FinishArchive(o)
  PROVE  SafeInv'
<1>1. UNCHANGED <<vars, deleted>>
  BY BeginStopInv
  DEF ResolveOwner, StopDriver, NothingToStop, StopThrows, ListActiveRuns, FinishArchive,
      SafeInv, LifeInv
<1>2. CASE ResolveOwner(o)
  <2> DEFINE owner == IF session.status = "TERMINATED" /\ session.op # NoOperation
                      THEN session.op ELSE o
             next  == [request[o] EXCEPT !.owner = owner]
  <2>1. request' = [request EXCEPT ![o] = next] /\ request[o] \in Requests
    BY <1>2 DEF ResolveOwner, SafeInv, LifeInv
  <2> HIDE DEF owner
  <2>2. next.kind = request[o].kind /\ next.phase = "begun"
    BY <1>2, <2>1 DEF ResolveOwner, Requests
  <2> HIDE DEF next
  <2>3. request'[o] = next /\ \A other \in Operations \ {o} : request'[other] = request[other]
    BY <2>1 DEF SafeInv, LifeInv
  <2> QED BY <1>1, <2>2, <2>3, DoomedKept, SessionSafe DEF vars
<1>3. CASE StopDriver(o) \/ NothingToStop(o)
  <2>1. Become(o, AfterStop(o)) /\ request[o].phase = "stopping"
    BY <1>3 DEF StopDriver, NothingToStop
  <2>2. request[o].kind = "delete" => AfterStop(o) = "finish" /\ session'.status = "TERMINATED"
    BY <2>1 DEF AfterStop, SafeInv, Doomed, Keeps
  <2>3. Doomed'
    BY <2>1, <2>2, BecomeDoomed
  <2> QED BY <1>1, <2>3, SessionSafe DEF vars
<1>4. CASE StopThrows(o) \/ FinishArchive(o)
  <2>1. Doomed'
    BY <1>4, EndDoomed DEF StopThrows, FinishArchive
  <2> QED BY <1>1, <2>1, SessionSafe DEF vars
<1>5. CASE ListActiveRuns(o)
  <2> DEFINE active == {r \in Runs : Active(r)}
             next   == [request[o] EXCEPT !.phase = "cancelling", !.cancels = active]
  <2>1. /\ request' = [request EXCEPT ![o] = next] /\ request[o] \in Requests
        /\ request[o].kind # "delete"
    BY <1>5 DEF ListActiveRuns, SafeInv, LifeInv, Doomed
  <2> HIDE DEF active
  <2>2. next.kind # "delete"
    BY <2>1 DEF Requests
  <2> HIDE DEF next
  <2>3. request'[o] = next /\ \A other \in Operations \ {o} : request'[other] = request[other]
    BY <2>1 DEF SafeInv, LifeInv
  <2> QED BY <1>1, <2>2, <2>3, DoomedKept, SessionSafe DEF vars
<1> QED BY <1>2, <1>3, <1>4, <1>5

\* Cancelling a run that was listed.
LEMMA SafeCancel ==
  ASSUME SafeInv, Keeps, NEW o \in Operations, CancelListedRun(o) \/ ListedRunReturned(o)
  PROVE  SafeInv'
<1>0. o \in Workers /\ request[o] \in Requests
  BY OperationWorks DEF SafeInv, LifeInv
<1>1. CASE CancelListedRun(o)
  <2> PICK r \in request[o].cancels :
         /\ Start(o, Call("system", r, "cancelled", FALSE))
         /\ request' = [request EXCEPT ![o].cancels = @ \ {r}]
    BY <1>1 DEF CancelListedRun
  <2> DEFINE call == Call("system", r, "cancelled", FALSE)
             rest == request[o].cancels \ {r}
             next == [request[o] EXCEPT !.cancels = rest]
  <2>1. call.pc = "read" /\ call.by = "system" /\ ~call.appends
    BY DEF Call, Idle
  <2>2. Start(o, call) /\ UNCHANGED deleted
    BY <1>1 DEF CancelListedRun
  <2> HIDE DEF call
  <2>3. UNCHANGED <<session, run, events, dispatches>> /\ worker' = [worker EXCEPT ![o] = call]
    BY <2>2 DEF Start
  <2>4. SeenRuns'
    BY <1>0, <2>1, <2>3, SeenChange
  <2>5. ASSUME RunInv PROVE RunInv'
    <3>1. Informed(call, run')
      BY <2>1 DEF Informed
    <3>2. CallsInformed'
      BY <1>0, <2>3, <2>5, <3>1, InformedChange
    <3> QED BY <2>3, <2>5, <3>2, RowsKept DEF RunInv, Keeps, LifeInv
  <2>6. Doomed'
    <3>1. request' = [request EXCEPT ![o] = next]
      OBVIOUS
    <3> HIDE DEF rest
    <3>2. next.kind = request[o].kind /\ next.phase = request[o].phase
      BY <1>0 DEF Requests
    <3> HIDE DEF next
    <3>3. /\ request'[o].kind = request[o].kind /\ request'[o].phase = "cancelling"
          /\ request[o].phase = "cancelling"
          /\ \A other \in Operations \ {o} : request'[other] = request[other]
      BY <1>1, <3>1, <3>2 DEF CancelListedRun, SafeInv, LifeInv
    <3>4. request[o].kind # "delete"
      BY <3>3 DEF SafeInv, Doomed
    <3> QED BY <3>3, <3>4, DoomedKept
  <2> QED BY <2>2, <2>3, <2>4, <2>5, <2>6, RowsSafe
<1>2. CASE ListedRunReturned(o)
  <2>1. /\ UNCHANGED <<session, run, driver, events, dispatches, crashes, deleted>>
        /\ worker' = [worker EXCEPT ![o] = Idle]
        /\ End(o) \/ UNCHANGED request
    BY <1>2 DEF ListedRunReturned
  <2>2. SeenRuns'
    BY <1>0, <2>1, SeenChange DEF Idle
  <2>3. RunInv => RunInv'
    BY <1>0, <2>1, IdleWorker DEF SafeInv, LifeInv, TypeOK
  <2>4. Doomed'
    BY <2>1, EndDoomed DEF SafeInv, Doomed
  <2> QED BY <2>1, <2>2, <2>3, <2>4, RowsSafe
<1> QED BY <1>1, <1>2

\* Stopping the driver.
LEMMA SafeStopping ==
  ASSUME SafeInv, Keeps, NEW o \in Operations, Stopping(o) PROVE SafeInv'
<1>0. o \in Workers
  BY OperationWorks
<1>1. StopStep(o, FALSE, NoOperation) /\ UNCHANGED <<request, deleted>>
  BY DEF Stopping
<1>2. (RunInv => RunInv') /\ UNCHANGED <<session, run>>
  BY <1>1, StopStepInv DEF SafeInv, LifeInv
<1>3. UNCHANGED <<events, dispatches>> /\ SeenRuns'
  <2>1. CASE CloseDriver(o) \/ MissDriver(o) \/ ReleaseStoppedRun(o)
    BY <2>1 DEF CloseDriver, MissDriver, ReleaseStoppedRun, SafeInv, SeenRuns
  <2>2. CASE StoppedRunReturned(o)
    BY <1>0, <2>2, SeenChange DEF StoppedRunReturned, Idle
  <2>3. CASE CancelStoppedRun(o, FALSE, NoOperation)
    <3> DEFINE call == Cancellation(stop[o].run, FALSE, NoOperation)
    <3>1. call.pc = "read"
      BY DEF Cancellation, Call, Idle
    <3>2. Start(o, call)
      BY <2>3 DEF CancelStoppedRun, Cancellation
    <3> HIDE DEF call
    <3> QED BY <1>0, <3>1, <3>2, SeenChange DEF Start
  <2> QED BY <1>1, <2>1, <2>2, <2>3 DEF StopStep
<1>4. Doomed'
  BY <1>1 DEF SafeInv, Doomed, Keeps
<1> QED BY <1>1, <1>2, <1>3, <1>4, RowsSafe

\* The row goes with everything of the session, which was terminated.
LEMMA SafeDelete == ASSUME SafeInv, Keeps, NEW o \in Operations, DeleteRow(o) PROVE SafeInv'
<1>1. session.status = "TERMINATED"
  BY DEF DeleteRow, SafeInv, Doomed
<1>2. Doomed'
  BY EndDoomed DEF DeleteRow
<1>3. GoneIsEmpty' /\ deleted'
  BY <1>1 DEF DeleteRow, Keeps, GoneIsEmpty
<1>4. OneDispatcher' /\ SeenRuns'
  BY DEF DeleteRow, SafeInv, OneDispatcher, SeenRuns
<1> QED BY <1>2, <1>3, <1>4 DEF SafeInv, Keeps

\* A lost request leaves the rows as they are.
LEMMA SafeLose == ASSUME SafeInv, Keeps, NEW o \in Operations, LoseRequest(o) PROVE SafeInv'
<1>1. /\ UNCHANGED <<session, run, driver, events, dispatches, deleted>>
      /\ AbandonStop(o) /\ End(o)
  BY DEF LoseRequest
<1>2. crashes' \in 0..MaxCrashes
  BY DEF Keeps, LifeInv, TypeOK
<1>3. RunInv => RunInv'
  BY <1>1, <1>2, AbandonInv DEF SafeInv, LifeInv
<1>4. SeenRuns'
  BY <1>1, OperationWorks, SeenChange DEF AbandonStop, Idle
<1>5. Doomed'
  BY <1>1, EndDoomed
<1> QED BY <1>1, <1>3, <1>4, <1>5, RowsSafe

\* SafeInv is inductive.
LEMMA SafeNext == ASSUME SafeInv, [LifecycleNext]_lifecycleVars PROVE SafeInv'
<1>0. Keeps
  BY LifeNext DEF SafeInv
<1>1. CASE UNCHANGED lifecycleVars
  <2>1. UNCHANGED <<vars, deleted>> /\ Doomed'
    BY <1>1 DEF lifecycleVars, vars, SafeInv, Doomed
  <2> QED BY <1>0, <2>1, SessionSafe DEF vars
<1>2. CASE Next /\ UNCHANGED <<stop, request, deleted>>
  BY <1>0, <1>2, SafeRunStep
<1>3. ASSUME NEW o \in Operations,
             (\E kind \in Kinds : Begin(o, kind)) \/ RequestStep(o) \/ LoseRequest(o) \/ RepairDelete(o)
      PROVE  SafeInv'
  BY <1>0, <1>3, SafeBegin, SafeMark, SafeMemory, SafeCancel, SafeStopping, SafeDelete, SafeLose
     DEF RequestStep
<1> QED BY <1>1, <1>2, <1>3 DEF LifecycleNext

\* SafeInv holds in every reachable state.
LEMMA SafeCorrect == LifecycleSpec => []SafeInv
BY SafeInit, SafeNext, PTL DEF LifecycleSpec

-----------------------------------------------------------------------------
(* What follows.                                                           *)

\* Whatever requests, writers and lost executions interleave, every variable keeps its
\* type, a terminated session keeps the id its repair finds it by until it is gone, and
\* then no run and no event of it comes back.
THEOREM LifecycleTypeCorrect == LifecycleSpec => []LifecycleTypeOK
<1>1. SafeInv => LifecycleTypeOK
  BY DEF SafeInv, LifeInv, StopInv, Anchored, LifecycleTypeOK
<1> QED BY <1>1, SafeCorrect, PTL

\* Requests that stop drivers and cancel runs never let a session have two active runs.
THEOREM LifecycleRunUnique == LifecycleSpec => []OneActiveRun
<1>1. SafeInv => OneActiveRun
  BY DEF SafeInv, RunInv, GoneIsEmpty, OneActiveRun, Active, ActiveStatuses
<1> QED BY <1>1, SafeCorrect, PTL

\* Every final event tells how its run really ended, until it is deleted with the session.
THEOREM LifecycleEventsTrue == LifecycleSpec => []FinalEventsTrue
<1>1. SafeInv => FinalEventsTrue
  BY DEF SafeInv, RunInv, GoneIsEmpty, FinalEventsTrue
<1> QED BY <1>1, SafeCorrect, PTL

\* One dispatcher wins a run, whoever archives or deletes its session.
THEOREM LifecycleDispatcherUnique == LifecycleSpec => []OneDispatcher
<1>1. SafeInv => OneDispatcher
  BY DEF SafeInv
<1> QED BY <1>1, SafeCorrect, PTL

\* A dispatcher that failed to hydrate a run, for the session being deleted, say, ends the
\* run only while nobody won it.
THEOREM LifecycleHydrationIsCareful == LifecycleSpec => HydrationFailsOnlyUnclaimed
<1>1. SafeInv => [\A w \in Workers :
                   (worker[w].by = "hydrate" /\ WriteRun(w)) => dispatches[worker[w].run] = 0]_vars
  <2> SUFFICES ASSUME SafeInv, NEW w \in Workers, worker[w].by = "hydrate", WriteRun(w)
               PROVE  dispatches[worker[w].run] = 0
    OBVIOUS
  <2>1. CASE ~deleted
    BY <2>1, WriteMoves DEF SafeInv, RunInv, Unclaimed
  <2>2. CASE deleted
    <3>1. worker[w].run \in Runs
      BY DEF WriteRun, SafeInv, LifeInv, TypeOK, Busy, Outcomes
    <3>2. run[worker[w].run].status \in RunStatuses
      BY DEF WriteRun, RowIsAsSeen, SafeInv, SeenRuns
    <3> QED BY <2>2, <3>1, <3>2
            DEF SafeInv, GoneIsEmpty, RunStatuses, ActiveStatuses, TerminalStatuses
  <2> QED BY <2>1, <2>2
<1> QED BY <1>1, SafeCorrect, PTL DEF LifecycleSpec, HydrationFailsOnlyUnclaimed

\* Requests move runs only through the writers of SessionRun, but for the deletion.
LEMMA LifecycleRunsMove ==
  ASSUME SafeInv, [LifecycleNext]_lifecycleVars
  PROVE  run' = run \/ Next \/ deleted'
<1>1. ASSUME NEW o \in Operations, Stopping(o) PROVE run' = run
  BY <1>1, StopStepInv DEF Stopping, SafeInv, LifeInv
<1>2. ASSUME NEW o \in Operations,
             (\E kind \in Kinds : Begin(o, kind)) \/ LoseRequest(o) \/ RepairDelete(o)
      PROVE  run' = run
  BY <1>2 DEF Begin, LoseRequest, RepairDelete, vars
<1>3. ASSUME NEW o \in Operations, RequestStep(o), ~Stopping(o) PROVE run' = run \/ deleted'
  BY <1>3 DEF RequestStep, ArchiveRow, ResolveOwner, AdmitDelete, StopDriver, BeginStop,
     NothingToStop, StopThrows, ListActiveRuns, CancelListedRun, Start, ListedRunReturned,
     NormalizeSession, FinishArchive, Unarchive, DeleteRow, vars
<1> QED BY <1>1, <1>2, <1>3 DEF LifecycleNext, lifecycleVars, vars

\* A run that ended stays as it is until its session is gone: no request that found it
\* active cancels it any more.
THEOREM EndedRunsStayUntilGone ==
  LifecycleSpec => [][deleted' \/ \A r \in Runs : Terminal(r) => run'[r] = run[r]]_run
<1>1. ASSUME SafeInv, [LifecycleNext]_lifecycleVars
      PROVE  [deleted' \/ \A r \in Runs : Terminal(r) => run'[r] = run[r]]_run
  <2> SUFFICES ASSUME run' # run, ~deleted', NEW r \in Runs, Terminal(r) PROVE run'[r] = run[r]
    OBVIOUS
  <2>1. Next
    BY <1>1, LifecycleRunsMove
  <2>2. CASE deleted
    BY <1>1, <2>1, <2>2, GoneStep
  <2>3. CASE ~deleted
    <3>1. RunInv
      BY <1>1, <2>3 DEF SafeInv
    <3>2. ASSUME NEW other \in Runs, Admit(other) PROVE run'[r] = run[r]
      BY <3>1, <3>2 DEF Admit, Terminal, TerminalStatuses, RunInv, TypeOK
    <3>3. ASSUME NEW w \in Workers, WriteRun(w) PROVE run'[r] = run[r]
      BY <3>1, <3>3, WriteMoves, StatusFacts DEF Terminal
    <3> QED BY <2>1, <3>1, <3>2, <3>3, RunsMove
  <2> QED BY <2>2, <2>3
<1> QED BY <1>1, SafeCorrect, PTL DEF LifecycleSpec

\* No request, run writer or driver event that comes late revives a terminated session.
THEOREM TerminatedStays == LifecycleSpec => TerminatedIsFinal
<1>1. ASSUME LifeInv, [LifecycleNext]_lifecycleVars
      PROVE  [session.status = "TERMINATED" => session'.status = "TERMINATED"]_session
  BY <1>1, LifeNext DEF Keeps
<1> QED BY <1>1, LifeCorrect, PTL DEF LifecycleSpec, TerminatedIsFinal
=============================================================================
