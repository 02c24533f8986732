----------------------- MODULE RuntimeOperationProofs -----------------------
(***************************************************************************)
(* Safety of runtime operations composed with the runs of their session,   *)
(* for any runs, handlers, operations and number of lost executions: the   *)
(* types, and what SessionRunProofs proves of the runs alone.              *)
(*                                                                         *)
(* An operation writes a run it did not read in the same statement; OpInv  *)
(* adds that a run it may interrupt is one of the session's (Interrupting) *)
(* and that the operation that owns the session knows it as it is          *)
(* (OwnerKnowsSession): every other write of the session's status takes    *)
(* the ownership away, and counts the sequence number up.                  *)
(***************************************************************************)
EXTENDS RuntimeOperation, SessionRunProofs

Interrupting ==
  \A o \in Operations : operation[o].interrupts => /\ operation[o].phase # "new"
                                                  /\ operation[o].last \in Runs

OpInv ==
  /\ RunInv
  /\ StopInv
  /\ operation \in [Operations -> Remembered]
  /\ OwnerKnowsSession
  /\ Interrupting

-----------------------------------------------------------------------------
\* Operations have done nothing at first.
LEMMA NewOperationType == NewOperation \in Remembered /\ ~NewOperation.interrupts
BY DEF NewOperation, Remembered, Phases, SessionStatuses

\* The initial state.
LEMMA OpInit == OperationInit => OpInv
<1> SUFFICES ASSUME OperationInit PROVE OpInv
  OBVIOUS
<1>1. RunInv /\ StopInv
  BY InvInit, StopInit DEF OperationInit
<1>2. operation \in [Operations -> Remembered] /\ Interrupting
  BY NewOperationType DEF OperationInit, Interrupting
<1>3. OwnerKnowsSession
  BY ConstantsAssumption DEF OperationInit, Init, OwnerKnowsSession
<1> QED BY <1>1, <1>2, <1>3 DEF OpInv

\* The steps of SessionRun keep OpInv.
LEMMA OpRunStep == ASSUME OpInv, Next, UNCHANGED <<stop, operation>> PROVE OpInv'
<1>1. RunInv'
  BY InvNext DEF OpInv
<1>2. StopInv' /\ Interrupting'
  BY DEF OpInv, StopInv, StopTypeOK, Interrupting
<1>3. session' = session \/ SessionMoves
  BY SessionSteps DEF OpInv, RunInv
<1>4. OwnerKnowsSession'
  BY <1>3, ConstantsAssumption DEF OpInv, OwnerKnowsSession, TargetIsFresh, SessionMoves
<1> QED BY <1>1, <1>2, <1>4 DEF OpInv

-----------------------------------------------------------------------------
(* The steps of an operation.                                              *)

\* An operation that does not hold the session is not its owner.
LEMMA NotOwner ==
  ASSUME OpInv, NEW o \in Operations,
         operation[o].phase \in {"new", "start", "cancel", "append", "done"}
  PROVE  session.op # o
BY DEF OpInv, OwnerKnowsSession

\* An owner that goes on, and forgets nothing of the session, still knows it.
LEMMA OwnerKept ==
  ASSUME OpInv, NEW o \in Operations, UNCHANGED session, operation[o].phase # "lost",
         \A other \in Operations \ {o} : operation'[other] = operation[other],
         session.op = o => \/ operation'[o].phase = "lost"
                           \/ /\ operation'[o].phase \in {"execute", "finish", "restore"}
                              /\ operation'[o].seq = operation[o].seq
                              /\ operation'[o].last = operation[o].last
  PROVE  OwnerKnowsSession'
<1> SUFFICES ASSUME NEW p \in Operations, session.op = p
             PROVE  /\ session.status = "RESCHEDULING"
                    /\ operation'[p].phase # "lost" =>
                         /\ operation'[p].phase \in {"execute", "finish", "restore"}
                         /\ ~session.archived
                         /\ session.seq = operation'[p].seq
                         /\ session.lastRun = operation'[p].last
  BY DEF OwnerKnowsSession, TargetIsFresh
<1> QED BY DEF OpInv, OwnerKnowsSession, TargetIsFresh

\* What an operation remembers, when only its phase changes, or it ends.
LEMMA BecomeType ==
  ASSUME OpInv, NEW o \in Operations, NEW phase \in Phases \ {"new"}, Become(o, phase)
  PROVE  /\ operation' \in [Operations -> Remembered] /\ Interrupting'
         /\ operation'[o].phase = phase
         /\ operation'[o].seq = operation[o].seq /\ operation'[o].last = operation[o].last
         /\ \A other \in Operations \ {o} : operation'[other] = operation[other]
<1>1. operation[o] \in Remembered
  BY DEF OpInv
<1> DEFINE next == [operation[o] EXCEPT !.phase = phase]
<1>2. operation' = [operation EXCEPT ![o] = next]
  BY DEF Become
<1>3. /\ next \in Remembered /\ next.phase = phase /\ next.seq = operation[o].seq
      /\ next.interrupts = operation[o].interrupts /\ next.last = operation[o].last
  BY <1>1 DEF Remembered
<1> HIDE DEF next
<1> QED BY <1>2, <1>3 DEF OpInv, Interrupting

\* What it remembers once it ended, or was lost.
LEMMA ForgetType ==
  ASSUME OpInv, NEW o \in Operations, NEW phase \in Phases,
         operation' = [operation EXCEPT ![o] = [NewOperation EXCEPT !.phase = phase]]
  PROVE  /\ operation' \in [Operations -> Remembered] /\ Interrupting'
         /\ operation'[o].phase = phase
         /\ \A other \in Operations \ {o} : operation'[other] = operation[other]
<1> DEFINE next == [NewOperation EXCEPT !.phase = phase]
<1>1. next \in Remembered /\ ~next.interrupts /\ next.phase = phase
  BY NewOperationType DEF Remembered
<1> HIDE DEF next
<1>2. operation' = [operation EXCEPT ![o] = next]
  BY DEF next
<1> QED BY <1>1, <1>2 DEF OpInv, Interrupting

\* An operation that ends.
LEMMA EndType ==
  ASSUME OpInv, NEW o \in Operations, End(o)
  PROVE  /\ operation' \in [Operations -> Remembered] /\ Interrupting'
         /\ \A other \in Operations \ {o} : operation'[other] = operation[other]
BY ForgetType DEF End, Ended, Phases

\* An operation interrupts a run only if it remembers one.
LEMMA InterruptsType ==
  ASSUME OpInv, NEW o \in Operations, NEW completes \in BOOLEAN, Interrupts(o, completes)
  PROVE  /\ operation' \in [Operations -> Remembered] /\ Interrupting'
         /\ \A other \in Operations \ {o} : operation'[other] = operation[other]
<1> DEFINE any  == operation[o].last # NoRun /\ (completes \/ operation[o].status # "IDLE")
           next == [operation[o] EXCEPT !.phase = "cancel", !.interrupts = any]
<1>1. operation[o] \in Remembered /\ any \in BOOLEAN
  BY DEF OpInv
<1>2. any => operation[o].last \in Runs
  BY <1>1 DEF Remembered
<1>3. operation' = [operation EXCEPT ![o] = next]
  BY DEF Interrupts
<1> HIDE DEF any
<1>4. /\ next \in Remembered /\ next.phase = "cancel"
      /\ next.interrupts = any /\ next.last = operation[o].last
  BY <1>1 DEF Remembered, Phases
<1> HIDE DEF next
<1> QED BY <1>2, <1>3, <1>4 DEF OpInv, Interrupting

\* A step that writes the session alone.
LEMMA SessionOnly ==
  ASSUME OpInv, UNCHANGED <<run, driver, events, dispatches, worker, crashes, stop>>,
         NEW status \in SessionStatuses, NEW owner \in Operations \cup {NoOperation},
         session' = session \/ session' = SessionPatch(status, owner)
  PROVE  RunInv' /\ StopInv'
<1>1. session \in Sessions
  BY DEF OpInv, RunInv, TypeOK
<1>2. session' \in Sessions /\ session'.lastRun = session.lastRun
  BY <1>1, PatchType
<1>3. TypeOK'
  BY <1>2 DEF OpInv, RunInv, TypeOK, Busy
<1>4. CallsInformed' /\ StopInv'
  BY DEF OpInv, RunInv, CallsInformed, StopInv, StopTypeOK
<1>5. RunInv'
  BY <1>2, <1>3, <1>4, RowsKept DEF OpInv, RunInv
<1> QED BY <1>4, <1>5

\* Nothing but the operation's memory changes.
LEMMA MemoryOnly ==
  ASSUME OpInv, UNCHANGED vars, StopInv', operation' \in [Operations -> Remembered], Interrupting',
         OwnerKnowsSession'
  PROVE  OpInv'
BY DEF OpInv, vars, RunInv, TypeOK, Busy, CallsInformed, Unclaimed, OneDispatcher, OneActiveRun,
       Active, FinalEventsTrue

\* What an operation reads of the session has the type of the session.
LEMMA OpResolve == ASSUME OpInv, NEW o \in Operations, ResolveTargets(o) PROVE OpInv'
<1> DEFINE next == [operation[o] EXCEPT !.phase = "start", !.status = session.status,
                      !.seq = session.seq, !.op = session.op, !.last = session.lastRun]
<1>1. /\ session.status \in SessionStatuses /\ session.seq \in Nat
      /\ session.op \in Operations \cup {NoOperation} /\ session.lastRun \in Runs \cup {NoRun}
  BY DEF OpInv, RunInv, TypeOK, Sessions
<1>2. operation[o] \in Remembered
  BY DEF OpInv
<1>3. ~operation[o].interrupts
  BY DEF OpInv, Interrupting, ResolveTargets
<1>4. next \in Remembered /\ ~next.interrupts
  BY <1>1, <1>2, <1>3 DEF Remembered, Phases
<1>5. operation' = [operation EXCEPT ![o] = next]
  BY DEF ResolveTargets
<1> HIDE DEF next
<1>6. operation' \in [Operations -> Remembered] /\ Interrupting'
  BY <1>4, <1>5 DEF OpInv, Interrupting
<1>7. StopInv' /\ UNCHANGED vars
  BY DEF ResolveTargets, OpInv, StopInv, StopTypeOK
<1>8. OwnerKnowsSession'
  BY <1>5, <1>7, NotOwner, OwnerKept DEF ResolveTargets, OpInv, vars
<1> QED BY <1>6, <1>7, <1>8, MemoryOnly

\* Taking the session, or leaving it.
LEMMA OpStartPhase == ASSUME OpInv, NEW o \in Operations, StartPhase(o) PROVE OpInv'
<1>1. RunInv' /\ StopInv'
  BY SessionOnly DEF StartPhase, SessionStatuses
<1>2. CASE ~TakesSession(o)
  <2>1. End(o) /\ UNCHANGED session /\ operation[o].phase = "start"
    BY <1>2 DEF StartPhase
  <2>2. OwnerKnowsSession'
    BY <2>1, EndType, NotOwner, OwnerKept
  <2> QED BY <1>1, <2>1, <2>2, EndType DEF OpInv
<1>3. CASE TakesSession(o)
  <2> DEFINE number == operation[o].seq + 1
             next   == [operation[o] EXCEPT !.phase = "execute", !.seq = number]
  <2>1. operation[o] \in Remembered
    BY DEF OpInv
  <2>2. number \in Nat
    BY <2>1 DEF Remembered
  <2>3. operation' = [operation EXCEPT ![o] = next]
    BY <1>3 DEF StartPhase
  <2> HIDE DEF number
  <2>4. /\ next \in Remembered /\ next.phase = "execute" /\ next.seq = number
        /\ next.interrupts = operation[o].interrupts /\ next.last = operation[o].last
    BY <2>1, <2>2 DEF Remembered, Phases
  <2> HIDE DEF next
  <2>5. /\ operation' \in [Operations -> Remembered] /\ Interrupting'
        /\ operation'[o] = next /\ \A other \in Operations \ {o} : operation'[other] = operation[other]
    BY <2>3, <2>4 DEF OpInv, Interrupting
  <2>6. /\ session'.status = "RESCHEDULING" /\ session'.op = o /\ ~session'.archived
        /\ session'.seq = next.seq /\ session'.lastRun = next.last
    <3>1. session \in Sessions /\ "RESCHEDULING" \in SessionStatuses
      BY DEF OpInv, RunInv, TypeOK, SessionStatuses
    <3>2. session' = SessionPatch("RESCHEDULING", o)
      BY <1>3 DEF StartPhase
    <3>3. ~session.archived /\ session.seq = operation[o].seq /\ session.lastRun = operation[o].last
      BY <1>3 DEF TakesSession, TargetIsFresh
    <3> QED BY <2>4, <3>1, <3>2, <3>3, PatchType, PatchOwner DEF number
  <2>7. OwnerKnowsSession'
    BY <2>4, <2>5, <2>6 DEF OwnerKnowsSession, TargetIsFresh
  <2> QED BY <1>1, <2>5, <2>7 DEF OpInv
<1> QED BY <1>2, <1>3

\* Beginning to stop the driver, or finding none.
LEMMA OpExecute ==
  ASSUME OpInv, NEW o \in Operations, StopDriver(o) \/ NothingToStop(o) PROVE OpInv'
<1>1. Become(o, "finish") /\ UNCHANGED vars
  BY BeginStopInv DEF StopDriver, NothingToStop, OpInv
<1>2. StopInv'
  BY BeginStopInv DEF StopDriver, NothingToStop, OpInv, StopInv, StopTypeOK
<1>3. operation' \in [Operations -> Remembered] /\ Interrupting'
  BY <1>1, BecomeType DEF Phases
<1>4. OwnerKnowsSession'
  BY <1>1, BecomeType, OwnerKept DEF Phases, StopDriver, NothingToStop, vars
<1> QED BY <1>1, <1>2, <1>3, <1>4, MemoryOnly

\* Stopping the driver.
LEMMA OpStopping == ASSUME OpInv, NEW o \in Operations, Stopping(o) PROVE OpInv'
<1>1. RunInv' /\ StopInv' /\ UNCHANGED <<session, run>>
  BY StopStepInv DEF Stopping, OpInv, RunInv
<1>2. OwnerKnowsSession'
  BY <1>1 DEF Stopping, OpInv, OwnerKnowsSession, TargetIsFresh
<1> QED BY <1>1, <1>2 DEF Stopping, OpInv, Interrupting

\* A failure chooses what to restore.
LEMMA OpFail == ASSUME OpInv, NEW o \in Operations, Fail(o) PROVE OpInv'
<1> DEFINE status == RestoredStatus(o)
           next   == [operation[o] EXCEPT !.phase = "restore", !.restore = status]
<1>1. operation[o] \in Remembered /\ status \in {"IDLE", "RUNNING"}
  BY DEF OpInv, RestoredStatus
<1>2. operation' = [operation EXCEPT ![o] = next]
  BY DEF Fail
<1> HIDE DEF status
<1>3. /\ next \in Remembered /\ next.phase = "restore" /\ next.seq = operation[o].seq
      /\ next.interrupts = operation[o].interrupts /\ next.last = operation[o].last
  BY <1>1 DEF Remembered, Phases
<1> HIDE DEF next
<1>4. operation' \in [Operations -> Remembered] /\ Interrupting'
  BY <1>2, <1>3 DEF OpInv, Interrupting
<1>5. StopInv' /\ UNCHANGED vars
  BY DEF Fail, OpInv, StopInv, StopTypeOK, NoStop
<1>6. OwnerKnowsSession'
  <2>1. operation'[o] = next /\ \A other \in Operations \ {o} : operation'[other] = operation[other]
    BY <1>2 DEF OpInv
  <2> QED BY <1>3, <1>5, <2>1, OwnerKept DEF Fail, vars
<1> QED BY <1>4, <1>5, <1>6, MemoryOnly

\* Giving the session back, as IDLE, as it was, or terminated.
LEMMA OpGiveBack ==
  ASSUME OpInv, NEW o \in Operations, Expire(o) \/ Complete(o) \/ Restore(o) PROVE OpInv'
<1>1. operation[o].restore \in SessionStatuses
  BY DEF OpInv, Remembered, SessionStatuses
<1>2. \E status \in SessionStatuses : session' = SessionPatch(status, NoOperation)
  BY <1>1 DEF Expire, Complete, Restore, GiveBack, SessionStatuses
<1>3. UNCHANGED <<run, driver, events, dispatches, worker, crashes, stop>>
  BY DEF Expire, Complete, Restore, GiveBack
<1>4. RunInv' /\ StopInv'
  BY <1>2, <1>3, SessionOnly
<1>5. Interrupts(o, TRUE) \/ Interrupts(o, FALSE)
  BY DEF Expire, Complete, Restore, GiveBack
<1>6. operation' \in [Operations -> Remembered] /\ Interrupting'
  BY <1>5, InterruptsType
<1>7. OwnerKnowsSession'
  <2>1. session \in Sessions /\ operation[o].restore # "RESCHEDULING"
    BY DEF OpInv, RunInv, TypeOK, Remembered
  <2>2. \E status \in SessionStatuses \ {"RESCHEDULING"} :
          session' = SessionPatch(status, NoOperation)
    BY <1>1, <2>1 DEF Expire, Complete, Restore, GiveBack, SessionStatuses
  <2>3. session'.op = NoOperation
    BY <2>1, <2>2, PatchOwner
  <2> QED BY <2>3, ConstantsAssumption DEF OwnerKnowsSession
<1> QED BY <1>4, <1>6, <1>7 DEF OpInv

\* The session was taken from the operation.
LEMMA OpLoseSession == ASSUME OpInv, NEW o \in Operations, LoseSession(o) PROVE OpInv'
<1>1. operation' \in [Operations -> Remembered] /\ Interrupting'
  BY EndType, InterruptsType DEF LoseSession
<1>2. StopInv' /\ UNCHANGED vars
  BY DEF LoseSession, OpInv, StopInv, StopTypeOK
<1>3. session.op # o /\ operation[o].phase # "lost"
  BY DEF LoseSession, Executed, OpInv, OwnerKnowsSession
<1>4. \A other \in Operations \ {o} : operation'[other] = operation[other]
  BY EndType, InterruptsType DEF LoseSession
<1>5. OwnerKnowsSession'
  BY <1>2, <1>3, <1>4, OwnerKept DEF vars
<1> QED BY <1>1, <1>2, <1>5, MemoryOnly

\* The run that is interrupted was active, so that no final event told of it, and no
\* call in progress knows it as ended.
LEMMA OpInterrupt == ASSUME OpInv, NEW o \in Operations, InterruptRun(o) PROVE OpInv'
<1> DEFINE r == operation[o].last
<1>1. operation' \in [Operations -> Remembered] /\ Interrupting'
  BY BecomeType DEF InterruptRun, Phases
<1>2. StopInv' /\ OwnerKnowsSession'
  <2>1. operation[o].phase = "cancel" /\ UNCHANGED <<session, stop>> /\ Become(o, "append")
    BY DEF InterruptRun
  <2>2. OwnerKnowsSession'
    BY <2>1, NotOwner, BecomeType, OwnerKept DEF Phases
  <2> QED BY <2>1, <2>2 DEF OpInv, StopInv, StopTypeOK
<1>3. CASE operation[o].interrupts /\ Active(r)
  <2> DEFINE number == run[r].seq + 1
             row    == [status |-> "cancelled", seq |-> number, op |-> o]
  <2>1. r \in Runs /\ run[r].status \in ActiveStatuses
    BY <1>3 DEF OpInv, Interrupting, Active
  <2>2. number \in Nat
    BY <2>1 DEF OpInv, RunInv, TypeOK, Rows
  <2>3. run' = [run EXCEPT ![r] = row]
    BY <1>3 DEF InterruptRun
  <2> HIDE DEF number
  <2>4. row \in Rows /\ row.status = "cancelled"
    BY <2>2 DEF Rows, RunStatuses, TerminalStatuses
  <2> HIDE DEF row
  <2>5. /\ run' \in [Runs -> Rows] /\ run'[r].status = "cancelled"
        /\ \A other \in Runs \ {r} : run'[other] = run[other]
    BY <2>1, <2>3, <2>4 DEF OpInv, RunInv, TypeOK
  <2>6. \A other \in Runs : Terminal(other) => run'[other] = run[other]
    BY <2>1, <2>5, StatusFacts DEF Terminal
  <2>7. TypeOK'
    BY <2>5 DEF InterruptRun, OpInv, RunInv, TypeOK, Busy
  <2>8. CallsInformed'
    <3> SUFFICES ASSUME NEW w \in Workers PROVE Informed(worker[w], run')
      BY DEF InterruptRun, CallsInformed
    <3>1. Informed(worker[w], run) /\ (Busy(worker[w]) => worker[w].run \in Runs)
      BY DEF OpInv, RunInv, CallsInformed, TypeOK
    <3> QED BY <2>6, <3>1 DEF Informed, Busy, Outcomes, Terminal
  <2>9. Unclaimed' /\ OneDispatcher' /\ OneActiveRun'
    BY <2>1, <2>5 DEF InterruptRun, OpInv, RunInv, Unclaimed, OneDispatcher, OneActiveRun, Active,
       ActiveStatuses
  <2>10. FinalEventsTrue'
    BY <2>6 DEF InterruptRun, OpInv, RunInv, TypeOK, FinalEventsTrue, Terminal
  <2> QED BY <1>1, <1>2, <2>7, <2>8, <2>9, <2>10 DEF OpInv, RunInv
<1>4. CASE ~(operation[o].interrupts /\ Active(r))
  <2>1. UNCHANGED vars
    BY <1>4 DEF InterruptRun, vars
  <2> QED BY <1>1, <1>2, <2>1, MemoryOnly
<1> QED BY <1>3, <1>4

\* The event tells of a run that was cancelled.
LEMMA OpAppend == ASSUME OpInv, NEW o \in Operations, AppendInterrupted(o) PROVE OpInv'
<1> DEFINE r == operation[o].last
           e == [run |-> r, status |-> "cancelled"]
<1>1. operation' \in [Operations -> Remembered] /\ Interrupting'
  BY EndType DEF AppendInterrupted
<1>2. StopInv' /\ CallsInformed' /\ Unclaimed' /\ OneDispatcher' /\ OneActiveRun'
  BY DEF AppendInterrupted, OpInv, RunInv, StopInv, StopTypeOK, CallsInformed, Unclaimed,
     OneDispatcher, OneActiveRun, Active
<1>0. OwnerKnowsSession'
  <2>1. operation[o].phase = "append" /\ UNCHANGED session /\ End(o)
    BY DEF AppendInterrupted
  <2> QED BY <2>1, NotOwner, EndType, OwnerKept
<1>3. CASE events' = events
  BY <1>0, <1>1, <1>2, <1>3
     DEF AppendInterrupted, OpInv, RunInv, TypeOK, Busy, FinalEventsTrue
<1>4. CASE events' # events
  <2>1. /\ events' = events \cup {e} /\ r \in Runs /\ run[r].status = "cancelled"
    BY <1>4 DEF AppendInterrupted, OpInv, Interrupting
  <2>2. TypeOK'
    BY <2>1 DEF AppendInterrupted, OpInv, RunInv, TypeOK, Busy, RunStatuses, TerminalStatuses
  <2>3. FinalEventsTrue'
    BY <2>1 DEF AppendInterrupted, OpInv, RunInv, FinalEventsTrue, TerminalStatuses
  <2> QED BY <1>0, <1>1, <1>2, <2>2, <2>3 DEF OpInv, RunInv
<1> QED BY <1>3, <1>4

\* A lost operation leaves the rows as they are.
LEMMA OpLost == ASSUME OpInv, NEW o \in Operations, LoseOperation(o) PROVE OpInv'
<1>1. operation' \in [Operations -> Remembered] /\ Interrupting'
  BY ForgetType DEF LoseOperation, Phases
<1>2. crashes' \in 0..MaxCrashes
  BY ConstantsAssumption DEF LoseOperation, OpInv, RunInv, TypeOK, ConstantsAssumption
<1>3. RunInv' /\ StopInv'
  BY <1>2, AbandonInv DEF LoseOperation, OpInv, RunInv
<1>4. OwnerKnowsSession'
  BY ForgetType, OwnerKept DEF LoseOperation, Phases
<1> QED BY <1>1, <1>3, <1>4 DEF OpInv

-----------------------------------------------------------------------------
(* The invariant, and what follows from it.                                *)

\* OpInv is inductive.
LEMMA OpNext == ASSUME OpInv, [OperationNext]_opVars PROVE OpInv'
<1>1. CASE UNCHANGED opVars
  <2>1. StopInv' /\ operation' \in [Operations -> Remembered] /\ Interrupting'
    BY <1>1 DEF opVars, OpInv, StopInv, StopTypeOK, Interrupting
  <2>2. OwnerKnowsSession'
    BY <1>1 DEF opVars, vars, OpInv, OwnerKnowsSession, TargetIsFresh
  <2> QED BY <1>1, <2>1, <2>2, MemoryOnly DEF opVars
<1>2. CASE Next /\ UNCHANGED <<stop, operation>>
  BY <1>2, OpRunStep
<1>3. ASSUME NEW o \in Operations, ResolveTargets(o) \/ OperationStep(o) \/ LoseOperation(o)
      PROVE  OpInv'
  BY <1>3, OpResolve, OpStartPhase, OpExecute, OpStopping, OpFail, OpGiveBack, OpLoseSession,
     OpInterrupt, OpAppend, OpLost DEF OperationStep
<1> QED BY <1>1, <1>2, <1>3 DEF OperationNext

\* OpInv holds in every reachable state.
LEMMA OpCorrect == OperationSpec => []OpInv
BY OpInit, OpNext, PTL DEF OperationSpec

\* Whatever operations, writers and lost executions interleave, every variable keeps its
\* type, and the operation that owns the session still knows it as it is.
THEOREM OperationTypeCorrect == OperationSpec => []OperationTypeOK
<1>1. OpInv => OperationTypeOK
  BY DEF OpInv, RunInv, StopInv, OperationTypeOK
<1> QED BY <1>1, OpCorrect, PTL

\* Every persisted final event tells how its run really ended, those of the runs that an
\* operation interrupted included.
THEOREM OperationEventsTrue == OperationSpec => []FinalEventsTrue
<1>1. OpInv => FinalEventsTrue
  BY DEF OpInv, RunInv
<1> QED BY <1>1, OpCorrect, PTL

\* Operations that take the session and give it back never let a second run in.
THEOREM OperationRunUnique == OperationSpec => []OneActiveRun
<1>1. OpInv => OneActiveRun
  BY DEF OpInv, RunInv
<1> QED BY <1>1, OpCorrect, PTL

\* Operations that stop drivers and interrupt runs never let a second dispatcher win a run.
THEOREM OperationDispatcherUnique == OperationSpec => []OneDispatcher
<1>1. OpInv => OneDispatcher
  BY DEF OpInv, RunInv
<1> QED BY <1>1, OpCorrect, PTL

\* Also then a dispatcher that failed to hydrate a run ends it only while nobody won it.
THEOREM OperationHydrationIsCareful == OperationSpec => HydrationFailsOnlyUnclaimed
<1>1. OpInv => [\A w \in Workers :
                 (worker[w].by = "hydrate" /\ WriteRun(w)) => dispatches[worker[w].run] = 0]_vars
  BY WriteMoves DEF OpInv, RunInv, Unclaimed
<1> QED BY <1>1, OpCorrect, PTL DEF OperationSpec, HydrationFailsOnlyUnclaimed

\* Only the writers of SessionRun and the interruption by an operation move a run.
LEMMA OperationRunsMove ==
  ASSUME OpInv, [OperationNext]_opVars
  PROVE  \/ run' = run
         \/ Next
         \/ \E o \in Operations : InterruptRun(o)
<1>1. ASSUME NEW o \in Operations, Stopping(o) PROVE run' = run
  BY <1>1, StopStepInv DEF Stopping, OpInv, RunInv
<1>2. ASSUME NEW o \in Operations, ResolveTargets(o) \/ LoseOperation(o) PROVE run' = run
  BY <1>2 DEF ResolveTargets, LoseOperation, vars
<1>3. ASSUME NEW o \in Operations, OperationStep(o), ~Stopping(o), ~InterruptRun(o)
      PROVE  run' = run
  BY <1>3 DEF OperationStep, StartPhase, StopDriver, BeginStop, NothingToStop, Fail, Expire,
     Complete, Restore, GiveBack, LoseSession, AppendInterrupted, vars
<1> QED BY <1>1, <1>2, <1>3 DEF OperationNext, opVars, vars

\* An interruption cancels one active run, or none.
LEMMA InterruptMoves ==
  ASSUME OpInv, NEW o \in Operations, InterruptRun(o), run' # run
  PROVE  \E r \in Runs : /\ Active(r)
                         /\ run'[r].status = "cancelled"
                         /\ \A other \in Runs \ {r} : run'[other] = run[other]
<1> DEFINE r == operation[o].last
<1>1. operation[o].interrupts /\ Active(r) /\ r \in Runs
  BY DEF InterruptRun, OpInv, Interrupting
<1> QED BY <1>1 DEF InterruptRun, OpInv, RunInv, TypeOK

\* Every behaviour of the runs under operations is one of the abstract lifecycle, too.
THEOREM OperationLifecycleImplemented == OperationSpec => ImplementsLifecycle
<1>1. ASSUME OpInv, [OperationNext]_opVars PROVE [Lifecycle!Next]_Statuses
  <2>1. CASE run' = run
    BY <2>1 DEF Statuses
  <2>2. CASE Next
    BY <1>1, <2>2, StepImplements DEF OpInv
  <2>3. ASSUME NEW o \in Operations, InterruptRun(o), run' # run PROVE Lifecycle!Next
    <3>1. PICK r \in Runs : /\ Active(r) /\ run'[r].status = "cancelled"
                           /\ \A other \in Runs \ {r} : run'[other] = run[other]
      BY <1>1, <2>3, InterruptMoves
    <3>2. run[r].status \in RunStatuses /\ "cancelled" \in NextStatuses[run[r].status]
      BY <3>1 DEF Active, ActiveStatuses, RunStatuses, NextStatuses, TerminalStatuses
    <3> QED BY <3>1, <3>2, MoveImplements
  <2> QED BY <1>1, <2>1, <2>2, <2>3, OperationRunsMove
<1>2. OperationInit => Lifecycle!Init
  BY InitImplements DEF OperationInit
<1> QED BY <1>1, <1>2, OpCorrect, PTL
    DEF OperationSpec, ImplementsLifecycle, Lifecycle!Spec, Statuses

\* No operation changes a run that ended either, however long ago it read the session.
THEOREM OperationLeavesEndedRuns == OperationSpec => TerminalIsFinal
<1>1. ASSUME OpInv, [OperationNext]_opVars
      PROVE  [\A r \in Runs : Terminal(r) => run'[r] = run[r]]_run
  <2> SUFFICES ASSUME NEW r \in Runs, Terminal(r), run' # run PROVE run'[r] = run[r]
    OBVIOUS
  <2>1. RunInv
    BY <1>1 DEF OpInv
  <2>2. CASE Next
    <3>1. ASSUME NEW other \in Runs, Admit(other) PROVE run'[r] = run[r]
      BY <2>1, <3>1 DEF Admit, Terminal, TerminalStatuses, RunInv, TypeOK
    <3>2. ASSUME NEW w \in Workers, WriteRun(w) PROVE run'[r] = run[r]
      BY <2>1, <3>2, WriteMoves, StatusFacts DEF Terminal
    <3> QED BY <2>1, <2>2, <3>1, <3>2, RunsMove
  <2>3. ASSUME NEW o \in Operations, InterruptRun(o) PROVE run'[r] = run[r]
    BY <1>1, <2>3, InterruptMoves, StatusFacts DEF Terminal, Active
  <2> QED BY <1>1, <2>2, <2>3, OperationRunsMove
<1> QED BY <1>1, OpCorrect, PTL DEF OperationSpec, TerminalIsFinal
=============================================================================
