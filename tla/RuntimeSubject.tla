--------------------------- MODULE RuntimeSubject ---------------------------
(***************************************************************************)
(* One runtime subject: the sandbox of an agent (a pet) or of a session    *)
(* (a cattle), from its activation to its recycling.                       *)
(*                                                                         *)
(* subject is a row of D1; container, its files and its checkpoints are    *)
(* remote.  Activations (for a run, or to prewarm) hold a claim on the     *)
(* row; recycles, API operations and failed activations own it under an    *)
(* operation id instead, and maintenance resumes an operation that was     *)
(* left behind.  Every statement is atomic, nothing else is.               *)
(*                                                                         *)
(* Time.  The remote calls of an activation are cut off after 15 s, the    *)
(* idle grace is 5 minutes, a claim's lease and the age at which an        *)
(* operation counts as left behind 10 minutes.  So a subject falls due     *)
(* while no activation is in progress, and a claim lapses after its owner  *)
(* was lost.  Assumed: an operation that is not lost changes its row again *)
(* within these ten minutes (nothing in the code cuts a checkpoint off).   *)
(*                                                                         *)
(* Abstracted: the account limit, mounts, network policy, and errors.      *)
(* Files are the set of writes of runs that they hold.  Definitions X_Y    *)
(* are plausible faulty forms of X, which the specification does not use.  *)
(***************************************************************************)
EXTENDS Naturals, FiniteSets

CONSTANTS
  Kinds,         \* "pet" and "cattle", or one of them
  Dispatchers,   \* executions that activate the subject for a run
  Prewarmers,    \* executions that activate it ahead of a run
  Maintainers,   \* scheduled executions that recycle and resume
  Operators,     \* executions of a runtime state operation, once each
  NoOwner,
  TheSession,    \* the conversation of a cattle subject; a pet has one per activator
  Faults,        \* kinds of fault that may happen
  MaxFaults,
  MaxWrites

Activators == Dispatchers \cup Prewarmers
Workers == Activators \cup Maintainers \cup Operators

ASSUME SubjectAssumption ==
  /\ Kinds \subseteq {"pet", "cattle"}
  /\ NoOwner \notin Workers
  /\ Activators \cap (Maintainers \cup Operators) = {}
  /\ Maintainers \cap Operators = {}
  /\ Faults \subseteq {"lost", "activation", "conversation", "stop", "checkpoint", "destroy"}
  /\ MaxFaults \in Nat
  /\ MaxWrites \in Nat

VARIABLES
  subject,       \* the row: kind, status, operation id, claim, whether it lapsed, idle
                 \* deadline, and the last error: none, conversation, or other
  container,     \* whether it runs, its files, and as history whether it was torn down since
                 \* it was last advertised as active, and whether the last checkpoint
                 \* restored into it came from an execution that had lost its claim
  backup,        \* the last checkpoint the row names
  open,          \* conversations that are active
  run,           \* dispatcher -> its run: none, active, leased (by a driver), ended
  worker,        \* execution -> how far it is and what it remembers
  written,       \* writes of runs so far
  faults

subjectVars == <<subject, container, backup, open, run, worker, written, faults>>

IsPet == subject.kind = "pet"
IsCattle == subject.kind = "cattle"

NoBackup == [ready |-> FALSE, files |-> {}]
Gone == [alive |-> FALSE, files |-> {}, torn |-> TRUE, overtaken |-> FALSE]
Started == [container EXCEPT !.alive = TRUE]

\* cold, claim, copy: the row an activation read; copy: the checkpoint an operation
\* created; destroys: whether it has come to the destroying phase.
IdleWorker == [pc |-> "idle", cold |-> FALSE, claim |-> NoOwner, copy |-> NoBackup,
               op |-> NoOwner, reset |-> FALSE, destroys |-> FALSE]

Go(w, pc) == worker' = [worker EXCEPT ![w].pc = pc]
Rest(w) == worker' = [worker EXCEPT ![w] = IdleWorker]

Fault(kind) == kind \in Faults /\ faults < MaxFaults /\ faults' = faults + 1

\* A remote call that failed may have had its effect.
MayHave(value) == container' \in {container, value}

Conversation(a) == IF IsCattle THEN TheSession ELSE a

ActiveRun == \E d \in Dispatchers : run[d] \in {"active", "leased"}
Leased == \E d \in Dispatchers : run[d] = "leased"

ClaimIsFree == subject.claim = NoOwner \/ subject.lapsed

Unclaimed(row) == [row EXCEPT !.claim = NoOwner, !.lapsed = FALSE]

-----------------------------------------------------------------------------
(* Activation.                                                             *)

Admit(d) ==
  /\ worker[d].pc = "idle"
  /\ run[d] = "none"
  /\ IsCattle => ~ActiveRun
  /\ run' = [run EXCEPT ![d] = "active"]
  /\ Go(d, "read")
  /\ UNCHANGED <<subject, container, backup, open, written, faults>>

Prewarm(p) ==
  /\ worker[p].pc = "idle"
  /\ Go(p, "read")
  /\ UNCHANGED <<subject, container, backup, open, run, written, faults>>

\* A run takes the subject over from a prewarm, and from a recycle that has not begun.
Preemptable(a) ==
  /\ a \in Dispatchers
  /\ \/ subject.claim \in Prewarmers
     \/ subject.claim \in Maintainers /\ subject.status = "active"

Obtainable(a) ==
  /\ subject.status \in {"active", "cold"}
  /\ ClaimIsFree \/ Preemptable(a)

ReadSubject(a) ==
  /\ worker[a].pc = "read"
  /\ Obtainable(a)
  /\ worker' = [worker EXCEPT ![a] =
       [@ EXCEPT !.pc = "claim", !.cold = (subject.status = "cold"), !.claim = subject.claim,
                 !.copy = IF IsPet THEN backup ELSE NoBackup]]
  /\ UNCHANGED <<subject, container, backup, open, run, written, faults>>

\* The run of an activation that fails fails with it.
GiveUp(a) ==
  /\ Rest(a)
  /\ run' = [d \in Dispatchers |-> IF d = a /\ run[d] = "active" THEN "none" ELSE run[d]]

\* Waited long enough for the maintenance or the activation that has the subject.
Refused(a) ==
  /\ worker[a].pc = "read"
  /\ ~Obtainable(a)
  /\ GiveUp(a)
  /\ UNCHANGED <<subject, container, backup, open, written, faults>>

\* The row still has the status, and a claim that is free or the one to take over.
StillObtainable(a) ==
  /\ subject.status = (IF worker[a].cold THEN "cold" ELSE "active")
  /\ ClaimIsFree \/ (Preemptable(a) /\ subject.claim = worker[a].claim)

ClaimSubject(a) ==
  /\ worker[a].pc = "claim"
  /\ IF StillObtainable(a)
     THEN subject' = [subject EXCEPT !.claim = a, !.lapsed = FALSE] /\ Go(a, "prepare")
     ELSE UNCHANGED subject /\ Go(a, "read")
  /\ UNCHANGED <<container, backup, open, run, written, faults>>

PrepareFilesystem(a) ==
  /\ worker[a].pc = "prepare"
  /\ container' = Started
  /\ Go(a, IF worker[a].cold THEN "mark" ELSE "activate")
  /\ UNCHANGED <<subject, backup, open, run, written, faults>>

\* The guard of every write of an activation: the row is still under its claim.
Holds(a, statuses) == subject.claim = a /\ subject.status \in statuses

MarkRestoring_Unclaims(a) ==
  /\ worker[a].pc = "mark"
  /\ IF Holds(a, {"cold"})
     THEN /\ subject' = Unclaimed([subject EXCEPT !.status = "restoring", !.op = NoOwner,
                                                   !.error = "none"])
          /\ Go(a, "restore")
     ELSE UNCHANGED subject /\ Go(a, "fail")
  /\ UNCHANGED <<container, backup, open, run, written, faults>>
MarkRestoring(a) ==
  /\ worker[a].pc = "mark"
  /\ IF Holds(a, {"cold"})
     THEN /\ subject' = [subject EXCEPT !.status = "restoring", !.op = NoOwner, !.error = "none"]
          /\ Go(a, "restore")
     ELSE UNCHANGED subject /\ Go(a, "fail")
  /\ UNCHANGED <<container, backup, open, run, written, faults>>

Restore_Skipped(a) ==
  /\ worker[a].pc = "restore"
  /\ container' = Started
  /\ Go(a, "activate")
  /\ UNCHANGED <<subject, backup, open, run, written, faults>>
\* The call does not look at the claim, which a run may have taken over meanwhile.
Restore(a) ==
  /\ worker[a].pc = "restore"
  /\ container' = IF worker[a].copy.ready
                  THEN [Started EXCEPT !.files = worker[a].copy.files,
                                       !.overtaken = (subject.claim # a)]
                  ELSE Started
  /\ Go(a, "activate")
  /\ UNCHANGED <<subject, backup, open, run, written, faults>>

MarkActive(a) ==
  /\ worker[a].pc = "activate"
  /\ IF Holds(a, {"restoring", "active"})
     THEN /\ subject' = Unclaimed([subject EXCEPT !.status = "active", !.op = NoOwner,
                                                  !.deadline = "armed", !.error = "none"])
          /\ container' = [container EXCEPT !.torn = FALSE]
          /\ Go(a, "open")
     ELSE UNCHANGED <<subject, container>> /\ Go(a, "fail")
  /\ UNCHANGED <<backup, open, run, written, faults>>

\* A remote call of the activation fails.
ActivationFails(a) ==
  /\ worker[a].pc \in {"prepare", "restore"}
  /\ Fault("activation")
  /\ MayHave(Started)
  /\ Go(a, "fail")
  /\ UNCHANGED <<subject, backup, open, run, written>>

RecordFailure_Cold(a) ==
  /\ worker[a].pc = "fail"
  /\ IF Holds(a, {"cold", "restoring", "active"})
     THEN subject' = Unclaimed([subject EXCEPT !.status = "cold", !.op = NoOwner,
                                               !.error = "other"])
     ELSE UNCHANGED subject
  /\ GiveUp(a)
  /\ UNCHANGED <<container, backup, open, written, faults>>
RecordFailure(a) ==
  /\ worker[a].pc = "fail"
  /\ IF Holds(a, {"cold", "restoring", "active"})
     THEN /\ subject' = Unclaimed([subject EXCEPT !.status = "destroying", !.op = a,
                                                  !.error = "other"])
          /\ worker' = [worker EXCEPT ![a].pc = "teardown", ![a].op = a]
          /\ UNCHANGED run
     ELSE UNCHANGED subject /\ GiveUp(a)
  /\ UNCHANGED <<container, backup, open, written, faults>>

Teardown(a) ==
  /\ worker[a].pc = "teardown"
  /\ container' = Gone
  /\ Go(a, "failed")
  /\ UNCHANGED <<subject, backup, open, run, written, faults>>

TeardownFails(a) ==
  /\ worker[a].pc = "teardown"
  /\ Fault("destroy")
  /\ MayHave(Gone)
  /\ GiveUp(a)
  /\ UNCHANGED <<subject, backup, open, written>>

MarkFailed(a) ==
  /\ worker[a].pc = "failed"
  /\ subject' = IF subject.status = "destroying" /\ subject.op = worker[a].op
                THEN Unclaimed([subject EXCEPT !.status = "cold", !.op = NoOwner,
                                               !.error = "other"]) ELSE subject
  /\ GiveUp(a)
  /\ UNCHANGED <<container, backup, open, written, faults>>

-----------------------------------------------------------------------------
(* The conversation, the lease of the run, and the idle deadline.          *)

OpenConversation(a) ==
  /\ worker[a].pc = "open"
  /\ open' = open \cup {Conversation(a)}
  /\ subject' = [subject EXCEPT !.deadline =
       IF IsCattle THEN "none" ELSE IF @ = "none" THEN "armed" ELSE @]
  /\ IF a \in Dispatchers THEN Go(a, "link") ELSE Rest(a)
  /\ UNCHANGED <<container, backup, run, written, faults>>

\* The write above failed: the conversation and the subject are given up, whoever has
\* the claim on the subject and although its container runs.
OpenFails(a) ==
  /\ worker[a].pc = "open"
  /\ Fault("conversation")
  /\ open' = open \ {Conversation(a)}
  /\ subject' = IF subject.status \in {"restoring", "active"}
                THEN [subject EXCEPT !.status = "cold", !.op = NoOwner, !.error = "conversation"]
                ELSE subject
  /\ GiveUp(a)
  /\ UNCHANGED <<container, backup, written>>

\* The driver has started; its run takes the lease, unless the run or its conversation
\* ended.
CheckLease(d) ==
  /\ worker[d].pc = "link"
  /\ IF run[d] = "active" /\ Conversation(d) \in open
     THEN Go(d, "lease") /\ UNCHANGED run
     ELSE GiveUp(d)
  /\ UNCHANGED <<subject, container, backup, open, written, faults>>

\* Of what was checked, the statement that links the run guards the run only.
AcquireLease(d) ==
  /\ worker[d].pc = "lease"
  /\ IF run[d] = "active"
     THEN run' = [run EXCEPT ![d] = "leased"] /\ Go(d, "linked")
     ELSE GiveUp(d)
  /\ UNCHANGED <<subject, container, backup, open, written, faults>>

\* The last statement of the acquisition.
ClearDeadline(d) ==
  /\ worker[d].pc = "linked"
  /\ subject' = [subject EXCEPT !.deadline = "none"]
  /\ Rest(d)
  /\ UNCHANGED <<container, backup, open, run, written, faults>>

Work(d) ==
  /\ run[d] = "leased"
  /\ container.alive
  /\ Cardinality(written) < MaxWrites
  /\ LET w == Cardinality(written) + 1 IN
       /\ written' = written \cup {w}
       /\ container' = [container EXCEPT !.files = @ \cup {w}]
  /\ UNCHANGED <<subject, backup, open, run, worker, faults>>

\* The run succeeds, fails or is cancelled, whatever its dispatcher is doing.
EndRun(d) ==
  /\ run[d] \in {"active", "leased"}
  /\ run' = [run EXCEPT ![d] = IF @ = "leased" THEN "ended" ELSE "none"]
  /\ UNCHANGED <<subject, container, backup, open, worker, written, faults>>

ReleaseLease(d) ==
  /\ run[d] = "ended"
  /\ run' = [run EXCEPT ![d] = "none"]
  /\ subject' = [subject EXCEPT !.deadline =
       IF (IsPet \/ open = {}) /\ ~Leased THEN "armed" ELSE @]
  /\ UNCHANGED <<container, backup, open, worker, written, faults>>

LoseRelease(d) ==
  /\ run[d] = "ended"
  /\ Fault("lost")
  /\ run' = [run EXCEPT ![d] = "none"]
  /\ UNCHANGED <<subject, container, backup, open, worker, written>>

\* The grace passed since the conversation was last opened: nobody opened it just now.
IsIdle == open # {} /\ ~Leased /\ \A d \in Dispatchers : worker[d].pc \notin {"link", "lease"}

ClaimIdleConversation(m) ==
  /\ IsCattle
  /\ worker[m].pc = "idle"
  /\ IsIdle
  /\ open' = {}
  /\ Go(m, "closed")
  /\ UNCHANGED <<subject, container, backup, run, written, faults>>

RecordClosed(m) ==
  /\ worker[m].pc = "closed"
  /\ open' = {}
  /\ subject' = [subject EXCEPT !.deadline = IF ~Leased THEN "armed" ELSE @]
  /\ Rest(m)
  /\ UNCHANGED <<container, backup, run, written, faults>>

Stranded_Open ==
  IsCattle /\ subject.status = "active" /\ subject.deadline = "none" /\ open # {} /\ ~Leased
Stranded ==
  IsCattle /\ subject.status = "active" /\ subject.deadline = "none" /\ open = {} /\ ~Leased

RepairDeadline ==
  /\ Stranded
  /\ subject' = [subject EXCEPT !.deadline = "armed"]
  /\ UNCHANGED <<container, backup, open, run, worker, written, faults>>

-----------------------------------------------------------------------------
(* Recycles and API operations.                                            *)

Activating(a) == worker[a].pc \notin {"idle", "open", "link", "lease", "linked"}

DeadlinePasses ==
  /\ subject.deadline = "armed"
  /\ \A a \in Activators : ~Activating(a)
  /\ subject' = [subject EXCEPT !.deadline = "due"]
  /\ UNCHANGED <<container, backup, open, run, worker, written, faults>>

ClaimLapses ==
  /\ subject.claim # NoOwner /\ ~subject.lapsed
  /\ worker[subject.claim].pc = "idle"
  /\ subject' = [subject EXCEPT !.lapsed = TRUE]
  /\ UNCHANGED <<container, backup, open, run, worker, written, faults>>

ClaimInactive(m) ==
  /\ worker[m].pc = "idle"
  /\ subject.status = "active"
  /\ subject.deadline = "due"
  /\ IsPet \/ open = {}
  /\ ~Leased
  /\ ClaimIsFree
  /\ subject' = [subject EXCEPT !.claim = m, !.lapsed = FALSE]
  /\ Go(m, "begin")
  /\ UNCHANGED <<container, backup, open, run, written, faults>>

Begun(status, op) ==
  Unclaimed([subject EXCEPT !.status = status, !.op = op, !.deadline = "none", !.error = "none"])

BeginRecycle_AnyRun(m) ==
  /\ worker[m].pc = "begin"
  /\ IF Holds(m, {"active", "cold"}) /\ ~Leased
     THEN /\ subject' = Begun("backing_up", m)
          /\ worker' = [worker EXCEPT ![m].pc = "stop", ![m].op = m]
     ELSE /\ subject' = IF subject.claim = m THEN Unclaimed(subject) ELSE subject
          /\ Rest(m)
  /\ UNCHANGED <<container, backup, open, run, written, faults>>
\* Neither a lease nor a run on its way to one; otherwise the claim is released.
BeginRecycle(m) ==
  /\ worker[m].pc = "begin"
  /\ IF Holds(m, {"active", "cold"}) /\ ~ActiveRun
     THEN /\ subject' = Begun("backing_up", m)
          /\ worker' = [worker EXCEPT ![m].pc = "stop", ![m].op = m]
     ELSE /\ subject' = IF subject.claim = m THEN Unclaimed(subject) ELSE subject
          /\ Rest(m)
  /\ UNCHANGED <<container, backup, open, run, written, faults>>

BeginOperation(o, reset) ==
  /\ worker[o].pc = "idle"
  /\ reset => IsPet
  /\ subject.status \in {"active", "cold"}
  /\ ClaimIsFree
  /\ subject' = Begun(IF reset THEN "destroying" ELSE "backing_up", o)
  /\ worker' = [worker EXCEPT ![o] =
       [@ EXCEPT !.pc = "stop", !.op = o, !.reset = reset, !.destroys = reset]]
  /\ UNCHANGED <<container, backup, open, run, written, faults>>

LeftBehind_BackingUp == subject.status = "backing_up" /\ \A w \in Workers : worker[w].op # subject.op
\* An operation that changed nothing for ten minutes, whoever began it.
LeftBehind ==
  /\ subject.status \in {"backing_up", "destroying"}
  /\ \A w \in Workers : worker[w].op # subject.op

Resume(m) ==
  /\ worker[m].pc = "idle"
  /\ LeftBehind
  /\ LET destroys == subject.status = "destroying" IN
       worker' = [worker EXCEPT ![m] =
         [@ EXCEPT !.pc = IF destroys THEN "destroy" ELSE "stop", !.op = subject.op,
                   !.destroys = destroys]]
  /\ UNCHANGED <<subject, container, backup, open, run, written, faults>>

\* Ends the runs of the drivers that are stopped.
StopDrivers(w) ==
  /\ worker[w].pc = "stop"
  /\ run' = [d \in Dispatchers |-> IF run[d] = "leased" THEN "none" ELSE run[d]]
  /\ Go(w, IF worker[w].reset THEN "clear" ELSE "checkpoint")
  /\ UNCHANGED <<subject, container, backup, open, written, faults>>

\* Some of the drivers could not be stopped.
StopFails(w) ==
  /\ worker[w].pc = "stop"
  /\ Fault("stop")
  /\ \E stopped \in SUBSET {d \in Dispatchers : run[d] = "leased"} :
       run' = [d \in Dispatchers |-> IF d \in stopped THEN "none" ELSE run[d]]
  /\ Go(w, "repair")
  /\ UNCHANGED <<subject, container, backup, open, written>>

ClearState(w) ==
  /\ worker[w].pc = "clear"
  /\ container' = [Started EXCEPT !.files = {}]
  /\ Go(w, "checkpoint")
  /\ UNCHANGED <<subject, backup, open, run, written, faults>>

\* A reset keeps no checkpoint of the files it cleared, a cattle subject none at all.
Checkpoint(w) ==
  /\ worker[w].pc = "checkpoint"
  /\ IF IsCattle
     THEN Go(w, "advance") /\ UNCHANGED container
     ELSE /\ container' = Started
          /\ IF worker[w].reset
             THEN Go(w, "destroy")
             ELSE worker' = [worker EXCEPT ![w].pc = "record",
                                           ![w].copy = [ready |-> TRUE, files |-> container.files]]
  /\ UNCHANGED <<subject, backup, open, run, written, faults>>

CheckpointFails(w) ==
  /\ worker[w].pc = "checkpoint"
  /\ IsPet
  /\ Fault("checkpoint")
  /\ MayHave(Started)
  /\ Go(w, "repair")
  /\ UNCHANGED <<subject, backup, open, run, written>>

\* The guard of the writes of an operation: the row is still under its id.
Owns(w, statuses) == subject.op = worker[w].op /\ subject.status \in statuses

RecordBackup_Lost(w) ==
  /\ worker[w].pc = "record"
  /\ worker' = [worker EXCEPT ![w] = [@ EXCEPT !.pc = "advance", !.copy = NoBackup]]
  /\ UNCHANGED <<subject, container, backup, open, run, written, faults>>
RecordBackup(w) ==
  /\ worker[w].pc = "record"
  /\ LET owns == Owns(w, {"backing_up", "destroying"}) IN
       /\ backup' = IF owns THEN worker[w].copy ELSE backup
       /\ worker' = [worker EXCEPT ![w] =
            [@ EXCEPT !.pc = IF owns THEN "advance" ELSE "repair", !.copy = NoBackup]]
  /\ UNCHANGED <<subject, container, open, run, written, faults>>

Advance(w) ==
  /\ worker[w].pc = "advance"
  /\ IF Owns(w, {"backing_up"})
     THEN /\ subject' = [subject EXCEPT !.status = "destroying"]
          /\ worker' = [worker EXCEPT ![w].pc = "destroy", ![w].destroys = TRUE]
     ELSE UNCHANGED subject /\ Go(w, "repair")
  /\ UNCHANGED <<container, backup, open, run, written, faults>>

\* Remote calls take longer than an activation from its read of the row to its claim.
NoneReadBefore == \A a \in Activators : worker[a].pc # "claim"

Destroy(w) ==
  /\ worker[w].pc = "destroy"
  /\ NoneReadBefore
  /\ container' = Gone
  /\ Go(w, "close")
  /\ UNCHANGED <<subject, backup, open, run, written, faults>>

DestroyFails(w) ==
  /\ worker[w].pc = "destroy"
  /\ NoneReadBefore
  /\ Fault("destroy")
  /\ MayHave(Gone)
  /\ Go(w, "repair")
  /\ UNCHANGED <<subject, backup, open, run, written>>

CloseConversations(w) ==
  /\ worker[w].pc = "close"
  /\ open' = {}
  /\ Go(w, "cold")
  /\ UNCHANGED <<subject, container, backup, run, written, faults>>

\* The cold row keeps the operation's id until the next activation.
MarkCold(w) ==
  /\ worker[w].pc = "cold"
  /\ IF Owns(w, {"destroying"})
     THEN /\ subject' = Unclaimed([subject EXCEPT !.status = "cold", !.deadline = "none",
                                                  !.error = "none"])
          /\ backup' = IF worker[w].reset THEN NoBackup ELSE backup
          /\ IF w \in Operators THEN Go(w, "done") ELSE Rest(w)
     ELSE UNCHANGED <<subject, backup>> /\ Go(w, "repair")
  /\ UNCHANGED <<container, open, run, written, faults>>

\* After an error a recycle keeps the phase it is in, for maintenance to resume it; an
\* API operation gives the subject back as cold.
AfterError(w) ==
  /\ worker[w].pc = "repair"
  /\ IF w \in Operators THEN Go(w, "done") ELSE Rest(w)
  /\ subject' =
       IF Owns(w, {IF worker[w].destroys THEN "destroying" ELSE "backing_up"})
       THEN Unclaimed([subject EXCEPT !.status = IF w \in Operators THEN "cold" ELSE @,
                                      !.error = "other"])
       ELSE subject
  /\ UNCHANGED <<container, backup, open, run, written, faults>>

Lose(w) ==
  /\ worker[w].pc \notin {"idle", "done"}
  /\ Fault("lost")
  /\ worker' = [worker EXCEPT ![w] =
       IF w \in Operators THEN [IdleWorker EXCEPT !.pc = "done"] ELSE IdleWorker]
  /\ UNCHANGED <<subject, container, backup, open, run, written>>

-----------------------------------------------------------------------------
SubjectInit ==
  /\ subject \in [kind : Kinds, status : {"cold"}, op : {NoOwner}, claim : {NoOwner},
                  lapsed : {FALSE}, deadline : {"none"}, error : {"none"}]
  /\ container = Gone
  /\ backup = NoBackup
  /\ open = {}
  /\ run = [d \in Dispatchers |-> "none"]
  /\ worker = [w \in Workers |-> IdleWorker]
  /\ written = {}
  /\ faults = 0

ActivationStep(a) ==
  \/ ReadSubject(a) \/ Refused(a) \/ ClaimSubject(a) \/ PrepareFilesystem(a)
  \/ MarkRestoring(a) \/ Restore(a) \/ MarkActive(a)
  \/ RecordFailure(a) \/ Teardown(a) \/ MarkFailed(a) \/ OpenConversation(a)

LeaseStep(d) == CheckLease(d) \/ AcquireLease(d) \/ ClearDeadline(d)

OperationStep(w) ==
  \/ StopDrivers(w) \/ ClearState(w) \/ Checkpoint(w) \/ RecordBackup(w) \/ Advance(w)
  \/ Destroy(w) \/ CloseConversations(w) \/ MarkCold(w) \/ AfterError(w)

SubjectNext ==
  \/ \E a \in Activators : ActivationStep(a) \/ ActivationFails(a) \/ TeardownFails(a) \/ OpenFails(a)
  \/ \E p \in Prewarmers : Prewarm(p)
  \/ \E d \in Dispatchers :
       Admit(d) \/ LeaseStep(d) \/ Work(d) \/ EndRun(d) \/ ReleaseLease(d) \/ LoseRelease(d)
  \/ \E m \in Maintainers :
       ClaimInactive(m) \/ BeginRecycle(m) \/ Resume(m) \/ ClaimIdleConversation(m) \/ RecordClosed(m)
  \/ \E o \in Operators, reset \in BOOLEAN : BeginOperation(o, reset)
  \/ \E w \in Maintainers \cup Operators :
       OperationStep(w) \/ StopFails(w) \/ CheckpointFails(w) \/ DestroyFails(w)
  \/ \E w \in Workers : Lose(w)
  \/ RepairDeadline \/ DeadlinePasses \/ ClaimLapses

SubjectSpec == SubjectInit /\ [][SubjectNext]_subjectVars

\* Executions that are not lost go on, time passes, and the maintenance of every minute
\* gets to each of its tasks again and again.  No run and no prewarm need come.
SubjectFairness ==
  /\ \A a \in Activators : WF_subjectVars(ActivationStep(a))
  /\ \A d \in Dispatchers : WF_subjectVars(LeaseStep(d)) /\ WF_subjectVars(ReleaseLease(d))
  /\ \A w \in Maintainers \cup Operators : WF_subjectVars(OperationStep(w))
  /\ \A m \in Maintainers : /\ WF_subjectVars(BeginRecycle(m) \/ RecordClosed(m))
                            /\ SF_subjectVars(ClaimInactive(m))
                            /\ SF_subjectVars(Resume(m))
                            /\ SF_subjectVars(ClaimIdleConversation(m))
  /\ WF_subjectVars(RepairDeadline)
  /\ WF_subjectVars(DeadlinePasses)
  /\ WF_subjectVars(ClaimLapses)

SubjectFairSpec == SubjectSpec /\ SubjectFairness

-----------------------------------------------------------------------------
(* Properties.                                                             *)

\* Every variable has its type; an operation that takes the container away is some
\* execution's, and a restore is claimed by an activation.
SubjectTypeOK ==
  /\ subject \in [kind : Kinds,
                  status : {"cold", "restoring", "active", "backing_up", "destroying"},
                  op : Workers \cup {NoOwner}, claim : Workers \cup {NoOwner},
                  lapsed : BOOLEAN, deadline : {"none", "armed", "due"},
                  error : {"none", "conversation", "other"}]
  /\ container \in [alive : BOOLEAN, files : SUBSET (1..MaxWrites), torn : BOOLEAN,
                    overtaken : BOOLEAN]
  /\ backup \in [ready : BOOLEAN, files : SUBSET (1..MaxWrites)]
  /\ open \subseteq Activators \cup {TheSession}
  /\ run \in [Dispatchers -> {"none", "active", "leased", "ended"}]
  /\ \A w \in Workers : worker[w].op \in Workers \cup {NoOwner}
  /\ written \subseteq 1..MaxWrites
  /\ subject.status \in {"backing_up", "destroying"} => subject.op # NoOwner
  /\ subject.status = "restoring" => subject.claim \in Activators

Recycling == subject.status \in {"backing_up", "destroying"} /\ subject.op \in Maintainers

\* Maintenance recycles no subject that a run is using or about to use, although it
\* chooses its candidates long before it takes them.
RecycleSparesRuns == Recycling => ~Leased

\* Before a recycle takes the container away, the checkpoint that the row names holds
\* all its files, whichever executions and remote calls failed on the way.
RecycleSavesFiles ==
  (Recycling /\ subject.status = "destroying" /\ IsPet) =>
    container.files \subseteq backup.files

\* A subject that is advertised as active has its container, with everything in it that
\* was checkpointed, whatever fails.  Excepted is a container into which a prewarm
\* restored after a run had taken the subject over from it.
ActiveIsRestored ==
  subject.status = "active" =>
    container.alive /\ (backup.files \subseteq container.files \/ container.overtaken)

\* A subject is advertised as cold only after a confirmed teardown, so that the next
\* restore does not overwrite files that were not checkpointed.  The two writes that
\* advertise it otherwise can be told from the row: an API operation that failed leaves
\* its id, and a conversation that could not be opened its error.
ColdIsTornDown ==
  subject.status = "cold" /\ subject.op \notin Operators /\ subject.error # "conversation" =>
    container.torn

\* An operation that was lost or failed anywhere is resumed until the subject is cold.
OperationEnds == subject.status \in {"backing_up", "destroying"} ~> subject.status = "cold"

\* A cattle subject that nobody uses is recycled, although executions that release leases
\* and close conversations are lost.  A pet is as long as its row has a deadline: the
\* sweep that repairs a deadline leaves pets out, so one whose release was lost, or came
\* before the acquisition cleared the deadline, stays until somebody uses it again.
Unused == ~ActiveRun /\ \A a \in Activators : worker[a].pc = "idle"
IdleIsRecycled ==
  (subject.status = "active" /\ Unused /\ (IsCattle \/ subject.deadline # "none")) ~>
    (subject.status # "active" \/ ~Unused)
=============================================================================
