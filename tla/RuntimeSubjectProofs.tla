------------------------ MODULE RuntimeSubjectProofs ------------------------
(***************************************************************************)
(* Safety of a runtime subject, for any executions, faults and writes.     *)
(*                                                                         *)
(* Nothing is assumed of the faults: giving up a conversation writes the   *)
(* row without its claim, and so a prewarm may restore under a claim that  *)
(* a run took over.                                                        *)
(*                                                                         *)
(* Owning: whoever is between two steps of an operation owns the row, and  *)
(* is alone.  Holding: what an activation that still holds the claim read  *)
(* of the checkpoint is the row's; an activation whose copy went stale     *)
(* before its claim finds the subject in an operation that cannot end      *)
(* before the activation read again.  Settled: nobody, with or without the *)
(* claim, restores into a subject that is due, or that maintenance has.    *)
(***************************************************************************)
EXTENDS RuntimeSubject, FiniteSetTheorems, TLAPS

Busy == {"backing_up", "destroying"}

Backups == [ready : BOOLEAN, files : SUBSET (1..MaxWrites)]
Subjects == [kind : Kinds, status : {"cold", "restoring", "active", "backing_up", "destroying"},
             op : Workers \cup {NoOwner}, claim : Workers \cup {NoOwner},
             lapsed : BOOLEAN, deadline : {"none", "armed", "due"},
             error : {"none", "conversation", "other"}]
Containers == [alive : BOOLEAN, files : SUBSET (1..MaxWrites), torn : BOOLEAN, overtaken : BOOLEAN]

ActivatorPcs == {"idle", "read", "claim", "prepare", "mark", "restore", "activate", "fail",
                 "teardown", "failed", "open", "link", "lease", "linked"}
OperatorPcs == {"idle", "done", "closed", "begin", "stop", "clear", "checkpoint", "record",
                "advance", "destroy", "close", "cold", "repair"}
OwnerPcs == {"stop", "clear", "checkpoint", "record", "advance", "destroy", "close", "cold",
             "repair", "teardown", "failed"}

WorkerTypes == [pc : ActivatorPcs \cup OperatorPcs, cold : BOOLEAN, claim : Workers \cup {NoOwner},
                copy : Backups, op : Workers \cup {NoOwner}, reset : BOOLEAN, destroys : BOOLEAN]

Types ==
  /\ subject \in Subjects
  /\ container \in Containers
  /\ backup \in Backups
  /\ open \subseteq Activators \cup {TheSession}
  /\ run \in [Dispatchers -> {"none", "active", "leased", "ended"}]
  /\ worker \in [Workers -> WorkerTypes]
  /\ written \subseteq 1..MaxWrites
  /\ \A a \in Activators : worker[a].pc \in ActivatorPcs
  /\ \A w \in Maintainers \cup Operators : worker[w].pc \in OperatorPcs

Owning ==
  /\ subject.status \in Busy => subject.op # NoOwner
  /\ subject.status = "restoring" => subject.claim \in Activators
  /\ \A w \in Workers : worker[w].pc \in OwnerPcs =>
       subject.status \in Busy /\ subject.op = worker[w].op
  /\ \A v, w \in Workers : worker[v].pc \in OwnerPcs /\ worker[w].pc \in OwnerPcs => v = w
  /\ \A w \in Operators : worker[w].pc \in OwnerPcs => worker[w].op = w
  /\ \A w \in Workers : worker[w].reset => w \in Operators /\ IsPet

\* A reset is destroying from the start; everyone else makes a checkpoint first.
Phases ==
  \A w \in Workers :
    /\ worker[w].pc \in {"stop", "clear", "checkpoint"} =>
         subject.status = IF worker[w].reset THEN "destroying" ELSE "backing_up"
    /\ worker[w].pc \in {"record", "advance"} =>
         subject.status = "backing_up" /\ ~worker[w].reset
    /\ worker[w].pc \in {"destroy", "close", "cold", "teardown", "failed"} =>
         subject.status = "destroying"

Spared ==
  Recycling => \A d \in Dispatchers :
                 /\ run[d] # "leased"
                 /\ worker[d].pc \in {"open", "link", "lease"} => run[d] # "active"

Inv == Types /\ Owning /\ Phases /\ Spared

\* Which checkpoints are there.
Kept ==
  /\ ~backup.ready => backup.files = {}
  /\ IsCattle => backup = NoBackup
  /\ \A w \in Workers : IsCattle => worker[w].pc # "record"
  /\ \A w \in Workers : worker[w].pc = "record" => worker[w].copy.ready

InOperation ==
  /\ subject.status \in Busy
  /\ \A w \in Workers : /\ worker[w].pc \notin {"teardown", "failed", "close", "cold"}
                        /\ w \in Operators => worker[w].pc \notin
                             {"stop", "clear", "checkpoint", "record", "repair"}

Holding(a) ==
  /\ subject.claim = a /\ worker[a].pc \in {"prepare", "mark", "restore", "activate", "fail"} =>
       ~subject.lapsed
  /\ worker[a].pc = "claim" /\ worker[a].cold => worker[a].copy = backup \/ InOperation
  /\ subject.claim = a /\ worker[a].pc \in {"prepare", "mark"} => subject.status # "restoring"
  /\ /\ subject.claim = a
     /\ worker[a].pc = "mark" \/ (worker[a].pc = "prepare" /\ worker[a].cold)
     => subject.status = "cold" /\ worker[a].copy = backup
  /\ subject.claim = a /\ worker[a].pc = "restore" =>
       subject.status \in {"restoring", "cold"} /\ worker[a].copy = backup
  /\ worker[a].pc = "activate" /\ subject.claim = a /\ subject.status = "restoring" =>
       container.alive /\ (backup.files \subseteq container.files \/ container.overtaken)

Torn ==
  /\ ColdIsTornDown
  /\ \A w \in Workers : worker[w].pc \in {"close", "cold", "failed"} => container.torn

NoneClaiming == \A w \in Workers : worker[w].pc \in {"close", "cold"} => NoneReadBefore

Settled ==
  \/ subject.status = "active" /\ subject.deadline = "due"
  \/ subject.claim \in Maintainers
  \/ Recycling
  => \A a \in Activators : worker[a].pc # "restore"

Saving ==
  IsPet /\ Recycling =>
    /\ subject.status = "destroying" => container.files \subseteq backup.files
    /\ \A w \in Workers : worker[w].pc = "record" => container.files \subseteq worker[w].copy.files
    /\ \A w \in Workers : worker[w].pc = "advance" => container.files \subseteq backup.files

Keeping ==
  /\ Kept
  /\ \A a \in Activators : Holding(a)
  /\ Torn
  /\ NoneClaiming
  /\ Settled
  /\ Saving
  /\ ActiveIsRestored

-----------------------------------------------------------------------------
(* How workers change.                                                     *)

\* What a checkpoint holds.
Saved == [ready |-> TRUE, files |-> container.files]

Others(w) == \A v \in Workers : v # w => worker'[v] = worker[v]
Same(w) ==
  /\ worker'[w].cold = worker[w].cold
  /\ worker'[w].copy = worker[w].copy
  /\ worker'[w].op = worker[w].op
  /\ worker'[w].reset = worker[w].reset

\* The kinds of executions are workers, and apart.
LEMMA WorkerKinds ==
  /\ Activators \subseteq Workers
  /\ Dispatchers \subseteq Activators /\ Prewarmers \subseteq Activators
  /\ Maintainers \subseteq Workers
  /\ Operators \subseteq Workers
  /\ NoOwner \notin Workers
  /\ \A w \in Workers : w \in Activators <=> w \notin Maintainers \cup Operators
  /\ \A w \in Maintainers : w \notin Operators
BY SubjectAssumption DEF Workers, Activators

Moved(w, pc) ==
  worker' \in [Workers -> WorkerTypes] /\ Others(w) /\ Same(w) /\ worker'[w].pc = pc
Rested(w) ==
  /\ worker' \in [Workers -> WorkerTypes] /\ Others(w)
  /\ worker'[w].pc = "idle" /\ ~worker'[w].reset
GaveUp(a) ==
  /\ Rested(a)
  /\ run' \in [Dispatchers -> {"none", "active", "leased", "ended"}]
  /\ \A d \in Dispatchers : run'[d] \in {run[d], "none"}

\* A worker that goes on changes in this only.
LEMMA GoFacts ==
  ASSUME Types, NEW w \in Workers, NEW pc \in ActivatorPcs \cup OperatorPcs, Go(w, pc)
  PROVE  Moved(w, pc)
<1>1. worker' = [worker EXCEPT ![w].pc = pc] /\ worker \in [Workers -> WorkerTypes]
  BY DEF Go, Types
<1>2. worker'[w] = [worker[w] EXCEPT !.pc = pc]
  BY <1>1
<1>3. worker'[w] \in WorkerTypes /\ worker'[w].pc = pc /\ Same(w)
  BY <1>1, <1>2 DEF WorkerTypes, Same
<1> QED BY <1>1, <1>3 DEF Others, Moved

\* A worker that rests forgets.
LEMMA RestFacts ==
  ASSUME Types, NEW w \in Workers, Rest(w)
  PROVE  Rested(w)
<1>1. IdleWorker \in WorkerTypes /\ IdleWorker.pc = "idle" /\ IdleWorker.reset = FALSE
  BY DEF IdleWorker, WorkerTypes, NoBackup, Backups, ActivatorPcs
<1> QED BY <1>1 DEF Rest, Others, Rested, Types

\* Its run fails with it.
LEMMA GiveUpFacts ==
  ASSUME Types, NEW a \in Activators, GiveUp(a)
  PROVE  GaveUp(a)
<1>1. Rest(a) /\ a \in Workers
  BY WorkerKinds DEF GiveUp
<1> QED BY <1>1, RestFacts DEF GiveUp, GaveUp, Types

Harmless == {"idle", "done", "read", "open", "link", "lease", "linked", "closed", "begin"}

\* One worker at most moves, to a point at which it holds nothing, and what is kept stays.
LEMMA Frame ==
  ASSUME Inv, NEW w, Others(w), worker' \in [Workers -> WorkerTypes],
         w \in Workers => worker'[w] = worker[w] \/ worker'[w].pc \in Harmless,
         subject'.kind = subject.kind, subject'.status = subject.status, subject'.op = subject.op,
         subject'.claim = subject.claim, subject'.lapsed = subject.lapsed,
         subject'.error = subject.error, subject'.deadline = "due" => subject.deadline = "due",
         container'.overtaken = container.overtaken, container'.files = container.files,
         container'.torn = container.torn,
         container.alive => container'.alive, backup' = backup
  PROVE  Keeping => Keeping'
<1> SUFFICES ASSUME Keeping PROVE Keeping'
  OBVIOUS
<1>1. Kept'
  BY DEF Keeping, Kept, Others, Harmless, IsCattle
<1>2. ASSUME NEW a \in Activators PROVE Holding(a)'
  <2>1. InOperation => InOperation'
    BY DEF InOperation, Others, Harmless
  <2>2. Holding(a) /\ a \in Workers
    BY WorkerKinds DEF Keeping
  <2>3. CASE a = w
    BY <2>1, <2>2, <2>3 DEF Holding, Harmless
  <2>4. CASE a # w
    BY <2>1, <2>2, <2>4 DEF Holding, Others
  <2> QED BY <2>3, <2>4
<1>3. Torn' /\ NoneClaiming'
  BY WorkerKinds DEF Keeping, Torn, ColdIsTornDown, NoneClaiming, NoneReadBefore, Others, Harmless
<1>4. Saving'
  BY DEF Keeping, Saving, Recycling, IsPet, Others, Harmless
<1>5. ActiveIsRestored'
  BY DEF Keeping, ActiveIsRestored
<1>6. Settled'
  BY WorkerKinds DEF Keeping, Settled, Recycling, Others, Harmless
<1> QED BY <1>1, <1>2, <1>3, <1>4, <1>5, <1>6 DEF Keeping

\* The next write of a run is one of those that are counted.
LEMMA NextWrite ==
  ASSUME Types, Cardinality(written) < MaxWrites
  PROVE  Cardinality(written) + 1 \in 1..MaxWrites
<1>1. IsFiniteSet(1..MaxWrites)
  BY FS_Interval, SubjectAssumption
<1>2. IsFiniteSet(written)
  BY <1>1, FS_Subset DEF Types
<1>3. Cardinality(written) \in Nat
  BY <1>2, FS_CardinalityType
<1> QED BY <1>3, SubjectAssumption

-----------------------------------------------------------------------------
(* One lemma per action: it keeps the invariant, and what is kept.         *)

\* The copy of the checkpoint that is read is the row's.
LEMMA ReadSubjectKeeps ==
  ASSUME Inv, NEW a \in Activators, ReadSubject(a)
  PROVE  Inv' /\ (Keeping => Keeping')
<1>1. a \in Workers /\ Types
  BY WorkerKinds DEF Inv
<1>2. (IF IsPet THEN backup ELSE NoBackup) \in Backups /\ (subject.status = "cold") \in BOOLEAN
  BY <1>1 DEF Types, NoBackup, Backups
<1>3. /\ worker' = [worker EXCEPT ![a] = worker'[a]] /\ worker'[a] =
       [worker[a] EXCEPT !.pc = "claim", !.cold = (subject.status = "cold"),
                         !.claim = subject.claim, !.copy = IF IsPet THEN backup ELSE NoBackup]
  BY <1>1, <1>2 DEF ReadSubject, Types
<1>4. worker[a] \in WorkerTypes /\ subject.claim \in Workers \cup {NoOwner}
  BY <1>1, <1>2, <1>3 DEF Types, Subjects
<1>5. worker'[a] \in WorkerTypes
  BY <1>2, <1>3, <1>4 DEF WorkerTypes, ActivatorPcs
<1>6. /\ worker' \in [Workers -> WorkerTypes] /\ Others(a) /\ worker'[a].pc = "claim"
      /\ worker'[a].op = worker[a].op /\ worker'[a].reset = worker[a].reset
      /\ worker'[a].copy = (IF IsPet THEN backup ELSE NoBackup)
  BY <1>1, <1>2, <1>3, <1>4, <1>5
     DEF ReadSubject, Others, Types, WorkerTypes, Subjects, ActivatorPcs
<1>7. Kept => worker'[a].copy = backup
  BY <1>1, <1>2, <1>3, <1>4, <1>5, <1>6, SubjectAssumption
     DEF IsPet, IsCattle, Types, Subjects, Kept
<1> USE <1>6, <1>7, WorkerKinds
        DEF ReadSubject, Others, Moved, Rested, GaveUp, Same, OwnerPcs, Busy, Obtainable
<1>8. Inv'
  BY DEF Inv, Types, Owning, Phases, Spared, Recycling, IsPet, Subjects, ActivatorPcs, OperatorPcs
<1>9. ASSUME Keeping PROVE Keeping'
  <2>1. ASSUME NEW b \in Activators PROVE Holding(b)'
    BY <1>9
       DEF Inv, Types, Owning, Keeping, Kept, Holding, InOperation, NoneClaiming, NoneReadBefore,
           ActiveIsRestored, Subjects, Containers
  <2> QED
    BY <1>9, <2>1
       DEF Inv, Types, Owning, Spared, Keeping, Kept, IsCattle, Torn, ColdIsTornDown,
           NoneClaiming, NoneReadBefore, Holding, Settled, Saving, ActiveIsRestored, Recycling,
           IsPet, Subjects, Containers, Backups
<1> QED BY <1>8, <1>9

\* An activation that waited long enough gives up.
LEMMA RefusedKeeps ==
  ASSUME Inv, NEW a \in Activators, Refused(a)
  PROVE  Inv' /\ (Keeping => Keeping')
<1>1. a \in Workers /\ Types
  BY WorkerKinds DEF Inv
<1>2. GaveUp(a)
  BY <1>1, GiveUpFacts DEF Refused
<1> USE <1>2, WorkerKinds DEF Refused, Others, Moved, Rested, GaveUp, Same, OwnerPcs, Busy
<1>3. Inv'
  BY DEF Inv, Types, Owning, Phases, Spared, Recycling, IsPet, Subjects, ActivatorPcs, OperatorPcs
<1>4. Keeping => Keeping'
  BY Frame DEF Types, Harmless, Subjects, Containers
<1> QED BY <1>3, <1>4

\* A claim that comes too late leaves everything as it is.
LEMMA ClaimSubjectLostKeeps ==
  ASSUME Inv, NEW a \in Activators, ClaimSubject(a), ~StillObtainable(a)
  PROVE  Inv' /\ (Keeping => Keeping')
<1>1. a \in Workers /\ Types
  BY WorkerKinds DEF Inv
<1>2. Moved(a, "read")
  BY <1>1, GoFacts DEF ClaimSubject, Types, ActivatorPcs
<1>3. UNCHANGED subject
  BY <1>2 DEF ClaimSubject
<1> USE <1>2, WorkerKinds DEF ClaimSubject, Others, Moved, Rested, GaveUp, Same, OwnerPcs, Busy
<1>4. Inv'
  BY DEF Inv, Types, Owning, Phases, Spared, Recycling, IsPet, Subjects, ActivatorPcs, OperatorPcs
<1>5. Keeping => Keeping'
  BY Frame DEF Types, Harmless, Subjects, Containers
<1> QED BY <1>4, <1>5

\* The copy is still the row's: an operation since the reading would not have been over.
LEMMA ClaimSubjectKeeps ==
  ASSUME Inv, NEW a \in Activators, ClaimSubject(a), StillObtainable(a)
  PROVE  Inv' /\ (Keeping => Keeping')
<1>1. a \in Workers /\ Types
  BY WorkerKinds DEF Inv
<1>2. subject' = [subject EXCEPT !.claim = a, !.lapsed = FALSE]
  BY DEF ClaimSubject
<1>3. Moved(a, "prepare")
  BY <1>1, <1>2, GoFacts DEF ClaimSubject, Types, ActivatorPcs
<1>4. /\ subject' \in Subjects /\ subject'.status = subject.status /\ subject'.op = subject.op
      /\ subject'.kind = subject.kind /\ subject'.claim = a /\ ~subject'.lapsed
      /\ subject'.deadline = subject.deadline /\ subject'.error = subject.error
  BY <1>1, <1>2, <1>3 DEF Types, Subjects
<1> USE <1>3, <1>4, WorkerKinds
        DEF ClaimSubject, Others, Moved, Rested, GaveUp, Same, OwnerPcs, Busy, StillObtainable
<1>5. Inv'
  BY DEF Inv, Types, Owning, Phases, Spared, Recycling, IsPet, Subjects, ActivatorPcs, OperatorPcs
<1>6. ASSUME Keeping PROVE Keeping'
  <2>1. ASSUME NEW b \in Activators PROVE Holding(b)'
    BY <1>6
       DEF Inv, Types, Owning, Keeping, Kept, Holding, InOperation, NoneClaiming, NoneReadBefore,
           ActiveIsRestored, Subjects, Containers
  <2> QED
    BY <1>6, <2>1
       DEF Inv, Types, Owning, Spared, Keeping, Kept, IsCattle, Torn, ColdIsTornDown,
           NoneClaiming, NoneReadBefore, Holding, Settled, Saving, ActiveIsRestored, Recycling,
           IsPet, Subjects, Containers, Backups
<1> QED BY <1>5, <1>6

\* The container of an activation that found the row active was alive already.
LEMMA PrepareFilesystemKeeps ==
  ASSUME Inv, NEW a \in Activators, PrepareFilesystem(a)
  PROVE  Inv' /\ (Keeping => Keeping')
<1>1. a \in Workers /\ Types
  BY WorkerKinds DEF Inv
<1>2. Moved(a, IF worker[a].cold THEN "mark" ELSE "activate")
  BY <1>1, GoFacts DEF PrepareFilesystem, Types, ActivatorPcs
<1>3. container' \in Containers
  BY <1>1, <1>2 DEF PrepareFilesystem, Started, Types, Containers
<1> USE <1>2, <1>3, WorkerKinds
        DEF PrepareFilesystem, Others, Moved, Rested, GaveUp, Same, OwnerPcs, Busy, Started,
            Containers
<1>4. Inv'
  BY DEF Inv, Types, Owning, Phases, Spared, Recycling, IsPet, Subjects, ActivatorPcs, OperatorPcs
<1>5. ASSUME Keeping PROVE Keeping'
  <2>1. ASSUME NEW b \in Activators PROVE Holding(b)'
    BY <1>5
       DEF Inv, Types, Owning, Keeping, Kept, Holding, InOperation, NoneClaiming, NoneReadBefore,
           ActiveIsRestored, Subjects, Containers
  <2> QED
    BY <1>5, <2>1
       DEF Inv, Types, Owning, Spared, Keeping, Kept, IsCattle, Torn, ColdIsTornDown,
           NoneClaiming, NoneReadBefore, Holding, Settled, Saving, ActiveIsRestored, Recycling,
           IsPet, Subjects, Containers, Backups
<1> QED BY <1>4, <1>5

\* The claim was taken over: another activation or operation has the row.
LEMMA MarkRestoringLostKeeps ==
  ASSUME Inv, NEW a \in Activators, MarkRestoring(a), ~Holds(a, {"cold"})
  PROVE  Inv' /\ (Keeping => Keeping')
<1>1. a \in Workers /\ Types
  BY WorkerKinds DEF Inv
<1>2. Moved(a, "fail")
  BY <1>1, GoFacts DEF MarkRestoring, Types, ActivatorPcs
<1>3. UNCHANGED subject
  BY <1>2 DEF MarkRestoring
<1> USE <1>2, WorkerKinds DEF MarkRestoring, Others, Moved, Rested, GaveUp, Same, OwnerPcs, Busy
<1>4. Inv'
  BY DEF Inv, Types, Owning, Phases, Spared, Recycling, IsPet, Subjects, ActivatorPcs, OperatorPcs
<1>5. ASSUME Keeping PROVE Keeping'
  <2>1. ASSUME NEW b \in Activators PROVE Holding(b)'
    BY <1>5
       DEF Inv, Types, Owning, Keeping, Kept, Holding, InOperation, NoneClaiming, NoneReadBefore,
           ActiveIsRestored, Subjects, Containers
  <2> QED
    BY <1>5, <2>1
       DEF Inv, Types, Owning, Spared, Keeping, Kept, IsCattle, Torn, ColdIsTornDown,
           NoneClaiming, NoneReadBefore, Holding, Settled, Saving, ActiveIsRestored, Recycling,
           IsPet, Subjects, Containers, Backups
<1> QED BY <1>4, <1>5

\* Restoring starts under the claim, with a copy that is the row's.
LEMMA MarkRestoringKeeps ==
  ASSUME Inv, NEW a \in Activators, MarkRestoring(a), Holds(a, {"cold"})
  PROVE  Inv' /\ (Keeping => Keeping')
<1>1. a \in Workers /\ Types
  BY WorkerKinds DEF Inv
<1>2. subject' = [subject EXCEPT !.status = "restoring", !.op = NoOwner, !.error = "none"]
  BY DEF MarkRestoring
<1>3. Moved(a, "restore")
  BY <1>1, <1>2, GoFacts DEF MarkRestoring, Types, ActivatorPcs
<1>4. /\ subject' \in Subjects /\ subject'.kind = subject.kind /\ subject'.status = "restoring"
      /\ subject'.op = NoOwner /\ subject'.claim = subject.claim /\ subject'.lapsed = subject.lapsed
  BY <1>1, <1>2, <1>3 DEF Types, Subjects
<1> USE <1>3, <1>4, WorkerKinds
        DEF MarkRestoring, Others, Moved, Rested, GaveUp, Same, OwnerPcs, Busy, Holds
<1>5. Inv'
  BY DEF Inv, Types, Owning, Phases, Spared, Recycling, IsPet, Subjects, ActivatorPcs, OperatorPcs
<1>6. ASSUME Keeping PROVE Keeping'
  <2>1. ASSUME NEW b \in Activators PROVE Holding(b)'
    BY <1>6
       DEF Inv, Types, Owning, Keeping, Kept, Holding, InOperation, NoneClaiming, NoneReadBefore,
           ActiveIsRestored, Subjects, Containers
  <2> QED
    BY <1>6, <2>1
       DEF Inv, Types, Owning, Spared, Keeping, Kept, IsCattle, Torn, ColdIsTornDown,
           NoneClaiming, NoneReadBefore, Holding, Settled, Saving, ActiveIsRestored, Recycling,
           IsPet, Subjects, Containers, Backups
<1> QED BY <1>5, <1>6

\* The container receives what the row's checkpoint holds.
LEMMA RestoreKeeps ==
  ASSUME Inv, NEW a \in Activators, Restore(a)
  PROVE  Inv' /\ (Keeping => Keeping')
<1>1. a \in Workers /\ Types
  BY WorkerKinds DEF Inv
<1>2. Moved(a, "activate")
  BY <1>1, GoFacts DEF Restore, Types, ActivatorPcs
<1>3. /\ container' \in Containers
      /\ container'.alive
      /\ container'.torn = container.torn
      /\ container'.files = IF worker[a].copy.ready THEN worker[a].copy.files ELSE container.files
      /\ worker[a].copy.ready /\ subject.claim # a => container'.overtaken
      /\ ~worker[a].copy.ready => container'.overtaken = container.overtaken
  BY <1>1, <1>2 DEF Restore, Started, Types, Containers, WorkerTypes, Backups
<1> USE <1>2, <1>3, WorkerKinds DEF Restore, Others, Moved, Rested, GaveUp, Same, OwnerPcs, Busy
<1>4. Inv'
  BY DEF Inv, Types, Owning, Phases, Spared, Recycling, IsPet, Subjects, ActivatorPcs, OperatorPcs
<1>5. ASSUME Keeping PROVE Keeping'
  <2>1. ASSUME NEW b \in Activators PROVE Holding(b)'
    BY <1>5
       DEF Inv, Types, Owning, Keeping, Kept, Holding, InOperation, NoneClaiming, NoneReadBefore,
           ActiveIsRestored, Subjects, Containers
  <2> QED
    BY <1>5, <2>1
       DEF Inv, Types, Owning, Spared, Keeping, Kept, IsCattle, Torn, ColdIsTornDown,
           NoneClaiming, NoneReadBefore, Holding, Settled, Saving, ActiveIsRestored, Recycling,
           IsPet, Subjects, Containers, Backups
<1> QED BY <1>4, <1>5

\* The claim was taken over: another activation or operation has the row.
LEMMA MarkActiveLostKeeps ==
  ASSUME Inv, NEW a \in Activators, MarkActive(a), ~Holds(a, {"restoring", "active"})
  PROVE  Inv' /\ (Keeping => Keeping')
<1>1. a \in Workers /\ Types
  BY WorkerKinds DEF Inv
<1>2. Moved(a, "fail")
  BY <1>1, GoFacts DEF MarkActive, Types, ActivatorPcs
<1>3. UNCHANGED <<subject, container>>
  BY <1>2 DEF MarkActive
<1> USE <1>2, WorkerKinds DEF MarkActive, Others, Moved, Rested, GaveUp, Same, OwnerPcs, Busy
<1>4. Inv'
  BY DEF Inv, Types, Owning, Phases, Spared, Recycling, IsPet, Subjects, ActivatorPcs, OperatorPcs
<1>5. ASSUME Keeping PROVE Keeping'
  <2>1. ASSUME NEW b \in Activators PROVE Holding(b)'
    BY <1>5
       DEF Inv, Types, Owning, Keeping, Kept, Holding, InOperation, NoneClaiming, NoneReadBefore,
           ActiveIsRestored, Subjects, Containers
  <2> QED
    BY <1>5, <2>1
       DEF Inv, Types, Owning, Spared, Keeping, Kept, IsCattle, Torn, ColdIsTornDown,
           NoneClaiming, NoneReadBefore, Holding, Settled, Saving, ActiveIsRestored, Recycling,
           IsPet, Subjects, Containers, Backups
<1> QED BY <1>4, <1>5

\* Advertised as active is what was restored, or was active before.
LEMMA MarkActiveKeeps ==
  ASSUME Inv, NEW a \in Activators, MarkActive(a), Holds(a, {"restoring", "active"})
  PROVE  Inv' /\ (Keeping => Keeping')
<1>1. a \in Workers /\ Types
  BY WorkerKinds DEF Inv
<1>2. /\ subject' = Unclaimed([subject EXCEPT !.status = "active", !.op = NoOwner,
                                              !.deadline = "armed", !.error = "none"])
      /\ container' = [container EXCEPT !.torn = FALSE]
  BY DEF MarkActive
<1>3. subject' = [subject EXCEPT !.status = "active", !.op = NoOwner, !.deadline = "armed",
                                  !.error = "none", !.claim = NoOwner, !.lapsed = FALSE]
  BY <1>2 DEF Unclaimed, Types, Subjects
<1>4. container' \in Containers
  BY <1>1, <1>2, <1>3 DEF Types, Containers
<1>5. Moved(a, "open")
  BY <1>1, <1>2, <1>3, <1>4, GoFacts DEF MarkActive, Types, ActivatorPcs
<1>6. /\ subject' \in Subjects /\ subject'.kind = subject.kind /\ subject'.status = "active"
      /\ subject'.op = NoOwner /\ subject'.claim = NoOwner /\ ~subject'.lapsed
      /\ subject'.deadline = "armed"
  BY <1>1, <1>2, <1>3, <1>4, <1>5 DEF Types, Subjects
<1> USE <1>4, <1>5, <1>6, WorkerKinds
        DEF MarkActive, Others, Moved, Rested, GaveUp, Same, OwnerPcs, Busy, Holds, Containers
<1>7. Inv'
  BY DEF Inv, Types, Owning, Phases, Spared, Recycling, IsPet, Subjects, ActivatorPcs, OperatorPcs
<1>8. ASSUME Keeping PROVE Keeping'
  <2>1. Kept' /\ NoneClaiming'
    BY <1>8
       DEF Inv, Types, Owning, Keeping, Kept, IsCattle, NoneClaiming, NoneReadBefore, Subjects,
           Backups
  <2>2. Torn'
    BY DEF Inv, Types, Owning, Keeping, Torn, ColdIsTornDown, Subjects, Containers
  <2>3. Saving'
    BY DEF Inv, Types, Owning, Spared, Keeping, Kept, Saving, Recycling, IsPet, Subjects,
           Containers
  <2>4. ActiveIsRestored'
    BY <1>8 DEF Inv, Types, Owning, Keeping, Holding, ActiveIsRestored, Subjects, Containers
  <2>6. Settled'
    BY DEF Inv, Types, Settled, Recycling
  <2>5. ASSUME NEW b \in Activators PROVE Holding(b)'
    BY <1>8
       DEF Inv, Types, Owning, Keeping, Kept, Holding, InOperation, ActiveIsRestored, Subjects,
           Containers
  <2> QED BY <2>1, <2>2, <2>3, <2>4, <2>5, <2>6 DEF Keeping
<1> QED BY <1>7, <1>8

\* The container may have started, nothing else.
LEMMA ActivationFailsKeeps ==
  ASSUME Inv, NEW a \in Activators, ActivationFails(a)
  PROVE  Inv' /\ (Keeping => Keeping')
<1>1. a \in Workers /\ Types
  BY WorkerKinds DEF Inv
<1>2. Moved(a, "fail")
  BY <1>1, GoFacts DEF ActivationFails, Types, ActivatorPcs
<1>3. /\ container' \in Containers
      /\ container'.files = container.files
      /\ container'.torn = container.torn
      /\ container.alive => container'.alive
      /\ container'.overtaken = container.overtaken
  BY <1>1, <1>2 DEF ActivationFails, MayHave, Started, Types, Containers
<1> USE <1>2, <1>3, WorkerKinds
        DEF ActivationFails, Others, Moved, Rested, GaveUp, Same, OwnerPcs, Busy
<1>4. Inv'
  BY DEF Inv, Types, Owning, Phases, Spared, Recycling, IsPet, Subjects, ActivatorPcs, OperatorPcs
<1>5. ASSUME Keeping PROVE Keeping'
  <2>1. ASSUME NEW b \in Activators PROVE Holding(b)'
    BY <1>5
       DEF Inv, Types, Owning, Keeping, Kept, Holding, InOperation, NoneClaiming, NoneReadBefore,
           ActiveIsRestored, Subjects, Containers
  <2> QED
    BY <1>5, <2>1
       DEF Inv, Types, Owning, Spared, Keeping, Kept, IsCattle, Torn, ColdIsTornDown,
           NoneClaiming, NoneReadBefore, Holding, Settled, Saving, ActiveIsRestored, Recycling,
           IsPet, Subjects, Containers, Backups
<1> QED BY <1>4, <1>5

\* The claim was taken over: the activation gives up.
LEMMA RecordFailureLostKeeps ==
  ASSUME Inv, NEW a \in Activators, RecordFailure(a), ~Holds(a, {"cold", "restoring", "active"})
  PROVE  Inv' /\ (Keeping => Keeping')
<1>1. a \in Workers /\ Types
  BY WorkerKinds DEF Inv
<1>2. GaveUp(a)
  BY <1>1, GiveUpFacts DEF RecordFailure
<1>3. UNCHANGED subject
  BY <1>2 DEF RecordFailure
<1> USE <1>2, WorkerKinds DEF RecordFailure, Others, Moved, Rested, GaveUp, Same, OwnerPcs, Busy
<1>4. Inv'
  BY DEF Inv, Types, Owning, Phases, Spared, Recycling, IsPet, Subjects, ActivatorPcs, OperatorPcs
<1>5. Keeping => Keeping'
  BY Frame DEF Types, Harmless, Subjects, Containers
<1> QED BY <1>4, <1>5

\* The failed activation owns the row, which no operation owned.
LEMMA RecordFailureKeeps ==
  ASSUME Inv, NEW a \in Activators, RecordFailure(a), Holds(a, {"cold", "restoring", "active"})
  PROVE  Inv' /\ (Keeping => Keeping')
<1>1. a \in Workers /\ Types
  BY WorkerKinds DEF Inv
<1>2. subject' = [subject EXCEPT !.status = "destroying", !.op = a, !.error = "other",
                                  !.claim = NoOwner, !.lapsed = FALSE]
  BY DEF RecordFailure, Unclaimed, Types, Subjects
<1>3. /\ worker' \in [Workers -> WorkerTypes]
      /\ Others(a)
      /\ worker'[a].pc = "teardown"
      /\ worker'[a].op = a
      /\ worker'[a].reset = worker[a].reset /\ UNCHANGED run
  BY <1>1, <1>2 DEF RecordFailure, Others, Types, WorkerTypes, ActivatorPcs
<1>4. /\ subject' \in Subjects /\ subject'.kind = subject.kind /\ subject'.status = "destroying"
      /\ subject'.op = a /\ subject'.claim = NoOwner /\ ~subject'.lapsed
  BY <1>1, <1>2, <1>3 DEF Types, Subjects
<1> USE <1>3, <1>4, WorkerKinds
        DEF RecordFailure, Others, Moved, Rested, GaveUp, Same, OwnerPcs, Busy, Holds
<1>5. Inv'
  BY DEF Inv, Types, Owning, Phases, Spared, Recycling, IsPet, Subjects, ActivatorPcs, OperatorPcs
<1>6. ASSUME Keeping PROVE Keeping'
  <2>1. ASSUME NEW b \in Activators PROVE Holding(b)'
    BY <1>6
       DEF Inv, Types, Owning, Keeping, Kept, Holding, InOperation, NoneClaiming, NoneReadBefore,
           ActiveIsRestored, Subjects, Containers
  <2> QED
    BY <1>6, <2>1
       DEF Inv, Types, Owning, Spared, Keeping, Kept, IsCattle, Torn, ColdIsTornDown,
           NoneClaiming, NoneReadBefore, Holding, Settled, Saving, ActiveIsRestored, Recycling,
           IsPet, Subjects, Containers, Backups
<1> QED BY <1>5, <1>6

\* The container of a failed activation goes, and no recycle is on.
LEMMA TeardownKeeps ==
  ASSUME Inv, NEW a \in Activators, Teardown(a)
  PROVE  Inv' /\ (Keeping => Keeping')
<1>1. a \in Workers /\ Types
  BY WorkerKinds DEF Inv
<1>2. Moved(a, "failed")
  BY <1>1, GoFacts DEF Teardown, Types, ActivatorPcs
<1>3. container' \in Containers
  BY <1>2 DEF Teardown, Gone, Containers
<1> USE <1>2, <1>3, WorkerKinds
        DEF Teardown, Others, Moved, Rested, GaveUp, Same, OwnerPcs, Busy, Gone
<1>4. Inv'
  BY DEF Inv, Types, Owning, Phases, Spared, Recycling, IsPet, Subjects, ActivatorPcs, OperatorPcs
<1>5. ASSUME Keeping PROVE Keeping'
  <2>1. ASSUME NEW b \in Activators PROVE Holding(b)'
    BY <1>5
       DEF Inv, Types, Owning, Keeping, Kept, Holding, InOperation, NoneClaiming, NoneReadBefore,
           ActiveIsRestored, Subjects, Containers
  <2> QED
    BY <1>5, <2>1
       DEF Inv, Types, Owning, Spared, Keeping, Kept, IsCattle, Torn, ColdIsTornDown,
           NoneClaiming, NoneReadBefore, Holding, Settled, Saving, ActiveIsRestored, Recycling,
           IsPet, Subjects, Containers, Backups
<1> QED BY <1>4, <1>5

\* The container may have gone.
LEMMA TeardownFailsKeeps ==
  ASSUME Inv, NEW a \in Activators, TeardownFails(a)
  PROVE  Inv' /\ (Keeping => Keeping')
<1>1. a \in Workers /\ Types
  BY WorkerKinds DEF Inv
<1>2. container' = container \/ container' = Gone
  BY DEF TeardownFails, MayHave
<1>3. Gone \in Containers /\ Gone.torn /\ Gone.files = {}
  BY <1>2 DEF Gone, Containers
<1>4. GaveUp(a)
  BY <1>1, <1>2, <1>3, GiveUpFacts DEF TeardownFails
<1>5. /\ container' \in Containers
      /\ (container' = container \/ (container'.torn /\ container'.files = {}))
  BY <1>1, <1>2, <1>3, <1>4 DEF Types
<1> USE <1>4, <1>5, WorkerKinds
        DEF TeardownFails, Others, Moved, Rested, GaveUp, Same, OwnerPcs, Busy
<1>6. Inv'
  BY DEF Inv, Types, Owning, Phases, Spared, Recycling, IsPet, Subjects, ActivatorPcs, OperatorPcs
<1>7. ASSUME Keeping PROVE Keeping'
  <2>1. Kept' /\ NoneClaiming'
    BY <1>7
       DEF Inv, Types, Owning, Keeping, Kept, IsCattle, NoneClaiming, NoneReadBefore, Subjects,
           Backups
  <2>2. Torn'
    BY DEF Inv, Types, Owning, Keeping, Torn, ColdIsTornDown, Subjects, Containers
  <2>3. Saving'
    BY <1>7
       DEF Inv, Types, Owning, Spared, Keeping, Kept, Saving, Recycling, IsPet, Subjects,
           Containers
  <2>4. ActiveIsRestored'
    BY DEF Inv, Types, Owning, Keeping, Holding, ActiveIsRestored, Subjects, Containers
  <2>6. Settled'
    BY <1>7 DEF Inv, Types, Keeping, Settled, Recycling
  <2>5. ASSUME NEW b \in Activators PROVE Holding(b)'
    BY <1>7
       DEF Inv, Types, Owning, Keeping, Kept, Holding, InOperation, ActiveIsRestored, Subjects,
           Containers
  <2> QED BY <2>1, <2>2, <2>3, <2>4, <2>5, <2>6 DEF Keeping
<1> QED BY <1>6, <1>7

\* Cold after the teardown.
LEMMA MarkFailedKeeps ==
  ASSUME Inv, NEW a \in Activators, MarkFailed(a)
  PROVE  Inv' /\ (Keeping => Keeping')
<1>1. a \in Workers /\ Types
  BY WorkerKinds DEF Inv
<1>2. subject.status = "destroying" /\ subject.op = worker[a].op
  BY <1>1 DEF Inv, Owning, Phases, MarkFailed, OwnerPcs
<1>3. subject' = [subject EXCEPT !.status = "cold", !.op = NoOwner, !.error = "other",
                                  !.claim = NoOwner, !.lapsed = FALSE]
  BY <1>2 DEF MarkFailed, Unclaimed, Types, Subjects
<1>4. GaveUp(a)
  BY <1>1, <1>2, <1>3, GiveUpFacts DEF MarkFailed
<1>5. /\ subject' \in Subjects /\ subject'.kind = subject.kind /\ subject'.status = "cold"
      /\ subject'.op = NoOwner /\ subject'.claim = NoOwner /\ ~subject'.lapsed
  BY <1>1, <1>2, <1>3, <1>4 DEF Types, Subjects
<1> USE <1>4, <1>5, WorkerKinds
        DEF MarkFailed, Others, Moved, Rested, GaveUp, Same, OwnerPcs, Busy
<1>6. Inv'
  BY DEF Inv, Types, Owning, Phases, Spared, Recycling, IsPet, Subjects, ActivatorPcs, OperatorPcs
<1>7. ASSUME Keeping PROVE Keeping'
  <2>1. ASSUME NEW b \in Activators PROVE Holding(b)'
    BY <1>7
       DEF Inv, Types, Owning, Keeping, Kept, Holding, InOperation, NoneClaiming, NoneReadBefore,
           ActiveIsRestored, Subjects, Containers
  <2> QED
    BY <1>7, <2>1
       DEF Inv, Types, Owning, Spared, Keeping, Kept, IsCattle, Torn, ColdIsTornDown,
           NoneClaiming, NoneReadBefore, Holding, Settled, Saving, ActiveIsRestored, Recycling,
           IsPet, Subjects, Containers, Backups
<1> QED BY <1>6, <1>7

\* A run is active before it has anything of the subject.
LEMMA AdmitKeeps ==
  ASSUME Inv, NEW d \in Dispatchers, Admit(d)
  PROVE  Inv' /\ (Keeping => Keeping')
<1>1. d \in Workers /\ Types
  BY WorkerKinds DEF Inv
<1>2. Moved(d, "read")
  BY <1>1, GoFacts, WorkerKinds DEF Admit, Types, ActivatorPcs
<1>3. /\ run' \in [Dispatchers -> {"none", "active", "leased", "ended"}]
      /\ \A c \in Dispatchers : run'[c] = IF c = d THEN "active" ELSE run[c]
  BY <1>1, <1>2 DEF Admit, Types
<1> USE <1>2, WorkerKinds DEF Admit, Others, Moved, Rested, GaveUp, Same, OwnerPcs, Busy
<1>4. Inv'
  BY DEF Inv, Types, Owning, Phases, Spared, Recycling, IsPet, Subjects, ActivatorPcs, OperatorPcs
<1>5. Keeping => Keeping'
  BY Frame DEF Types, Harmless, Subjects, Containers
<1> QED BY <1>4, <1>5

\* A prewarm starts with nothing.
LEMMA PrewarmKeeps ==
  ASSUME Inv, NEW p \in Prewarmers, Prewarm(p)
  PROVE  Inv' /\ (Keeping => Keeping')
<1>1. p \in Workers /\ Types
  BY WorkerKinds DEF Inv
<1>2. Moved(p, "read")
  BY <1>1, GoFacts, WorkerKinds DEF Prewarm, Types, ActivatorPcs
<1> USE <1>2, WorkerKinds DEF Prewarm, Others, Moved, Rested, GaveUp, Same, OwnerPcs, Busy
<1>3. Inv'
  BY DEF Inv, Types, Owning, Phases, Spared, Recycling, IsPet, Subjects, ActivatorPcs, OperatorPcs
<1>4. Keeping => Keeping'
  BY Frame DEF Types, Harmless, Subjects, Containers
<1> QED BY <1>3, <1>4

\* The conversation of an activation that is through.
LEMMA OpenConversationKeeps ==
  ASSUME Inv, NEW a \in Activators, OpenConversation(a)
  PROVE  Inv' /\ (Keeping => Keeping')
<1>1. a \in Workers /\ Types
  BY WorkerKinds DEF Inv
<1>2. IF a \in Dispatchers THEN Moved(a, "link") ELSE Rested(a)
  BY <1>1, GoFacts, RestFacts DEF OpenConversation, Types, ActivatorPcs
<1>3. /\ subject' \in Subjects /\ subject'.kind = subject.kind /\ subject'.status = subject.status
      /\ subject'.op = subject.op
      /\ subject'.claim = subject.claim
      /\ subject'.lapsed = subject.lapsed
  BY <1>1, <1>2 DEF OpenConversation, Types, Subjects
<1>4. open' \subseteq Activators \cup {TheSession}
  BY <1>1, <1>2, <1>3 DEF OpenConversation, Conversation, Types
<1> USE <1>2, <1>4, WorkerKinds
        DEF OpenConversation, Others, Moved, Rested, GaveUp, Same, OwnerPcs, Busy
<1>5. Inv'
  BY DEF Inv, Types, Owning, Phases, Spared, Recycling, IsPet, Subjects, ActivatorPcs, OperatorPcs
<1>6. Keeping => Keeping'
  BY Frame DEF Types, Harmless, Subjects, Containers
<1> QED BY <1>5, <1>6

\* Without its claim the row is given back as cold, but never during an operation.
LEMMA OpenFailsKeeps ==
  ASSUME Inv, NEW a \in Activators, OpenFails(a)
  PROVE  Inv' /\ (Keeping => Keeping')
<1>1. a \in Workers /\ Types
  BY WorkerKinds DEF Inv
<1>2. GaveUp(a)
  BY <1>1, GiveUpFacts DEF OpenFails
<1>3. /\ subject' \in Subjects /\ subject'.kind = subject.kind /\ subject'.claim = subject.claim
      /\ subject'.lapsed = subject.lapsed /\ subject'.deadline = subject.deadline
      /\ \/ subject' = subject
         \/ /\ subject'.status = "cold" /\ subject'.op = NoOwner /\ subject'.error = "conversation"
            /\ subject.status \in {"restoring", "active"}
      /\ open' \subseteq Activators \cup {TheSession}
  BY <1>1, <1>2 DEF OpenFails, Types, Subjects
<1> USE <1>2, <1>3, WorkerKinds DEF OpenFails, Others, Moved, Rested, GaveUp, Same, OwnerPcs, Busy
<1>4. Inv'
  BY DEF Inv, Types, Owning, Phases, Spared, Recycling, IsPet, Subjects, ActivatorPcs, OperatorPcs
<1>5. ASSUME Keeping PROVE Keeping'
  <2>1. ASSUME NEW b \in Activators PROVE Holding(b)'
    BY <1>5
       DEF Inv, Types, Owning, Keeping, Kept, Holding, InOperation, NoneClaiming, NoneReadBefore,
           ActiveIsRestored, Subjects, Containers
  <2> QED
    BY <1>5, <2>1
       DEF Inv, Types, Owning, Spared, Keeping, Kept, IsCattle, Torn, ColdIsTornDown,
           NoneClaiming, NoneReadBefore, Holding, Settled, Saving, ActiveIsRestored, Recycling,
           IsPet, Subjects, Containers, Backups
<1> QED BY <1>4, <1>5

\* A dispatcher that found its run active goes on without the lease.
LEMMA CheckLeaseKeeps ==
  ASSUME Inv, NEW d \in Dispatchers, CheckLease(d), run[d] = "active" /\ Conversation(d) \in open
  PROVE  Inv' /\ (Keeping => Keeping')
<1>1. d \in Workers /\ Types
  BY WorkerKinds DEF Inv
<1>2. Moved(d, "lease")
  BY <1>1, GoFacts, WorkerKinds DEF CheckLease, Types, ActivatorPcs
<1> USE <1>2, WorkerKinds DEF CheckLease, Others, Moved, Rested, GaveUp, Same, OwnerPcs, Busy
<1>3. Inv'
  BY DEF Inv, Types, Owning, Phases, Spared, Recycling, IsPet, Subjects, ActivatorPcs, OperatorPcs
<1>4. Keeping => Keeping'
  BY Frame DEF Types, Harmless, Subjects, Containers
<1> QED BY <1>3, <1>4

\* The run or the conversation ended: the dispatcher gives up.
LEMMA CheckLeaseLostKeeps ==
  ASSUME Inv, NEW d \in Dispatchers, CheckLease(d),
         ~(run[d] = "active" /\ Conversation(d) \in open)
  PROVE  Inv' /\ (Keeping => Keeping')
<1>1. d \in Workers /\ Types
  BY WorkerKinds DEF Inv
<1>2. GaveUp(d)
  BY <1>1, WorkerKinds, GiveUpFacts DEF CheckLease
<1> USE <1>2, WorkerKinds DEF CheckLease, Others, Moved, Rested, GaveUp, Same, OwnerPcs, Busy
<1>3. Inv'
  BY DEF Inv, Types, Owning, Phases, Spared, Recycling, IsPet, Subjects, ActivatorPcs, OperatorPcs
<1>4. Keeping => Keeping'
  BY Frame DEF Types, Harmless, Subjects, Containers
<1> QED BY <1>3, <1>4

\* A lease is acquired only by a run that no recycle has overtaken.
LEMMA AcquireLeaseKeeps ==
  ASSUME Inv, NEW d \in Dispatchers, AcquireLease(d), run[d] = "active"
  PROVE  Inv' /\ (Keeping => Keeping')
<1>1. d \in Workers /\ Types
  BY WorkerKinds DEF Inv
<1>2. Moved(d, "linked")
  BY <1>1, GoFacts, WorkerKinds DEF AcquireLease, Types, ActivatorPcs
<1>3. /\ run' \in [Dispatchers -> {"none", "active", "leased", "ended"}]
      /\ \A c \in Dispatchers : run'[c] = IF c = d THEN "leased" ELSE run[c]
  BY <1>1, <1>2 DEF AcquireLease, Types
<1> USE <1>2, WorkerKinds DEF AcquireLease, Others, Moved, Rested, GaveUp, Same, OwnerPcs, Busy
<1>4. Inv'
  BY DEF Inv, Types, Owning, Phases, Spared, Recycling, IsPet, Subjects, ActivatorPcs, OperatorPcs
<1>5. Keeping => Keeping'
  BY Frame DEF Types, Harmless, Subjects, Containers
<1> QED BY <1>4, <1>5

\* The run ended: the dispatcher gives up.
LEMMA AcquireLeaseLostKeeps ==
  ASSUME Inv, NEW d \in Dispatchers, AcquireLease(d), run[d] # "active"
  PROVE  Inv' /\ (Keeping => Keeping')
<1>1. d \in Workers /\ Types
  BY WorkerKinds DEF Inv
<1>2. GaveUp(d)
  BY <1>1, WorkerKinds, GiveUpFacts DEF AcquireLease
<1> USE <1>2, WorkerKinds DEF AcquireLease, Others, Moved, Rested, GaveUp, Same, OwnerPcs, Busy
<1>3. Inv'
  BY DEF Inv, Types, Owning, Phases, Spared, Recycling, IsPet, Subjects, ActivatorPcs, OperatorPcs
<1>4. Keeping => Keeping'
  BY Frame DEF Types, Harmless, Subjects, Containers
<1> QED BY <1>3, <1>4

\* Only the deadline changes.
LEMMA ClearDeadlineKeeps ==
  ASSUME Inv, NEW d \in Dispatchers, ClearDeadline(d)
  PROVE  Inv' /\ (Keeping => Keeping')
<1>1. d \in Workers /\ Types
  BY WorkerKinds DEF Inv
<1>2. Rested(d)
  BY <1>1, RestFacts DEF ClearDeadline
<1>3. /\ subject' \in Subjects /\ subject'.kind = subject.kind /\ subject'.status = subject.status
      /\ subject'.op = subject.op
      /\ subject'.claim = subject.claim
      /\ subject'.lapsed = subject.lapsed
  BY <1>1, <1>2 DEF ClearDeadline, Types, Subjects
<1> USE <1>2, WorkerKinds DEF ClearDeadline, Others, Moved, Rested, GaveUp, Same, OwnerPcs, Busy
<1>4. Inv'
  BY DEF Inv, Types, Owning, Phases, Spared, Recycling, IsPet, Subjects, ActivatorPcs, OperatorPcs
<1>5. Keeping => Keeping'
  BY Frame DEF Types, Harmless, Subjects, Containers
<1> QED BY <1>4, <1>5

\* A run that ends frees what it had.
LEMMA EndRunKeeps ==
  ASSUME Inv, NEW d \in Dispatchers, EndRun(d)
  PROVE  Inv' /\ (Keeping => Keeping')
<1>1. d \in Workers /\ Types
  BY WorkerKinds DEF Inv
<1>2. Others(d) /\ worker' = worker /\ worker' \in [Workers -> WorkerTypes]
  BY <1>1 DEF EndRun, Types, Others
<1>3. /\ run' \in [Dispatchers -> {"none", "active", "leased", "ended"}]
      /\ \A c \in Dispatchers : run'[c] \in {run[c], "none", "ended"}
  BY <1>1, <1>2 DEF EndRun, Types
<1> USE <1>2 DEF EndRun, Others, Moved, Rested, GaveUp, Same, OwnerPcs, Busy
<1>4. Inv'
  BY DEF Inv, Types, Owning, Phases, Spared, Recycling, IsPet, Subjects, ActivatorPcs, OperatorPcs
<1>5. Keeping => Keeping'
  BY Frame DEF Types, Harmless, Subjects, Containers
<1> QED BY <1>4, <1>5

\* A release that is lost frees the lease without the deadline.
LEMMA LoseReleaseKeeps ==
  ASSUME Inv, NEW d \in Dispatchers, LoseRelease(d)
  PROVE  Inv' /\ (Keeping => Keeping')
<1>1. d \in Workers /\ Types
  BY WorkerKinds DEF Inv
<1>2. Others(d) /\ worker' = worker /\ worker' \in [Workers -> WorkerTypes]
  BY <1>1 DEF LoseRelease, Types, Others
<1>3. /\ run' \in [Dispatchers -> {"none", "active", "leased", "ended"}]
      /\ \A c \in Dispatchers : run'[c] \in {run[c], "none", "ended"}
  BY <1>1, <1>2 DEF LoseRelease, Types
<1> USE <1>2 DEF LoseRelease, Others, Moved, Rested, GaveUp, Same, OwnerPcs, Busy
<1>4. Inv'
  BY DEF Inv, Types, Owning, Phases, Spared, Recycling, IsPet, Subjects, ActivatorPcs, OperatorPcs
<1>5. Keeping => Keeping'
  BY Frame DEF Types, Harmless, Subjects, Containers
<1> QED BY <1>4, <1>5

\* Only the deadline changes, and no lease appears.
LEMMA ReleaseLeaseKeeps ==
  ASSUME Inv, NEW d \in Dispatchers, ReleaseLease(d)
  PROVE  Inv' /\ (Keeping => Keeping')
<1>1. d \in Workers /\ Types
  BY WorkerKinds DEF Inv
<1>2. Others(d) /\ worker' = worker /\ worker' \in [Workers -> WorkerTypes]
  BY <1>1 DEF ReleaseLease, Types, Others
<1>3. /\ subject' \in Subjects /\ subject'.kind = subject.kind /\ subject'.status = subject.status
      /\ subject'.op = subject.op
      /\ subject'.claim = subject.claim
      /\ subject'.lapsed = subject.lapsed
  BY <1>1, <1>2 DEF ReleaseLease, Types, Subjects
<1>4. /\ run' \in [Dispatchers -> {"none", "active", "leased", "ended"}]
      /\ \A c \in Dispatchers : run'[c] \in {run[c], "none", "ended"}
  BY <1>1, <1>2, <1>3 DEF ReleaseLease, Types
<1> USE <1>2 DEF ReleaseLease, Others, Moved, Rested, GaveUp, Same, OwnerPcs, Busy
<1>5. Inv'
  BY DEF Inv, Types, Owning, Phases, Spared, Recycling, IsPet, Subjects, ActivatorPcs, OperatorPcs
<1>6. Keeping => Keeping'
  BY Frame DEF Types, Harmless, Subjects, Containers
<1> QED BY <1>5, <1>6

\* Only the deadline changes.
LEMMA RepairDeadlineKeeps ==
  ASSUME Inv, RepairDeadline
  PROVE  Inv' /\ (Keeping => Keeping')
<1>1. Types
  BY DEF Inv
<1>2. Others(NoOwner) /\ worker' = worker /\ worker' \in [Workers -> WorkerTypes]
  BY <1>1 DEF RepairDeadline, Types, Others
<1>3. /\ subject' \in Subjects /\ subject'.kind = subject.kind /\ subject'.status = subject.status
      /\ subject'.op = subject.op
      /\ subject'.claim = subject.claim
      /\ subject'.lapsed = subject.lapsed
  BY <1>1, <1>2 DEF RepairDeadline, Types, Subjects
<1> USE <1>2 DEF RepairDeadline, Others, Moved, Rested, GaveUp, Same, OwnerPcs, Busy
<1>4. Inv'
  BY DEF Inv, Types, Owning, Phases, Spared, Recycling, IsPet, Subjects, ActivatorPcs, OperatorPcs
<1>5. Keeping => Keeping'
  BY Frame DEF Types, Harmless, Subjects, Containers
<1> QED BY <1>4, <1>5

\* A subject falls due while no activation is restoring.
LEMMA DeadlinePassesKeeps ==
  ASSUME Inv, DeadlinePasses
  PROVE  Inv' /\ (Keeping => Keeping')
<1>1. Types
  BY DEF Inv
<1>2. /\ subject' \in Subjects /\ subject'.kind = subject.kind /\ subject'.status = subject.status
      /\ subject'.op = subject.op /\ subject'.claim = subject.claim
      /\ subject'.lapsed = subject.lapsed /\ subject'.error = subject.error
  BY <1>1 DEF DeadlinePasses, Types, Subjects
<1>3. \A a \in Activators : worker[a].pc # "restore"
  BY DEF DeadlinePasses, Activating
<1> USE <1>2, <1>3 DEF DeadlinePasses, Moved, Rested, GaveUp, Same, OwnerPcs, Busy
<1>4. Inv'
  BY DEF Inv, Types, Owning, Phases, Spared, Recycling, IsPet, Subjects, ActivatorPcs, OperatorPcs
<1>5. ASSUME Keeping PROVE Keeping'
  <2>1. ASSUME NEW b \in Activators PROVE Holding(b)'
    BY <1>5
       DEF Inv, Types, Owning, Keeping, Kept, Holding, InOperation, NoneClaiming, NoneReadBefore,
           ActiveIsRestored, Subjects, Containers
  <2> QED
    BY <1>5, <2>1
       DEF Inv, Types, Owning, Spared, Keeping, Kept, IsCattle, Torn, ColdIsTornDown,
           NoneClaiming, NoneReadBefore, Holding, Settled, Saving, ActiveIsRestored, Recycling,
           IsPet, Subjects, Containers, Backups
<1> QED BY <1>4, <1>5

\* A claim lapses only after its owner is idle.
LEMMA ClaimLapsesKeeps ==
  ASSUME Inv, ClaimLapses
  PROVE  Inv' /\ (Keeping => Keeping')
<1>1. Types
  BY DEF Inv
<1>2. /\ subject' \in Subjects /\ subject'.kind = subject.kind /\ subject'.status = subject.status
      /\ subject'.op = subject.op /\ subject'.claim = subject.claim /\ subject'.lapsed
      /\ subject'.deadline = subject.deadline /\ subject'.error = subject.error
  BY <1>1 DEF ClaimLapses, Types, Subjects
<1> USE DEF ClaimLapses, Moved, Rested, GaveUp, Same, OwnerPcs, Busy
<1>3. Inv'
  BY DEF Inv, Types, Owning, Phases, Spared, Recycling, IsPet, Subjects, ActivatorPcs, OperatorPcs
<1>4. ASSUME Keeping PROVE Keeping'
  <2>1. ASSUME NEW b \in Activators PROVE Holding(b)'
    BY <1>4
       DEF Inv, Types, Owning, Keeping, Kept, Holding, InOperation, NoneClaiming, NoneReadBefore,
           ActiveIsRestored, Subjects, Containers
  <2> QED
    BY <1>4, <2>1
       DEF Inv, Types, Owning, Spared, Keeping, Kept, IsCattle, Torn, ColdIsTornDown,
           NoneClaiming, NoneReadBefore, Holding, Settled, Saving, ActiveIsRestored, Recycling,
           IsPet, Subjects, Containers, Backups
<1> QED BY <1>3, <1>4

\* Only the conversations change.
LEMMA ClaimIdleConversationKeeps ==
  ASSUME Inv, NEW m \in Maintainers, ClaimIdleConversation(m)
  PROVE  Inv' /\ (Keeping => Keeping')
<1>1. m \in Workers /\ Types
  BY WorkerKinds DEF Inv
<1>2. Moved(m, "closed")
  BY <1>1, GoFacts, WorkerKinds DEF ClaimIdleConversation, Types, OperatorPcs
<1> USE <1>2, WorkerKinds
        DEF ClaimIdleConversation, Others, Moved, Rested, GaveUp, Same, OwnerPcs, Busy
<1>3. Inv'
  BY DEF Inv, Types, Owning, Phases, Spared, Recycling, IsPet, Subjects, ActivatorPcs, OperatorPcs
<1>4. Keeping => Keeping'
  BY Frame DEF Types, Harmless, Subjects, Containers
<1> QED BY <1>3, <1>4

\* Only the conversations and the deadline change.
LEMMA RecordClosedKeeps ==
  ASSUME Inv, NEW m \in Maintainers, RecordClosed(m)
  PROVE  Inv' /\ (Keeping => Keeping')
<1>1. m \in Workers /\ Types
  BY WorkerKinds DEF Inv
<1>2. Rested(m)
  BY <1>1, RestFacts DEF RecordClosed
<1>3. /\ subject' \in Subjects /\ subject'.kind = subject.kind /\ subject'.status = subject.status
      /\ subject'.op = subject.op
      /\ subject'.claim = subject.claim
      /\ subject'.lapsed = subject.lapsed
  BY <1>1, <1>2 DEF RecordClosed, Types, Subjects
<1> USE <1>2, WorkerKinds DEF RecordClosed, Others, Moved, Rested, GaveUp, Same, OwnerPcs, Busy
<1>4. Inv'
  BY DEF Inv, Types, Owning, Phases, Spared, Recycling, IsPet, Subjects, ActivatorPcs, OperatorPcs
<1>5. Keeping => Keeping'
  BY Frame DEF Types, Harmless, Subjects, Containers
<1> QED BY <1>4, <1>5

\* An active row is claimed, which no activation is restoring.
LEMMA ClaimInactiveKeeps ==
  ASSUME Inv, NEW m \in Maintainers, ClaimInactive(m)
  PROVE  Inv' /\ (Keeping => Keeping')
<1>1. m \in Workers /\ Types
  BY WorkerKinds DEF Inv
<1>2. Moved(m, "begin")
  BY <1>1, GoFacts, WorkerKinds DEF ClaimInactive, Types, OperatorPcs
<1>3. /\ subject' \in Subjects /\ subject'.kind = subject.kind /\ subject'.status = subject.status
      /\ subject'.op = subject.op /\ subject'.claim = m /\ ~subject'.lapsed
  BY <1>1, <1>2 DEF ClaimInactive, Types, Subjects
<1> USE <1>2, <1>3, WorkerKinds
        DEF ClaimInactive, Others, Moved, Rested, GaveUp, Same, OwnerPcs, Busy, ClaimIsFree
<1>4. Inv'
  BY DEF Inv, Types, Owning, Phases, Spared, Recycling, IsPet, Subjects, ActivatorPcs, OperatorPcs
<1>5. ASSUME Keeping PROVE Keeping'
  <2>1. ASSUME NEW b \in Activators PROVE Holding(b)'
    BY <1>5
       DEF Inv, Types, Owning, Keeping, Kept, Holding, InOperation, NoneClaiming, NoneReadBefore,
           ActiveIsRestored, Subjects, Containers
  <2> QED
    BY <1>5, <2>1
       DEF Inv, Types, Owning, Spared, Keeping, Kept, IsCattle, Torn, ColdIsTornDown,
           NoneClaiming, NoneReadBefore, Holding, Settled, Saving, ActiveIsRestored, Recycling,
           IsPet, Subjects, Containers, Backups
<1> QED BY <1>4, <1>5

\* A run that works has a lease, so that no recycle is on.
LEMMA WorkKeeps ==
  ASSUME Inv, NEW d \in Dispatchers, Work(d)
  PROVE  Inv' /\ (Keeping => Keeping')
<1>1. d \in Workers /\ Types
  BY WorkerKinds DEF Inv
<1>2. Others(d) /\ worker' = worker /\ worker' \in [Workers -> WorkerTypes]
  BY <1>1 DEF Work, Types, Others
<1>3. /\ written' \subseteq 1..MaxWrites /\ container' \in Containers
      /\ container'.alive = container.alive /\ container'.torn = container.torn
      /\ container'.overtaken = container.overtaken
      /\ container.files \subseteq container'.files
  BY <1>1, <1>2, NextWrite DEF Work, Types, Containers
<1> USE <1>3 DEF Work, Others, Moved, Rested, GaveUp, Same, OwnerPcs, Busy
<1>4. Inv'
  BY DEF Inv, Types, Owning, Phases, Spared, Recycling, IsPet, Subjects, ActivatorPcs, OperatorPcs
<1>5. ASSUME Keeping PROVE Keeping'
  <2>1. ASSUME NEW b \in Activators PROVE Holding(b)'
    BY <1>5
       DEF Inv, Types, Owning, Keeping, Kept, Holding, InOperation, NoneClaiming, NoneReadBefore,
           ActiveIsRestored, Subjects, Containers
  <2> QED
    BY <1>5, <2>1
       DEF Inv, Types, Owning, Spared, Keeping, Kept, IsCattle, Torn, ColdIsTornDown,
           NoneClaiming, NoneReadBefore, Holding, Settled, Saving, ActiveIsRestored, Recycling,
           IsPet, Subjects, Containers, Backups
<1> QED BY <1>4, <1>5

\* A run or another claim came first: the claim is not touched.
LEMMA BeginRecycleLostKeeps ==
  ASSUME Inv, NEW m \in Maintainers, BeginRecycle(m),
         ~(Holds(m, {"active", "cold"}) /\ ~ActiveRun), subject.claim # m
  PROVE  Inv' /\ (Keeping => Keeping')
<1>1. m \in Workers /\ Types
  BY WorkerKinds DEF Inv
<1>2. Rested(m)
  BY <1>1, RestFacts DEF BeginRecycle
<1>3. UNCHANGED subject
  BY <1>2 DEF BeginRecycle
<1> USE <1>2, WorkerKinds DEF BeginRecycle, Others, Moved, Rested, GaveUp, Same, OwnerPcs, Busy
<1>4. Inv'
  BY DEF Inv, Types, Owning, Phases, Spared, Recycling, IsPet, Subjects, ActivatorPcs, OperatorPcs
<1>5. Keeping => Keeping'
  BY Frame DEF Types, Harmless, Subjects, Containers
<1> QED BY <1>4, <1>5

\* A run came first: the claim is released.
LEMMA BeginRecycleGivenUpKeeps ==
  ASSUME Inv, NEW m \in Maintainers, BeginRecycle(m),
         ~(Holds(m, {"active", "cold"}) /\ ~ActiveRun), subject.claim = m
  PROVE  Inv' /\ (Keeping => Keeping')
<1>1. m \in Workers /\ Types
  BY WorkerKinds DEF Inv
<1>2. subject' = [subject EXCEPT !.claim = NoOwner, !.lapsed = FALSE]
  BY DEF BeginRecycle, Unclaimed
<1>3. Rested(m)
  BY <1>1, <1>2, RestFacts DEF BeginRecycle
<1>4. /\ subject' \in Subjects /\ subject'.kind = subject.kind /\ subject'.status = subject.status
      /\ subject'.op = subject.op /\ subject'.claim = NoOwner /\ ~subject'.lapsed
      /\ subject'.deadline = subject.deadline /\ subject'.error = subject.error
  BY <1>1, <1>2, <1>3 DEF Types, Subjects
<1> USE <1>3, <1>4, WorkerKinds
        DEF BeginRecycle, Others, Moved, Rested, GaveUp, Same, OwnerPcs, Busy
<1>5. Inv'
  BY DEF Inv, Types, Owning, Phases, Spared, Recycling, IsPet, Subjects, ActivatorPcs, OperatorPcs
<1>6. ASSUME Keeping PROVE Keeping'
  <2>1. ASSUME NEW b \in Activators PROVE Holding(b)'
    BY <1>6
       DEF Inv, Types, Owning, Keeping, Kept, Holding, InOperation, NoneClaiming, NoneReadBefore,
           ActiveIsRestored, Subjects, Containers
  <2> QED
    BY <1>6, <2>1
       DEF Inv, Types, Owning, Spared, Keeping, Kept, IsCattle, Torn, ColdIsTornDown,
           NoneClaiming, NoneReadBefore, Holding, Settled, Saving, ActiveIsRestored, Recycling,
           IsPet, Subjects, Containers, Backups
<1> QED BY <1>5, <1>6

\* There is no run, and none that is on its way to a lease, when a recycle begins.
LEMMA BeginRecycleKeeps ==
  ASSUME Inv, NEW m \in Maintainers, BeginRecycle(m), Holds(m, {"active", "cold"}) /\ ~ActiveRun
  PROVE  Inv' /\ (Keeping => Keeping')
<1>1. m \in Workers /\ Types
  BY WorkerKinds DEF Inv
<1>2. subject' = [subject EXCEPT !.status = "backing_up", !.op = m, !.deadline = "none",
                                  !.error = "none",
                                  !.claim = NoOwner, !.lapsed = FALSE]
  BY DEF BeginRecycle, Begun, Unclaimed, Types, Subjects
<1>3. /\ worker' \in [Workers -> WorkerTypes] /\ Others(m) /\ worker'[m].pc = "stop"
      /\ worker'[m].op = m /\ worker'[m].reset = worker[m].reset
  BY <1>1, <1>2 DEF BeginRecycle, Others, Types, WorkerTypes, OperatorPcs
<1>4. /\ subject' \in Subjects /\ subject'.kind = subject.kind /\ subject'.status = "backing_up"
      /\ subject'.op = m /\ subject'.claim = NoOwner /\ ~subject'.lapsed
  BY <1>1, <1>2, <1>3 DEF Types, Subjects
<1> USE <1>3, <1>4, WorkerKinds
        DEF BeginRecycle, Others, Moved, Rested, GaveUp, Same, OwnerPcs, Busy, Holds, ActiveRun
<1>5. Inv'
  BY DEF Inv, Types, Owning, Phases, Spared, Recycling, IsPet, Subjects, ActivatorPcs, OperatorPcs
<1>6. ASSUME Keeping PROVE Keeping'
  <2>1. ASSUME NEW b \in Activators PROVE Holding(b)'
    BY <1>6
       DEF Inv, Types, Owning, Keeping, Kept, Holding, InOperation, NoneClaiming, NoneReadBefore,
           ActiveIsRestored, Subjects, Containers
  <2> QED
    BY <1>6, <2>1
       DEF Inv, Types, Owning, Spared, Keeping, Kept, IsCattle, Torn, ColdIsTornDown,
           NoneClaiming, NoneReadBefore, Holding, Settled, Saving, ActiveIsRestored, Recycling,
           IsPet, Subjects, Containers, Backups
<1> QED BY <1>5, <1>6

\* An API operation is no recycle.
LEMMA BeginOperationKeeps ==
  ASSUME Inv, NEW o \in Operators, NEW reset \in BOOLEAN, BeginOperation(o, reset)
  PROVE  Inv' /\ (Keeping => Keeping')
<1>1. o \in Workers /\ Types
  BY WorkerKinds DEF Inv
<1>2. subject' = [subject EXCEPT !.status = IF reset THEN "destroying" ELSE "backing_up", !.op = o,
                                  !.deadline = "none", !.error = "none", !.claim = NoOwner,
                                  !.lapsed = FALSE]
  BY DEF BeginOperation, Begun, Unclaimed, Types, Subjects
<1>3. /\ worker' = [worker EXCEPT ![o] = worker'[o]]
      /\ worker'[o] = [worker[o] EXCEPT !.pc = "stop", !.op = o, !.reset = reset, !.destroys = reset]
  BY <1>1, <1>2 DEF BeginOperation, Types
<1>4. worker[o] \in WorkerTypes /\ reset \in BOOLEAN
  BY <1>1, <1>2, <1>3 DEF Types
<1>5. worker'[o] \in WorkerTypes
  BY <1>1, <1>2, <1>3, <1>4 DEF WorkerTypes, OperatorPcs
<1>6. /\ worker' \in [Workers -> WorkerTypes]
      /\ Others(o)
      /\ worker'[o].pc = "stop"
      /\ worker'[o].op = o
  BY <1>1, <1>2, <1>3, <1>4, <1>5 DEF Others, Types
<1>7. /\ subject' \in Subjects
      /\ subject'.kind = subject.kind
      /\ subject'.status = (IF reset THEN "destroying" ELSE "backing_up")
      /\ subject'.op = o /\ subject'.claim = NoOwner /\ ~subject'.lapsed
  BY <1>1, <1>2, <1>3, <1>4, <1>5, <1>6 DEF Types, Subjects
<1> USE <1>6, <1>7, WorkerKinds
        DEF BeginOperation, Others, Moved, Rested, GaveUp, Same, OwnerPcs, Busy
<1>8. Inv'
  BY DEF Inv, Types, Owning, Phases, Spared, Recycling, IsPet, Subjects, ActivatorPcs, OperatorPcs
<1>9. ASSUME Keeping PROVE Keeping'
  <2>1. ASSUME NEW b \in Activators PROVE Holding(b)'
    BY <1>9
       DEF Inv, Types, Owning, Keeping, Kept, Holding, InOperation, NoneClaiming, NoneReadBefore,
           ActiveIsRestored, Subjects, Containers
  <2> QED
    BY <1>9, <2>1
       DEF Inv, Types, Owning, Spared, Keeping, Kept, IsCattle, Torn, ColdIsTornDown,
           NoneClaiming, NoneReadBefore, Holding, Settled, Saving, ActiveIsRestored, Recycling,
           IsPet, Subjects, Containers, Backups
<1> QED BY <1>8, <1>9

\* Nobody else is between two steps of the operation that is resumed.
LEMMA ResumeKeeps ==
  ASSUME Inv, NEW m \in Maintainers, Resume(m)
  PROVE  Inv' /\ (Keeping => Keeping')
<1>1. m \in Workers /\ Types
  BY WorkerKinds DEF Inv
<1>2. /\ worker' = [worker EXCEPT ![m] = worker'[m]]
      /\ worker'[m] = [worker[m] EXCEPT !.pc = IF subject.status = "destroying" THEN "destroy" ELSE "stop",
                                       !.op = subject.op, !.destroys = (subject.status = "destroying")]
  BY <1>1 DEF Resume, Types
<1>3. (subject.status = "destroying") \in BOOLEAN /\ subject.op \in Workers \cup {NoOwner}
  BY <1>1, <1>2 DEF Types, Subjects
<1>4. worker[m] \in WorkerTypes
  BY <1>1, <1>2, <1>3 DEF Types
<1>5. worker'[m] \in WorkerTypes
  BY <1>2, <1>3, <1>4 DEF WorkerTypes, OperatorPcs
<1>6. /\ worker' \in [Workers -> WorkerTypes] /\ Others(m) /\ worker'[m].op = subject.op
      /\ worker'[m].pc = (IF subject.status = "destroying" THEN "destroy" ELSE "stop")
      /\ worker'[m].reset = worker[m].reset
  BY <1>1, <1>2, <1>3, <1>4, <1>5 DEF Others, Types, WorkerTypes
<1> USE <1>6, WorkerKinds
        DEF Resume, Others, Moved, Rested, GaveUp, Same, OwnerPcs, Busy, LeftBehind
<1>7. Inv'
  BY DEF Inv, Types, Owning, Phases, Spared, Recycling, IsPet, Subjects, ActivatorPcs, OperatorPcs
<1>8. ASSUME Keeping PROVE Keeping'
  <2>1. ASSUME NEW b \in Activators PROVE Holding(b)'
    BY <1>8
       DEF Inv, Types, Owning, Keeping, Kept, Holding, InOperation, NoneClaiming, NoneReadBefore,
           ActiveIsRestored, Subjects, Containers
  <2> QED
    BY <1>8, <2>1
       DEF Inv, Types, Owning, Spared, Keeping, Kept, IsCattle, Torn, ColdIsTornDown,
           NoneClaiming, NoneReadBefore, Holding, Settled, Saving, ActiveIsRestored, Recycling,
           IsPet, Subjects, Containers, Backups
<1> QED BY <1>7, <1>8

\* Leases go, none comes.
LEMMA StopDriversKeeps ==
  ASSUME Inv, NEW w \in Maintainers \cup Operators, StopDrivers(w)
  PROVE  Inv' /\ (Keeping => Keeping')
<1>1. w \in Workers /\ Types
  BY WorkerKinds DEF Inv
<1>2. Moved(w, IF worker[w].reset THEN "clear" ELSE "checkpoint")
  BY <1>1, GoFacts, WorkerKinds DEF StopDrivers, Types, OperatorPcs
<1>3. /\ run' \in [Dispatchers -> {"none", "active", "leased", "ended"}]
      /\ \A c \in Dispatchers : run'[c] \in {run[c], "none", "ended"}
  BY <1>1, <1>2 DEF StopDrivers, Types
<1> USE <1>2, WorkerKinds DEF StopDrivers, Others, Moved, Rested, GaveUp, Same, OwnerPcs, Busy
<1>4. Inv'
  BY DEF Inv, Types, Owning, Phases, Spared, Recycling, IsPet, Subjects, ActivatorPcs, OperatorPcs
<1>5. ASSUME Keeping PROVE Keeping'
  <2>1. ASSUME NEW b \in Activators PROVE Holding(b)'
    BY <1>5
       DEF Inv, Types, Owning, Keeping, Kept, Holding, InOperation, NoneClaiming, NoneReadBefore,
           ActiveIsRestored, Subjects, Containers
  <2> QED
    BY <1>5, <2>1
       DEF Inv, Types, Owning, Spared, Keeping, Kept, IsCattle, Torn, ColdIsTornDown,
           NoneClaiming, NoneReadBefore, Holding, Settled, Saving, ActiveIsRestored, Recycling,
           IsPet, Subjects, Containers, Backups
<1> QED BY <1>4, <1>5

\* Leases may go, none comes.
LEMMA StopFailsKeeps ==
  ASSUME Inv, NEW w \in Maintainers \cup Operators, StopFails(w)
  PROVE  Inv' /\ (Keeping => Keeping')
<1>1. w \in Workers /\ Types
  BY WorkerKinds DEF Inv
<1>2. Moved(w, "repair")
  BY <1>1, GoFacts, WorkerKinds DEF StopFails, Types, OperatorPcs
<1>3. /\ run' \in [Dispatchers -> {"none", "active", "leased", "ended"}]
      /\ \A c \in Dispatchers : run'[c] \in {run[c], "none"}
      /\ worker[w].pc = "stop" /\ UNCHANGED <<subject, container, backup, open, written>>
  BY <1>1, <1>2 DEF StopFails, Types
<1> USE <1>2, <1>3, WorkerKinds DEF Others, Moved, Rested, GaveUp, Same, OwnerPcs, Busy
<1>4. Inv'
  BY DEF Inv, Types, Owning, Phases, Spared, Recycling, IsPet, Subjects, ActivatorPcs, OperatorPcs
<1>5. ASSUME Keeping PROVE Keeping'
  <2>1. ASSUME NEW b \in Activators PROVE Holding(b)'
    BY <1>5
       DEF Inv, Types, Owning, Keeping, Kept, Holding, InOperation, NoneClaiming, NoneReadBefore,
           ActiveIsRestored, Subjects, Containers
  <2> QED
    BY <1>5, <2>1
       DEF Inv, Types, Owning, Spared, Keeping, Kept, IsCattle, Torn, ColdIsTornDown,
           NoneClaiming, NoneReadBefore, Holding, Settled, Saving, ActiveIsRestored, Recycling,
           IsPet, Subjects, Containers, Backups
<1> QED BY <1>4, <1>5

\* Files are cleared by a reset only, which is no recycle.
LEMMA ClearStateKeeps ==
  ASSUME Inv, NEW w \in Maintainers \cup Operators, ClearState(w)
  PROVE  Inv' /\ (Keeping => Keeping')
<1>1. w \in Workers /\ Types
  BY WorkerKinds DEF Inv
<1>2. Moved(w, "checkpoint")
  BY <1>1, GoFacts, WorkerKinds DEF ClearState, Types, OperatorPcs
<1>3. /\ container' \in Containers
      /\ container'.alive
      /\ container'.files = {}
      /\ container'.torn = container.torn
  BY <1>1, <1>2 DEF ClearState, Started, Types, Containers
<1> USE <1>2, <1>3, WorkerKinds
        DEF ClearState, Others, Moved, Rested, GaveUp, Same, OwnerPcs, Busy
<1>4. Inv'
  BY DEF Inv, Types, Owning, Phases, Spared, Recycling, IsPet, Subjects, ActivatorPcs, OperatorPcs
<1>5. ASSUME Keeping PROVE Keeping'
  <2>1. ASSUME NEW b \in Activators PROVE Holding(b)'
    BY <1>5
       DEF Inv, Types, Owning, Keeping, Kept, Holding, InOperation, NoneClaiming, NoneReadBefore,
           ActiveIsRestored, Subjects, Containers
  <2> QED
    BY <1>5, <2>1
       DEF Inv, Types, Owning, Spared, Keeping, Kept, IsCattle, Torn, ColdIsTornDown,
           NoneClaiming, NoneReadBefore, Holding, Settled, Saving, ActiveIsRestored, Recycling,
           IsPet, Subjects, Containers, Backups
<1> QED BY <1>4, <1>5

\* A cattle subject has no checkpoint.
LEMMA CheckpointCattleKeeps ==
  ASSUME Inv, NEW w \in Maintainers \cup Operators, Checkpoint(w), IsCattle
  PROVE  Inv' /\ (Keeping => Keeping')
<1>1. w \in Workers /\ Types
  BY WorkerKinds DEF Inv
<1>2. Moved(w, "advance")
  BY <1>1, GoFacts, WorkerKinds DEF Checkpoint, Types, OperatorPcs
<1>3. UNCHANGED container
  BY <1>2 DEF Checkpoint
<1> USE <1>2, WorkerKinds
        DEF Checkpoint, Others, Moved, Rested, GaveUp, Same, OwnerPcs, Busy, IsCattle
<1>4. Inv'
  BY DEF Inv, Types, Owning, Phases, Spared, Recycling, IsPet, Subjects, ActivatorPcs, OperatorPcs
<1>5. ASSUME Keeping PROVE Keeping'
  <2>1. ASSUME NEW b \in Activators PROVE Holding(b)'
    BY <1>5
       DEF Inv, Types, Owning, Keeping, Kept, Holding, InOperation, NoneClaiming, NoneReadBefore,
           ActiveIsRestored, Subjects, Containers
  <2> QED
    BY <1>5, <2>1
       DEF Inv, Types, Owning, Spared, Keeping, Kept, IsCattle, Torn, ColdIsTornDown,
           NoneClaiming, NoneReadBefore, Holding, Settled, Saving, ActiveIsRestored, Recycling,
           IsPet, Subjects, Containers, Backups
<1> QED BY <1>4, <1>5

\* A reset has no checkpoint.
LEMMA CheckpointResetKeeps ==
  ASSUME Inv, NEW w \in Maintainers \cup Operators, Checkpoint(w), ~IsCattle, worker[w].reset
  PROVE  Inv' /\ (Keeping => Keeping')
<1>1. w \in Workers /\ Types
  BY WorkerKinds DEF Inv
<1>2. Moved(w, "destroy")
  BY <1>1, GoFacts, WorkerKinds DEF Checkpoint, Types, OperatorPcs
<1>3. /\ container' \in Containers /\ container'.files = container.files
      /\ container'.torn = container.torn /\ (container.alive => container'.alive)
      /\ container'.overtaken = container.overtaken
  BY <1>1, <1>2 DEF Checkpoint, Started, Types, Containers
<1> USE <1>2, <1>3, WorkerKinds
        DEF Checkpoint, Others, Moved, Rested, GaveUp, Same, OwnerPcs, Busy
<1>4. Inv'
  BY DEF Inv, Types, Owning, Phases, Spared, Recycling, IsPet, Subjects, ActivatorPcs, OperatorPcs
<1>5. ASSUME Keeping PROVE Keeping'
  <2>1. ASSUME NEW b \in Activators PROVE Holding(b)'
    BY <1>5
       DEF Inv, Types, Owning, Keeping, Kept, Holding, InOperation, NoneClaiming, NoneReadBefore,
           ActiveIsRestored, Subjects, Containers
  <2> QED
    BY <1>5, <2>1
       DEF Inv, Types, Owning, Spared, Keeping, Kept, IsCattle, Torn, ColdIsTornDown,
           NoneClaiming, NoneReadBefore, Holding, Settled, Saving, ActiveIsRestored, Recycling,
           IsPet, Subjects, Containers, Backups
<1> QED BY <1>4, <1>5

\* The checkpoint holds the files of the container.
LEMMA CheckpointKeeps ==
  ASSUME Inv, NEW w \in Maintainers \cup Operators, Checkpoint(w), ~IsCattle, ~worker[w].reset
  PROVE  Inv' /\ (Keeping => Keeping')
<1>1. w \in Workers /\ Types
  BY WorkerKinds DEF Inv
<1>2. Saved \in Backups /\ Saved.ready /\ Saved.files = container.files
  BY <1>1 DEF Saved, Types, Containers, Backups
<1>3. /\ worker' = [worker EXCEPT ![w] = worker'[w]] /\ worker[w] \in WorkerTypes
      /\ worker'[w] = [worker[w] EXCEPT !.pc = "record", !.copy = Saved]
  BY <1>1, <1>2 DEF Checkpoint, Saved, Types
<1>4. worker'[w] \in WorkerTypes
  BY <1>2, <1>3 DEF WorkerTypes, OperatorPcs
<1>5. /\ worker' \in [Workers -> WorkerTypes] /\ Others(w) /\ worker'[w].pc = "record"
      /\ worker'[w].op = worker[w].op /\ worker'[w].reset = worker[w].reset
      /\ worker'[w].copy.ready /\ worker'[w].copy.files = container.files
  BY <1>1, <1>2, <1>3, <1>4 DEF Others, Types, WorkerTypes
<1>6. /\ container' \in Containers /\ container'.files = container.files
      /\ container'.torn = container.torn /\ (container.alive => container'.alive)
      /\ container'.overtaken = container.overtaken
      /\ worker[w].pc = "checkpoint" /\ UNCHANGED <<subject, backup, open, run, written>>
  BY <1>1, <1>2, <1>3, <1>4, <1>5 DEF Checkpoint, Started, Types, Containers
<1> USE <1>5, <1>6, WorkerKinds DEF Others, Moved, Rested, GaveUp, Same, OwnerPcs, Busy
<1>7. Inv'
  BY DEF Inv, Types, Owning, Phases, Spared, Recycling, IsPet, Subjects, ActivatorPcs, OperatorPcs
<1>8. ASSUME Keeping PROVE Keeping'
  <2>1. ASSUME NEW b \in Activators PROVE Holding(b)'
    BY <1>8
       DEF Inv, Types, Owning, Keeping, Kept, Holding, InOperation, NoneClaiming, NoneReadBefore,
           ActiveIsRestored, Subjects, Containers
  <2> QED
    BY <1>8, <2>1
       DEF Inv, Types, Owning, Spared, Keeping, Kept, IsCattle, Torn, ColdIsTornDown,
           NoneClaiming, NoneReadBefore, Holding, Settled, Saving, ActiveIsRestored, Recycling,
           IsPet, Subjects, Containers, Backups
<1> QED BY <1>7, <1>8

\* The container may have started, nothing else.
LEMMA CheckpointFailsKeeps ==
  ASSUME Inv, NEW w \in Maintainers \cup Operators, CheckpointFails(w)
  PROVE  Inv' /\ (Keeping => Keeping')
<1>1. w \in Workers /\ Types
  BY WorkerKinds DEF Inv
<1>2. Moved(w, "repair")
  BY <1>1, GoFacts, WorkerKinds DEF CheckpointFails, Types, OperatorPcs
<1>3. /\ container' \in Containers /\ container'.files = container.files
      /\ container'.torn = container.torn /\ (container.alive => container'.alive)
      /\ container'.overtaken = container.overtaken
  BY <1>1, <1>2 DEF CheckpointFails, MayHave, Started, Types, Containers
<1> USE <1>2, <1>3, WorkerKinds
        DEF CheckpointFails, Others, Moved, Rested, GaveUp, Same, OwnerPcs, Busy
<1>4. Inv'
  BY DEF Inv, Types, Owning, Phases, Spared, Recycling, IsPet, Subjects, ActivatorPcs, OperatorPcs
<1>5. ASSUME Keeping PROVE Keeping'
  <2>1. ASSUME NEW b \in Activators PROVE Holding(b)'
    BY <1>5
       DEF Inv, Types, Owning, Keeping, Kept, Holding, InOperation, NoneClaiming, NoneReadBefore,
           ActiveIsRestored, Subjects, Containers
  <2> QED
    BY <1>5, <2>1
       DEF Inv, Types, Owning, Spared, Keeping, Kept, IsCattle, Torn, ColdIsTornDown,
           NoneClaiming, NoneReadBefore, Holding, Settled, Saving, ActiveIsRestored, Recycling,
           IsPet, Subjects, Containers, Backups
<1> QED BY <1>4, <1>5

\* The row names the checkpoint; who read the row before is not through before the end.
LEMMA RecordBackupKeeps ==
  ASSUME Inv, NEW w \in Maintainers \cup Operators, RecordBackup(w)
  PROVE  Inv' /\ (Keeping => Keeping')
<1>1. w \in Workers /\ Types
  BY WorkerKinds DEF Inv
<1>2. Owns(w, {"backing_up", "destroying"}) /\ NoBackup \in Backups
  BY <1>1 DEF Inv, Owning, Owns, RecordBackup, OwnerPcs, Busy, NoBackup, Backups
<1>3. /\ worker' = [worker EXCEPT ![w] = worker'[w]]
      /\ worker'[w] = [worker[w] EXCEPT !.pc = "advance", !.copy = NoBackup]
  BY <1>1, <1>2 DEF RecordBackup, Types
<1>4. worker[w] \in WorkerTypes
  BY <1>1, <1>2, <1>3 DEF Types
<1>5. worker'[w] \in WorkerTypes
  BY <1>2, <1>3, <1>4 DEF WorkerTypes, OperatorPcs
<1>6. /\ worker' \in [Workers -> WorkerTypes] /\ Others(w) /\ worker'[w].pc = "advance"
      /\ worker'[w].op = worker[w].op /\ worker'[w].reset = worker[w].reset
  BY <1>1, <1>2, <1>3, <1>4, <1>5 DEF Others, Types
<1>7. backup' = worker[w].copy /\ backup' \in Backups
  BY <1>2, <1>3, <1>4, <1>5, <1>6 DEF RecordBackup, Types, WorkerTypes
<1> USE <1>6, <1>7, WorkerKinds
        DEF RecordBackup, Others, Moved, Rested, GaveUp, Same, OwnerPcs, Busy
<1>8. Inv'
  BY DEF Inv, Types, Owning, Phases, Spared, Recycling, IsPet, Subjects, ActivatorPcs, OperatorPcs
<1>9. ASSUME Keeping PROVE Keeping'
  <2>1. ASSUME NEW b \in Activators PROVE Holding(b)'
    BY <1>9
       DEF Inv, Types, Owning, Keeping, Kept, Holding, InOperation, NoneClaiming, NoneReadBefore,
           ActiveIsRestored, Subjects, Containers
  <2> QED
    BY <1>9, <2>1
       DEF Inv, Types, Owning, Spared, Keeping, Kept, IsCattle, Torn, ColdIsTornDown,
           NoneClaiming, NoneReadBefore, Holding, Settled, Saving, ActiveIsRestored, Recycling,
           IsPet, Subjects, Containers, Backups
<1> QED BY <1>8, <1>9

\* The destroying phase starts with the files saved.
LEMMA AdvanceKeeps ==
  ASSUME Inv, NEW w \in Maintainers \cup Operators, Advance(w)
  PROVE  Inv' /\ (Keeping => Keeping')
<1>1. w \in Workers /\ Types
  BY WorkerKinds DEF Inv
<1>2. Owns(w, {"backing_up"})
  BY <1>1 DEF Inv, Owning, Phases, Owns, Advance, OwnerPcs
<1>3. /\ subject' = [subject EXCEPT !.status = "destroying"]
      /\ worker' = [worker EXCEPT ![w].pc = "destroy", ![w].destroys = TRUE]
  BY <1>2 DEF Advance
<1>4. /\ worker' \in [Workers -> WorkerTypes] /\ Others(w) /\ worker'[w].pc = "destroy"
      /\ worker'[w].op = worker[w].op /\ worker'[w].reset = worker[w].reset
  BY <1>1, <1>2, <1>3 DEF Others, Types, WorkerTypes, OperatorPcs
<1>5. /\ subject' \in Subjects /\ subject'.kind = subject.kind /\ subject'.status = "destroying"
      /\ subject'.op = subject.op
      /\ subject'.claim = subject.claim
      /\ subject'.lapsed = subject.lapsed
  BY <1>1, <1>2, <1>3, <1>4 DEF Types, Subjects
<1> USE <1>4, WorkerKinds DEF Advance, Others, Moved, Rested, GaveUp, Same, OwnerPcs, Busy, Owns
<1>6. Inv'
  BY DEF Inv, Types, Owning, Phases, Spared, Recycling, IsPet, Subjects, ActivatorPcs, OperatorPcs
<1>7. ASSUME Keeping PROVE Keeping'
  <2>1. ASSUME NEW b \in Activators PROVE Holding(b)'
    BY <1>7
       DEF Inv, Types, Owning, Keeping, Kept, Holding, InOperation, NoneClaiming, NoneReadBefore,
           ActiveIsRestored, Subjects, Containers
  <2> QED
    BY <1>7, <2>1
       DEF Inv, Types, Owning, Spared, Keeping, Kept, IsCattle, Torn, ColdIsTornDown,
           NoneClaiming, NoneReadBefore, Holding, Settled, Saving, ActiveIsRestored, Recycling,
           IsPet, Subjects, Containers, Backups
<1> QED BY <1>6, <1>7

\* The container goes; no activation has read the row before.
LEMMA DestroyKeeps ==
  ASSUME Inv, NEW w \in Maintainers \cup Operators, Destroy(w)
  PROVE  Inv' /\ (Keeping => Keeping')
<1>1. w \in Workers /\ Types
  BY WorkerKinds DEF Inv
<1>2. Moved(w, "close")
  BY <1>1, GoFacts, WorkerKinds DEF Destroy, Types, OperatorPcs
<1>3. container' \in Containers
  BY <1>2 DEF Destroy, Gone, Containers
<1> USE <1>2, <1>3, WorkerKinds
        DEF Destroy, Others, Moved, Rested, GaveUp, Same, OwnerPcs, Busy, Gone
<1>4. Inv'
  BY DEF Inv, Types, Owning, Phases, Spared, Recycling, IsPet, Subjects, ActivatorPcs, OperatorPcs
<1>5. ASSUME Keeping PROVE Keeping'
  <2>1. ASSUME NEW b \in Activators PROVE Holding(b)'
    BY <1>5
       DEF Inv, Types, Owning, Keeping, Kept, Holding, InOperation, NoneClaiming, NoneReadBefore,
           ActiveIsRestored, Subjects, Containers
  <2> QED
    BY <1>5, <2>1
       DEF Inv, Types, Owning, Spared, Keeping, Kept, IsCattle, Torn, ColdIsTornDown,
           NoneClaiming, NoneReadBefore, Holding, Settled, Saving, ActiveIsRestored, Recycling,
           IsPet, Subjects, Containers, Backups
<1> QED BY <1>4, <1>5

\* The container may have gone.
LEMMA DestroyFailsKeeps ==
  ASSUME Inv, NEW w \in Maintainers \cup Operators, DestroyFails(w)
  PROVE  Inv' /\ (Keeping => Keeping')
<1>1. w \in Workers /\ Types
  BY WorkerKinds DEF Inv
<1>2. container' = container \/ container' = Gone
  BY DEF DestroyFails, MayHave
<1>3. Gone \in Containers /\ Gone.torn /\ Gone.files = {}
  BY <1>2 DEF Gone, Containers
<1>4. Moved(w, "repair")
  BY <1>1, <1>2, <1>3, GoFacts, WorkerKinds DEF DestroyFails, Types, OperatorPcs
<1>5. /\ container' \in Containers
      /\ (container' = container \/ (container'.torn /\ container'.files = {}))
  BY <1>1, <1>2, <1>3, <1>4 DEF Types
<1> USE <1>4, <1>5, WorkerKinds
        DEF DestroyFails, Others, Moved, Rested, GaveUp, Same, OwnerPcs, Busy
<1>6. Inv'
  BY DEF Inv, Types, Owning, Phases, Spared, Recycling, IsPet, Subjects, ActivatorPcs, OperatorPcs
<1>7. ASSUME Keeping PROVE Keeping'
  <2>1. ASSUME NEW b \in Activators PROVE Holding(b)'
    BY <1>7
       DEF Inv, Types, Owning, Keeping, Kept, Holding, InOperation, NoneClaiming, NoneReadBefore,
           ActiveIsRestored, Subjects, Containers
  <2> QED
    BY <1>7, <2>1
       DEF Inv, Types, Owning, Spared, Keeping, Kept, IsCattle, Torn, ColdIsTornDown,
           NoneClaiming, NoneReadBefore, Holding, Settled, Saving, ActiveIsRestored, Recycling,
           IsPet, Subjects, Containers, Backups
<1> QED BY <1>6, <1>7

\* Only the conversations change.
LEMMA CloseConversationsKeeps ==
  ASSUME Inv, NEW w \in Maintainers \cup Operators, CloseConversations(w)
  PROVE  Inv' /\ (Keeping => Keeping')
<1>1. w \in Workers /\ Types
  BY WorkerKinds DEF Inv
<1>2. Moved(w, "cold")
  BY <1>1, GoFacts, WorkerKinds DEF CloseConversations, Types, OperatorPcs
<1> USE <1>2, WorkerKinds
        DEF CloseConversations, Others, Moved, Rested, GaveUp, Same, OwnerPcs, Busy
<1>3. Inv'
  BY DEF Inv, Types, Owning, Phases, Spared, Recycling, IsPet, Subjects, ActivatorPcs, OperatorPcs
<1>4. ASSUME Keeping PROVE Keeping'
  <2>1. ASSUME NEW b \in Activators PROVE Holding(b)'
    BY <1>4
       DEF Inv, Types, Owning, Keeping, Kept, Holding, InOperation, NoneClaiming, NoneReadBefore,
           ActiveIsRestored, Subjects, Containers
  <2> QED
    BY <1>4, <2>1
       DEF Inv, Types, Owning, Spared, Keeping, Kept, IsCattle, Torn, ColdIsTornDown,
           NoneClaiming, NoneReadBefore, Holding, Settled, Saving, ActiveIsRestored, Recycling,
           IsPet, Subjects, Containers, Backups
<1> QED BY <1>3, <1>4

\* Cold after the teardown, with the checkpoint of the row or, after a reset, none.
LEMMA MarkColdKeeps ==
  ASSUME Inv, NEW w \in Maintainers \cup Operators, MarkCold(w)
  PROVE  Inv' /\ (Keeping => Keeping')
<1>1. w \in Workers /\ Types
  BY WorkerKinds DEF Inv
<1>2. Owns(w, {"destroying"}) /\ worker[w].pc = "cold"
  BY <1>1 DEF Inv, Owning, Phases, Owns, MarkCold, OwnerPcs
<1>3. backup' = IF worker[w].reset THEN NoBackup ELSE backup
  BY <1>2 DEF MarkCold
<1>4. subject' = [subject EXCEPT !.status = "cold", !.deadline = "none", !.error = "none",
                                  !.claim = NoOwner, !.lapsed = FALSE]
  BY <1>2, <1>3 DEF MarkCold, Unclaimed, Types, Subjects
<1>5. /\ worker' \in [Workers -> WorkerTypes] /\ Others(w) /\ (worker'[w].reset => worker[w].reset)
      /\ worker'[w].pc = IF w \in Operators THEN "done" ELSE "idle" 
  BY <1>1, <1>2, <1>3, <1>4, GoFacts, RestFacts, WorkerKinds
     DEF MarkCold, OperatorPcs, Moved, Rested, Same
<1>6. /\ subject' \in Subjects /\ subject'.kind = subject.kind /\ subject'.status = "cold"
      /\ subject'.op = subject.op /\ subject'.claim = NoOwner /\ ~subject'.lapsed
  BY <1>1, <1>2, <1>3, <1>4, <1>5 DEF Types, Subjects
<1>7. /\ backup' \in Backups /\ (backup' = backup \/ backup'.files = {})
      /\ Kept => (~backup'.ready => backup'.files = {}) /\ (IsCattle => backup' = NoBackup)
      /\ container' = container /\ open' = open /\ run' = run /\ written' = written
  BY <1>1, <1>2, <1>3, <1>4, <1>5, <1>6 DEF MarkCold, NoBackup, Types, Backups, Kept
<1> USE <1>2, <1>5, <1>6, <1>7, WorkerKinds
        DEF Others, Moved, Rested, GaveUp, Same, OwnerPcs, Busy
<1>8. Inv'
  BY DEF Inv, Types, Owning, Phases, Spared, Recycling, IsPet, Subjects, ActivatorPcs, OperatorPcs
<1>9. ASSUME Keeping PROVE Keeping'
  <2>1. ASSUME NEW b \in Activators PROVE Holding(b)'
    BY <1>9
       DEF Inv, Types, Owning, Keeping, Kept, Holding, InOperation, NoneClaiming, NoneReadBefore,
           ActiveIsRestored, Subjects, Containers
  <2> QED
    BY <1>9, <2>1
       DEF Inv, Types, Owning, Spared, Keeping, Kept, IsCattle, Torn, ColdIsTornDown,
           NoneClaiming, NoneReadBefore, Holding, Settled, Saving, ActiveIsRestored, Recycling,
           IsPet, Subjects, Containers, Backups
<1> QED BY <1>8, <1>9

\* The phase stays for maintenance to resume.
LEMMA AfterErrorOfRecycleKeeps ==
  ASSUME Inv, NEW w \in Maintainers \cup Operators, AfterError(w), w \notin Operators
  PROVE  Inv' /\ (Keeping => Keeping')
<1>1. w \in Workers /\ Types
  BY WorkerKinds DEF Inv
<1>2. Rested(w)
  BY <1>1, RestFacts DEF AfterError
<1>3. /\ subject' \in Subjects /\ subject'.kind = subject.kind /\ subject'.status = subject.status
      /\ subject'.op = subject.op /\ subject'.claim \in {subject.claim, NoOwner}
      /\ subject'.lapsed => subject.lapsed
      /\ subject'.deadline = subject.deadline /\ worker[w].pc = "repair"
      /\ UNCHANGED <<container, backup, open, run, written>>
  BY <1>1, <1>2 DEF AfterError, Unclaimed, Types, Subjects
<1> USE <1>2, <1>3, WorkerKinds DEF Others, Moved, Rested, GaveUp, Same, OwnerPcs, Busy
<1>4. Inv'
  BY DEF Inv, Types, Owning, Phases, Spared, Recycling, IsPet, Subjects, ActivatorPcs, OperatorPcs
<1>5. ASSUME Keeping PROVE Keeping'
  <2>1. ASSUME NEW b \in Activators PROVE Holding(b)'
    BY <1>5
       DEF Inv, Types, Owning, Keeping, Kept, Holding, InOperation, NoneClaiming, NoneReadBefore,
           ActiveIsRestored, Subjects, Containers
  <2> QED
    BY <1>5, <2>1
       DEF Inv, Types, Owning, Spared, Keeping, Kept, IsCattle, Torn, ColdIsTornDown,
           NoneClaiming, NoneReadBefore, Holding, Settled, Saving, ActiveIsRestored, Recycling,
           IsPet, Subjects, Containers, Backups
<1> QED BY <1>4, <1>5

\* The row is not the operation's any more.
LEMMA AfterErrorLostKeeps ==
  ASSUME Inv, NEW w \in Maintainers \cup Operators, AfterError(w), w \in Operators,
         ~Owns(w, {IF worker[w].destroys THEN "destroying" ELSE "backing_up"})
  PROVE  Inv' /\ (Keeping => Keeping')
<1>1. w \in Workers /\ Types
  BY WorkerKinds DEF Inv
<1>2. Moved(w, "done")
  BY <1>1, GoFacts, WorkerKinds DEF AfterError, Types, OperatorPcs
<1>3. UNCHANGED subject
  BY <1>2 DEF AfterError
<1> USE <1>2, WorkerKinds DEF AfterError, Others, Moved, Rested, GaveUp, Same, OwnerPcs, Busy
<1>4. Inv'
  BY DEF Inv, Types, Owning, Phases, Spared, Recycling, IsPet, Subjects, ActivatorPcs, OperatorPcs
<1>5. Keeping => Keeping'
  BY Frame DEF Types, Harmless, Subjects, Containers
<1> QED BY <1>4, <1>5

\* What an API operation gives back as cold is excepted.
LEMMA AfterErrorKeeps ==
  ASSUME Inv, NEW w \in Maintainers \cup Operators, AfterError(w), w \in Operators,
         Owns(w, {IF worker[w].destroys THEN "destroying" ELSE "backing_up"})
  PROVE  Inv' /\ (Keeping => Keeping')
<1>1. w \in Workers /\ Types
  BY WorkerKinds DEF Inv
<1>2. subject' = [subject EXCEPT !.status = "cold", !.error = "other", !.claim = NoOwner,
                                  !.lapsed = FALSE]
  BY DEF AfterError, Unclaimed, Types, Subjects
<1>3. Moved(w, "done")
  BY <1>1, <1>2, GoFacts, WorkerKinds DEF AfterError, Types, OperatorPcs
<1>4. /\ subject' \in Subjects /\ subject'.kind = subject.kind /\ subject'.status = "cold"
      /\ subject'.op = subject.op /\ subject'.claim = NoOwner /\ ~subject'.lapsed
  BY <1>1, <1>2, <1>3 DEF Types, Subjects
<1> USE <1>3, <1>4, WorkerKinds
        DEF AfterError, Others, Moved, Rested, GaveUp, Same, OwnerPcs, Busy
<1>5. Inv'
  BY DEF Inv, Types, Owning, Phases, Spared, Recycling, IsPet, Subjects, ActivatorPcs, OperatorPcs
<1>6. ASSUME Keeping PROVE Keeping'
  <2>1. ASSUME NEW b \in Activators PROVE Holding(b)'
    BY <1>6
       DEF Inv, Types, Owning, Keeping, Kept, Holding, InOperation, NoneClaiming, NoneReadBefore,
           ActiveIsRestored, Subjects, Containers
  <2> QED
    BY <1>6, <2>1
       DEF Inv, Types, Owning, Spared, Keeping, Kept, IsCattle, Torn, ColdIsTornDown,
           NoneClaiming, NoneReadBefore, Holding, Settled, Saving, ActiveIsRestored, Recycling,
           IsPet, Subjects, Containers, Backups
<1> QED BY <1>5, <1>6

\* An execution that is lost forgets.
LEMMA LoseKeeps ==
  ASSUME Inv, NEW w \in Workers, Lose(w)
  PROVE  Inv' /\ (Keeping => Keeping')
<1>1. w \in Workers /\ Types
  BY DEF Inv
<1>2. IdleWorker \in WorkerTypes /\ [IdleWorker EXCEPT !.pc = "done"] \in WorkerTypes
  BY DEF IdleWorker, WorkerTypes, NoBackup, Backups, ActivatorPcs, OperatorPcs
<1>3. /\ worker' \in [Workers -> WorkerTypes] /\ Others(w) /\ ~worker'[w].reset
      /\ worker'[w].pc = IF w \in Operators THEN "done" ELSE "idle" 
  BY <1>1, <1>2 DEF Lose, IdleWorker, Others, Types
<1> USE <1>3 DEF Lose, Others, Moved, Rested, GaveUp, Same, OwnerPcs, Busy
<1>4. Inv'
  BY DEF Inv, Types, Owning, Phases, Spared, Recycling, IsPet, Subjects, ActivatorPcs, OperatorPcs
<1>5. Keeping => Keeping'
  BY Frame DEF Types, Harmless, Subjects, Containers
<1> QED BY <1>4, <1>5

-----------------------------------------------------------------------------
(* All steps.                                                              *)

\* The steps of an activation.
LEMMA ActivationKeeps ==
  ASSUME Inv, NEW a \in Activators,
         ActivationStep(a) \/ ActivationFails(a) \/ TeardownFails(a) \/ OpenFails(a)
  PROVE  Inv' /\ (Keeping => Keeping')
<1>1. CASE ReadSubject(a) \/ Refused(a) \/ OpenConversation(a) \/ OpenFails(a)
  BY <1>1, ReadSubjectKeeps, RefusedKeeps, OpenConversationKeeps, OpenFailsKeeps
<1>2. CASE ClaimSubject(a)
  BY <1>2, ClaimSubjectKeeps, ClaimSubjectLostKeeps
<1>3. CASE PrepareFilesystem(a) \/ Restore(a) \/ ActivationFails(a)
  BY <1>3, PrepareFilesystemKeeps, RestoreKeeps, ActivationFailsKeeps
<1>4. CASE MarkRestoring(a)
  BY <1>4, MarkRestoringKeeps, MarkRestoringLostKeeps
<1>5. CASE MarkActive(a)
  BY <1>5, MarkActiveKeeps, MarkActiveLostKeeps
<1>6. CASE RecordFailure(a)
  BY <1>6, RecordFailureKeeps, RecordFailureLostKeeps
<1>7. CASE Teardown(a) \/ TeardownFails(a) \/ MarkFailed(a)
  BY <1>7, TeardownKeeps, TeardownFailsKeeps, MarkFailedKeeps
<1> QED BY <1>1, <1>2, <1>3, <1>4, <1>5, <1>6, <1>7 DEF ActivationStep

\* The steps of a run, from its admission to the release of its lease.
LEMMA RunKeeps ==
  ASSUME Inv, NEW d \in Dispatchers,
         Admit(d) \/ LeaseStep(d) \/ Work(d) \/ EndRun(d) \/ ReleaseLease(d) \/ LoseRelease(d)
  PROVE  Inv' /\ (Keeping => Keeping')
<1>1. CASE AcquireLease(d)
  BY <1>1, AcquireLeaseKeeps, AcquireLeaseLostKeeps
<1>3. CASE CheckLease(d)
  BY <1>3, CheckLeaseKeeps, CheckLeaseLostKeeps
<1>2. CASE ~AcquireLease(d) /\ ~CheckLease(d)
  BY <1>2, AdmitKeeps, ClearDeadlineKeeps, WorkKeeps, EndRunKeeps, ReleaseLeaseKeeps,
     LoseReleaseKeeps DEF LeaseStep
<1> QED BY <1>1, <1>2, <1>3

\* The steps that only maintenance takes.
LEMMA MaintenanceKeeps ==
  ASSUME Inv, NEW m \in Maintainers,
         \/ ClaimInactive(m) \/ BeginRecycle(m) \/ Resume(m)
         \/ ClaimIdleConversation(m) \/ RecordClosed(m)
  PROVE  Inv' /\ (Keeping => Keeping')
<1>1. CASE BeginRecycle(m)
  BY <1>1, BeginRecycleKeeps, BeginRecycleLostKeeps, BeginRecycleGivenUpKeeps
<1>2. CASE ~BeginRecycle(m)
  BY <1>2, ClaimInactiveKeeps, ResumeKeeps, ClaimIdleConversationKeeps, RecordClosedKeeps
<1> QED BY <1>1, <1>2

\* The steps of an operation that has begun.
LEMMA OperationKeeps ==
  ASSUME Inv, NEW w \in Maintainers \cup Operators,
         OperationStep(w) \/ StopFails(w) \/ CheckpointFails(w) \/ DestroyFails(w)
  PROVE  Inv' /\ (Keeping => Keeping')
<1>1. CASE Checkpoint(w)
  BY <1>1, CheckpointKeeps, CheckpointCattleKeeps, CheckpointResetKeeps
<1>2. CASE AfterError(w)
  BY <1>2, AfterErrorKeeps, AfterErrorLostKeeps, AfterErrorOfRecycleKeeps
<1>3. CASE \/ StopDrivers(w) \/ StopFails(w) \/ ClearState(w) \/ CheckpointFails(w)
           \/ RecordBackup(w) \/ Advance(w)
  BY <1>3, StopDriversKeeps, StopFailsKeeps, ClearStateKeeps, CheckpointFailsKeeps,
     RecordBackupKeeps,
     AdvanceKeeps
<1>4. CASE Destroy(w) \/ DestroyFails(w) \/ CloseConversations(w) \/ MarkCold(w)
  BY <1>4, DestroyKeeps, DestroyFailsKeeps, CloseConversationsKeeps, MarkColdKeeps
<1> QED BY <1>1, <1>2, <1>3, <1>4 DEF OperationStep

\* Every step keeps both.
LEMMA StepKeeps ==
  ASSUME Inv, [SubjectNext]_subjectVars
  PROVE  Inv' /\ (Keeping => Keeping')
<1>1. CASE UNCHANGED subjectVars
  <2>1. Inv'
    BY <1>1 DEF Inv, Types, Owning, Phases, Spared, Recycling, IsPet, subjectVars
  <2>2. Keeping => Keeping'
    BY <1>1
       DEF Keeping, Kept, Holding, InOperation, Torn, ColdIsTornDown, NoneClaiming,
           NoneReadBefore, Settled, Saving, ActiveIsRestored, Recycling, IsPet, IsCattle,
           subjectVars
  <2> QED BY <2>1, <2>2
<1>2. ASSUME NEW a \in Activators,
             ActivationStep(a) \/ ActivationFails(a) \/ TeardownFails(a) \/ OpenFails(a)
      PROVE  Inv' /\ (Keeping => Keeping')
  BY <1>2, ActivationKeeps
<1>3. ASSUME NEW d \in Dispatchers,
             Admit(d) \/ LeaseStep(d) \/ Work(d) \/ EndRun(d) \/ ReleaseLease(d) \/ LoseRelease(d)
      PROVE  Inv' /\ (Keeping => Keeping')
  BY <1>3, RunKeeps
<1>4. ASSUME NEW m \in Maintainers,
             \/ ClaimInactive(m) \/ BeginRecycle(m) \/ Resume(m)
             \/ ClaimIdleConversation(m) \/ RecordClosed(m)
      PROVE  Inv' /\ (Keeping => Keeping')
  BY <1>4, MaintenanceKeeps
<1>5. ASSUME NEW w \in Maintainers \cup Operators,
             OperationStep(w) \/ StopFails(w) \/ CheckpointFails(w) \/ DestroyFails(w)
      PROVE  Inv' /\ (Keeping => Keeping')
  BY <1>5, OperationKeeps
<1>6. CASE \/ \E p \in Prewarmers : Prewarm(p)
           \/ \E o \in Operators, reset \in BOOLEAN : BeginOperation(o, reset)
           \/ \E w \in Workers : Lose(w)
           \/ RepairDeadline \/ DeadlinePasses \/ ClaimLapses
  BY <1>6, PrewarmKeeps, BeginOperationKeeps, LoseKeeps, RepairDeadlineKeeps, DeadlinePassesKeeps,
     ClaimLapsesKeeps
<1> QED BY <1>1, <1>2, <1>3, <1>4, <1>5, <1>6 DEF SubjectNext

\* Both hold of a cold subject without a container.
LEMMA InitKeeps ==
  ASSUME SubjectInit
  PROVE  Inv /\ Keeping
<1>1. IdleWorker \in WorkerTypes /\ IdleWorker.pc = "idle" /\ IdleWorker.reset = FALSE
  BY DEF IdleWorker, WorkerTypes, NoBackup, Backups, ActivatorPcs
<1>2. /\ subject \in Subjects /\ subject.status = "cold" /\ subject.claim = NoOwner
      /\ \A w \in Workers : worker[w] = IdleWorker
  BY DEF SubjectInit, Subjects
<1>3. Types
  BY <1>1, <1>2, WorkerKinds
     DEF SubjectInit, Types, Gone, Containers, NoBackup, Backups, ActivatorPcs, OperatorPcs
<1>4. Owning
  BY <1>1, <1>2, WorkerKinds DEF Owning, Busy, OwnerPcs
<1>5. Phases /\ Spared
  BY <1>1, <1>2 DEF Phases, Spared, Recycling
<1>6. Keeping
  BY <1>1, <1>2, WorkerKinds
     DEF SubjectInit, Keeping, Kept, Holding, Torn, ColdIsTornDown, NoneClaiming, Settled, Saving,
         ActiveIsRestored, Recycling, Gone, NoBackup
<1> QED BY <1>3, <1>4, <1>5, <1>6 DEF Inv

\* Both hold throughout, whatever fails.
LEMMA AlwaysKeeping == SubjectSpec => [](Inv /\ Keeping)
<1>1. SubjectInit => Inv /\ Keeping
  BY InitKeeps
<1>2. Inv /\ Keeping /\ [SubjectNext]_subjectVars => (Inv /\ Keeping)'
  BY StepKeeps
<1> QED BY <1>1, <1>2, PTL DEF SubjectSpec

-----------------------------------------------------------------------------
\* Type correctness; whoever is backing up or destroying has an operation id, and a
\* restoring row the claim of an activation.
THEOREM SubjectTypeCorrect == SubjectSpec => []SubjectTypeOK
<1>1. Inv => SubjectTypeOK
  BY DEF Inv, Types, Owning, Busy, Subjects, Containers, Backups, WorkerTypes, SubjectTypeOK
<1> QED BY <1>1, AlwaysKeeping, PTL

\* No recycle meets a leased run, whichever executions and calls fail.
THEOREM RecyclesSpareRuns == SubjectSpec => []RecycleSparesRuns
<1>1. Inv => RecycleSparesRuns
  BY DEF Inv, Spared, RecycleSparesRuns, Leased
<1> QED BY <1>1, AlwaysKeeping, PTL

\* A recycle takes the container away with its files in the checkpoint that the row
\* names, whichever executions and calls fail, and whoever restores without the claim.
THEOREM RecyclesSaveFiles == SubjectSpec => []RecycleSavesFiles
<1>1. Keeping => RecycleSavesFiles
  BY DEF Keeping, Saving, RecycleSavesFiles
<1> QED BY <1>1, AlwaysKeeping, PTL

\* An active subject has its container, with everything in it that was checkpointed, or
\* else a prewarm restored into it after the claim had been taken over from it.
THEOREM ActiveSubjectsAreRestored == SubjectSpec => []ActiveIsRestored
<1>1. Keeping => ActiveIsRestored
  BY DEF Keeping
<1> QED BY <1>1, AlwaysKeeping, PTL

\* A cold subject was torn down since it was last active, unless its row shows that an
\* API operation gave it back or that a conversation could not be opened in it.
THEOREM ColdSubjectsAreTornDown == SubjectSpec => []ColdIsTornDown
<1>1. Keeping => ColdIsTornDown
  BY DEF Keeping, Torn
<1> QED BY <1>1, AlwaysKeeping, PTL
=============================================================================
