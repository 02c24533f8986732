---------------------------- MODULE AppDeployment ----------------------------
(***************************************************************************)
(* The deployment of one App's site: requests of its owner that deploy,    *)
(* delete and look, the queue consumers that execute deployment runs, and  *)
(* what is hosted at the App's address.                                    *)
(*                                                                         *)
(* deployment, run and command are rows of D1 (command[r] is the ledger    *)
(* row that dispatches run r); queue counts the messages under way; site   *)
(* is the run whose artifact is hosted.  Every deployment of an App has    *)
(* the same address, so a later one hosts in the same place.               *)
(*                                                                         *)
(* Abstracted: the repository, the plan, secrets and agent bindings, which *)
(* only decide how a stage of the execution ends; the build sandboxes,     *)
(* destroyed on a best-effort basis; pages and workers, which are one      *)
(* hosted artifact; how often a message is retried before it is            *)
(* dead-lettered, and duplicate messages beyond two (ApiCommand has both). *)
(* Time: a lease lapses when nobody renews it, and a request takes less    *)
(* than the five minutes after which a run without a dispatch is given up. *)
(* Definitions X_Y are plausible faulty forms of X, which the              *)
(* specification does not use.                                             *)
(***************************************************************************)
EXTENDS Naturals, FiniteSets

CONSTANTS
  Executors,       \* queue-consumer executions
  Deployers,       \* executions of deploy requests
  Deleters,        \* executions of delete requests
  Readers,         \* executions of status reads
  NoExecutor,
  MaxDeployments,  \* bound on the deployments the owner makes, one after the other
  MaxRuns,         \* bound on the runs
  MaxAttempts,     \* APP_DEPLOYMENT_RUN_DISPATCH_MAX_ATTEMPTS
  MaxFaults        \* bound on lost executions, failed writes, and leases that lapse too early

ASSUME DeploymentAssumption ==
  /\ NoExecutor \notin Executors
  /\ MaxDeployments \in Nat \ {0}
  /\ MaxRuns \in Nat \ {0}
  /\ MaxAttempts \in Nat \ {0}
  /\ MaxFaults \in Nat

Deployments == 1..MaxDeployments
Runs == 1..MaxRuns

VARIABLES
  deployment,  \* deployment -> its row; ids grow
  run,         \* run -> its row; ids grow
  command,     \* run -> the ledger row that dispatches it
  queue,       \* run -> messages that name its command: ready, and dead-lettered
  site,        \* the run whose artifact is hosted, or 0
  executor,    \* executor -> the run it executes, and how far it is
  deployer,    \* deployer -> how far its request is
  deleter,     \* deleter -> how far its request is
  reader,      \* reader -> how far its read is
  faults       \* faults so far

rows == <<deployment, run, command>>
requests == <<deployer, deleter, reader>>
deploymentVars == <<rows, queue, site, executor, requests, faults>>

ActiveStatuses == {"queued", "preparing", "building", "submitting", "submitted", "activating"}

IdleExecutor == [pc |-> "idle", run |-> 0, attempt |-> 0, after |-> "complete"]
IdleDeployer == [pc |-> "idle", run |-> 0, deployment |-> 0]
IdleDeleter == [pc |-> "idle", deployment |-> 0]
IdleReader == [pc |-> "idle", run |-> 0, exhausted |-> FALSE]

Fault == faults < MaxFaults /\ faults' = faults + 1

IsActive(r) == run[r].status \in ActiveStatuses
ActiveRuns == {r \in Runs : IsActive(r)}
LiveDeployments == {d \in Deployments : deployment[d].state = "live"}

\* A unique index admits one deployment that is not deleted.
LiveDeployment == IF LiveDeployments = {} THEN 0 ELSE CHOOSE d \in LiveDeployments : TRUE

\* Every write that ends runs, or moves one on, is guarded by their being active.
Failed_Unguarded(rs) ==
  [r \in Runs |-> IF r \in rs THEN [run[r] EXCEPT !.status = "failed"] ELSE run[r]]
Failed(rs) ==
  [r \in Runs |-> IF r \in rs /\ IsActive(r) THEN [run[r] EXCEPT !.status = "failed"] ELSE run[r]]

-----------------------------------------------------------------------------
(* A request to deploy.                                                    *)

DeployerGoes(p, pc) == deployer' = [deployer EXCEPT ![p].pc = pc]
DeployerEnds(p) == deployer' = [deployer EXCEPT ![p] = IdleDeployer]

\* An active run that can be given up is given up first: the reader's steps, below.
Deploy(p) ==
  /\ deployer[p].pc = "idle"
  /\ ActiveRuns = {}
  /\ DeployerGoes(p, "lookup")
  /\ UNCHANGED <<rows, queue, site, executor, deleter, reader, faults>>

LookUp(p) ==
  /\ deployer[p].pc = "lookup"
  /\ deployer' = [deployer EXCEPT ![p] =
       [@ EXCEPT !.pc = IF LiveDeployment = 0 THEN "deployment" ELSE "run",
                 !.deployment = LiveDeployment]]
  /\ UNCHANGED <<rows, queue, site, executor, deleter, reader, faults>>

\* Refused when another request made a deployment meanwhile.
InsertDeployment(p) ==
  /\ deployer[p].pc = "deployment"
  /\ \/ /\ LiveDeployment # 0
        /\ DeployerEnds(p)
        /\ UNCHANGED deployment
     \/ /\ LiveDeployment = 0
        /\ \E d \in Deployments :
             /\ \A i \in Deployments : deployment[i].state = "absent" <=> i >= d
             /\ deployment' = [deployment EXCEPT ![d].state = "live"]
             /\ deployer' = [deployer EXCEPT ![p] = [@ EXCEPT !.pc = "run", !.deployment = d]]
  /\ UNCHANGED <<run, command, queue, site, executor, deleter, reader, faults>>

\* A unique index admits one active run of the App.
InsertRun(p) ==
  /\ deployer[p].pc = "run"
  /\ \/ /\ ActiveRuns # {}
        /\ DeployerEnds(p)
        /\ UNCHANGED run
     \/ /\ ActiveRuns = {}
        /\ \E r \in Runs :
             /\ \A i \in Runs : run[i].status = "absent" <=> i >= r
             /\ run' = [run EXCEPT ![r] =
                  [@ EXCEPT !.status = "queued", !.deployment = deployer[p].deployment]]
             /\ deployer' = [deployer EXCEPT ![p] = [@ EXCEPT !.pc = "link", !.run = r]]
  /\ UNCHANGED <<deployment, command, queue, site, executor, deleter, reader, faults>>

LinkRun_HidesUrl(p) ==
  LET d == deployer[p].deployment IN
  /\ deployer[p].pc = "link"
  /\ deployment' = [deployment EXCEPT ![d] = [@ EXCEPT !.latest = deployer[p].run, !.url = FALSE]]
  /\ DeployerGoes(p, "admit")
  /\ UNCHANGED <<run, command, queue, site, executor, deleter, reader, faults>>
LinkRun(p) ==
  LET d == deployer[p].deployment IN
  /\ deployer[p].pc = "link"
  /\ \/ /\ deployment[d].state = "live"
        /\ deployment' = [deployment EXCEPT ![d].latest = deployer[p].run]
        /\ DeployerGoes(p, "admit")
        /\ UNCHANGED faults
     \/ /\ \/ deployment[d].state = "deleted" /\ UNCHANGED faults
           \/ Fault
        /\ DeployerGoes(p, "abandon")
        /\ UNCHANGED deployment
  /\ UNCHANGED <<run, command, queue, site, executor, deleter, reader>>

AbandonRun(p) ==
  /\ deployer[p].pc = "abandon"
  /\ run' = Failed({deployer[p].run})
  /\ DeployerEnds(p)
  /\ UNCHANGED <<deployment, command, queue, site, executor, deleter, reader, faults>>

AdmitDispatch(p) ==
  /\ deployer[p].pc = "admit"
  /\ \/ /\ command' = [command EXCEPT ![deployer[p].run] =
             [@ EXCEPT !.status = "queued", !.note = "undelivered"]]
        /\ DeployerGoes(p, "send")
        /\ UNCHANGED faults
     \/ Fault /\ DeployerGoes(p, "abandon") /\ UNCHANGED command
  /\ UNCHANGED <<deployment, run, queue, site, executor, deleter, reader>>

Delivered(r) == queue' = [queue EXCEPT ![r].ready = @ + 1]

Cleared(r) ==
  [command EXCEPT ![r].note =
     IF @ = "undelivered" /\ command[r].status = "queued" THEN "none" ELSE @]

\* Whoever sent the message then clears the mark; a clearing that fails, or that comes after a
\* claim and so clears nothing, counts as a fault.
Sent(r) ==
  /\ Delivered(r)
  /\ \/ command' = Cleared(r) /\ UNCHANGED faults
     \/ Fault /\ UNCHANGED command

\* A send that seems to fail may have delivered the message.
SendDispatch(p) ==
  LET r == deployer[p].run IN
  /\ deployer[p].pc = "send"
  /\ \/ Sent(r)
     \/ Fault /\ (Delivered(r) \/ UNCHANGED queue) /\ UNCHANGED command
  /\ DeployerEnds(p)
  /\ UNCHANGED <<deployment, run, site, executor, deleter, reader>>

LoseDeployer(p) ==
  /\ deployer[p].pc # "idle"
  /\ Fault
  /\ DeployerEnds(p)
  /\ UNCHANGED <<rows, queue, site, executor, deleter, reader>>

\* The scheduled redrive of commands whose send was not seen to succeed.
Redrive(r) ==
  /\ command[r].status = "queued"
  /\ command[r].note = "undelivered"
  /\ queue[r].ready < 2
  /\ Sent(r)
  /\ UNCHANGED <<deployment, run, site, executor, requests>>

-----------------------------------------------------------------------------
(* A request to delete.                                                    *)

Delete(x) ==
  /\ deleter[x].pc = "idle"
  /\ LiveDeployment # 0
  /\ deleter' = [deleter EXCEPT ![x] = [pc |-> "fail", deployment |-> LiveDeployment]]
  /\ UNCHANGED <<rows, queue, site, executor, deployer, reader, faults>>

\* All active runs of the App, whichever deployment they are of.
FailActiveRuns(x) ==
  /\ deleter[x].pc = "fail"
  /\ run' = Failed(Runs)
  /\ deleter' = [deleter EXCEPT ![x].pc = "remove"]
  /\ UNCHANGED <<deployment, command, queue, site, executor, deployer, reader, faults>>

\* A failed cleanup ends the request: the owner may try again.
RemoveSite(x) ==
  /\ deleter[x].pc = "remove"
  /\ \/ /\ site' = 0
        /\ deleter' = [deleter EXCEPT ![x].pc = "mark"]
        /\ UNCHANGED faults
     \/ /\ Fault
        /\ deleter' = [deleter EXCEPT ![x] = IdleDeleter]
        /\ UNCHANGED site
  /\ UNCHANGED <<rows, queue, executor, deployer, reader>>

MarkDeleted(x) ==
  /\ deleter[x].pc = "mark"
  /\ deployment' = [deployment EXCEPT ![deleter[x].deployment] =
       [@ EXCEPT !.state = "deleted", !.url = FALSE]]
  /\ deleter' = [deleter EXCEPT ![x] = IdleDeleter]
  /\ UNCHANGED <<run, command, queue, site, executor, deployer, reader, faults>>

LoseDeleter(x) ==
  /\ deleter[x].pc # "idle"
  /\ Fault
  /\ deleter' = [deleter EXCEPT ![x] = IdleDeleter]
  /\ UNCHANGED <<rows, queue, site, executor, deployer, reader>>

-----------------------------------------------------------------------------
(* The execution of a run by a queue consumer.                             *)

Goes(e, pc) == executor' = [executor EXCEPT ![e].pc = pc]
Ends(e) == executor' = [executor EXCEPT ![e] = IdleExecutor]

Claimable(r) ==
  \/ command[r].status = "queued"
  \/ command[r].status = "running" /\ command[r].lease = "lapsed"

\* A message that finds nothing to claim is acknowledged.
Claim(e, r) ==
  /\ executor[e].pc = "idle"
  /\ queue[r].ready > 0
  /\ queue' = [queue EXCEPT ![r].ready = @ - 1]
  /\ \/ /\ Claimable(r)
        /\ command' = [command EXCEPT ![r] =
             [@ EXCEPT !.status = "running", !.owner = e, !.lease = "live",
                       !.attempts = command[r].attempts + 1]]
        /\ executor' = [executor EXCEPT ![e] =
             [@ EXCEPT !.pc = "context", !.run = r, !.attempt = command[r].attempts + 1]]
     \/ ~Claimable(r) /\ UNCHANGED <<command, executor>>
  /\ UNCHANGED <<deployment, run, site, requests, faults>>

\* readCurrentDispatchContext: the run is active, and the latest of a live deployment.
IsCurrent(r) ==
  LET d == run[r].deployment IN
  /\ IsActive(r)
  /\ deployment[d].state = "live"
  /\ deployment[d].latest = r

ReadContext(e) ==
  /\ executor[e].pc = "context"
  /\ Goes(e, IF IsCurrent(executor[e].run) THEN "preparing" ELSE "complete")
  /\ UNCHANGED <<rows, queue, site, requests, faults>>

\* Between its stages the run's status is moved on, if the run is still active.
Advance(e, status, next, otherwise) ==
  LET r == executor[e].run IN
  /\ executor[e].pc = status
  /\ \/ /\ IsActive(r)
        /\ run' = [run EXCEPT ![r].status = status]
        /\ Goes(e, next)
     \/ /\ ~IsActive(r)
        /\ Goes(e, otherwise)
        /\ UNCHANGED run
  /\ UNCHANGED <<deployment, command, queue, site, requests, faults>>

MarkPreparing(e) == Advance(e, "preparing", "prepare", "complete")
MarkBuilding(e) == Advance(e, "building", "build", "complete")
MarkSubmitting(e) == Advance(e, "submitting", "recheck", "complete")
MarkSubmitted(e) == Advance(e, "submitted", "activating", "compensate")
MarkActivating(e) == Advance(e, "activating", "publish", "compensate")

\* A stage goes well, or throws an error that may be retried, or one that may not.
Throws(e) == \E pc \in {"throw", "refuse"} : Goes(e, pc)

\* Clone, detect, store the plan; a missing secret fails the run.
Prepare(e) ==
  /\ executor[e].pc = "prepare"
  /\ \/ Goes(e, IF IsActive(executor[e].run) THEN "building" ELSE "complete")
     \/ IsActive(executor[e].run) /\ Goes(e, "giveUp")
     \/ Throws(e)
  /\ UNCHANGED <<rows, queue, site, requests, faults>>

Build(e) ==
  /\ executor[e].pc = "build"
  /\ Goes(e, "submitting") \/ Throws(e)
  /\ UNCHANGED <<rows, queue, site, requests, faults>>

\* The context is read again, and secrets and agent bindings are resolved.
Recheck(e) ==
  /\ executor[e].pc = "recheck"
  /\ \/ IsCurrent(executor[e].run) /\ Goes(e, "deploy")
     \/ Goes(e, "giveUp")
     \/ IsCurrent(executor[e].run) /\ Goes(e, "throw")
  /\ UNCHANGED <<rows, queue, site, requests, faults>>

\* The artifact is hosted, or the submission throws, before or after that.
Submit(e) ==
  /\ executor[e].pc = "deploy"
  /\ \/ /\ site' = executor[e].run
        /\ Goes(e, "submitted")
     \/ /\ site' \in {site, executor[e].run}
        /\ \E after \in {"throw", "refuse"} : executor' = [executor EXCEPT ![e] =
             [@ EXCEPT !.pc = "compensate", !.after = after]]
  /\ UNCHANGED <<rows, queue, requests, faults>>

\* failDeploymentRunIfActive.
GiveUp(e) ==
  /\ executor[e].pc = "giveUp"
  /\ run' = Failed({executor[e].run})
  /\ Goes(e, "complete")
  /\ UNCHANGED <<deployment, command, queue, site, requests, faults>>

\* completeDeploymentRun, first the deployment and then the run.
PublishUrl(e) ==
  LET r == executor[e].run
      d == run[r].deployment IN
  /\ executor[e].pc = "publish"
  /\ \/ /\ deployment[d].state = "live" /\ deployment[d].latest = r
        /\ deployment' = [deployment EXCEPT ![d].url = TRUE]
        /\ Goes(e, "succeed")
     \/ /\ ~(deployment[d].state = "live" /\ deployment[d].latest = r)
        /\ Goes(e, "failLate")
        /\ UNCHANGED deployment
  /\ UNCHANGED <<run, command, queue, site, requests, faults>>

Succeeded(r) == IF IsActive(r) THEN [run EXCEPT ![r].status = "success"] ELSE run

Succeed(e) ==
  /\ executor[e].pc = "succeed"
  /\ run' = Succeeded(executor[e].run)
  /\ Goes(e, "compensate")
  /\ UNCHANGED <<deployment, command, queue, site, requests, faults>>

FailLate(e) ==
  /\ executor[e].pc = "failLate"
  /\ run' = Failed({executor[e].run})
  /\ Goes(e, "compensate")
  /\ UNCHANGED <<deployment, command, queue, site, requests, faults>>

\* After a submission: nothing must stay hosted for a deployment deleted meanwhile.
CheckDeleted(e) ==
  /\ executor[e].pc = "compensate"
  /\ Goes(e, IF deployment[run[executor[e].run].deployment].state = "deleted"
             THEN "replacement" ELSE executor[e].after)
  /\ UNCHANGED <<rows, queue, site, requests, faults>>

CheckReplacement(e) ==
  /\ executor[e].pc = "replacement"
  /\ Goes(e, IF LiveDeployment = 0 THEN "unhost" ELSE executor[e].after)
  /\ UNCHANGED <<rows, queue, site, requests, faults>>

\* A failure is logged, and that is all.
Unhost(e) ==
  /\ executor[e].pc = "unhost"
  /\ \/ site' = 0 /\ UNCHANGED faults
     \/ Fault /\ UNCHANGED site
  /\ Goes(e, executor[e].after)
  /\ UNCHANGED <<rows, queue, requests>>

\* A statement on the tables throws, which may be retried; once something was submitted the
\* check for a deletion comes first.  The write that ends the run may have had its effect: one
\* before it that had is the step itself, and the next statement throws.
Throw(e) ==
  /\ Fault
  /\ \/ /\ executor[e].pc \in
             {"context", "preparing", "building", "submitting", "giveUp", "complete"}
        /\ Goes(e, "throw")
        /\ UNCHANGED run
     \/ /\ executor[e].pc \in {"submitted", "activating", "publish", "succeed", "failLate"}
        /\ executor' = [executor EXCEPT ![e] = [@ EXCEPT !.pc = "compensate", !.after = "throw"]]
        /\ \/ UNCHANGED run
           \/ executor[e].pc = "succeed" /\ run' = Succeeded(executor[e].run)
           \/ executor[e].pc = "failLate" /\ run' = Failed({executor[e].run})
  /\ UNCHANGED <<deployment, command, queue, site, requests>>

-----------------------------------------------------------------------------
(* How the consumer ends its claim: writes guarded by its being the owner. *)

Owns(e) ==
  LET c == command[executor[e].run] IN c.status = "running" /\ c.owner = e

Settled_KeepsOwner(e, status, note) ==
  command' = IF Owns(e)
             THEN [command EXCEPT ![executor[e].run] = [@ EXCEPT !.status = status, !.note = note]]
             ELSE command
Settled(e, status, note) ==
  command' = IF Owns(e)
             THEN [command EXCEPT ![executor[e].run] =
                     [@ EXCEPT !.status = status, !.note = note,
                               !.owner = NoExecutor, !.lease = "none"]]
             ELSE command

Complete(e) ==
  /\ executor[e].pc = "complete"
  /\ Settled(e, "succeeded", "none")
  /\ Ends(e)
  /\ UNCHANGED <<deployment, run, queue, site, requests, faults>>

LastAttempt_OneMore(e) == executor[e].attempt > MaxAttempts
LastAttempt(e) == executor[e].attempt >= MaxAttempts

Release(e) ==
  /\ executor[e].pc = "throw"
  /\ ~LastAttempt(e)
  /\ Settled(e, "queued", "error")
  /\ queue' = [queue EXCEPT ![executor[e].run].ready = @ + 1]
  /\ Ends(e)
  /\ UNCHANGED <<deployment, run, site, requests, faults>>

\* A run that cannot be failed is logged: the command fails all the same.
FailRun(e) ==
  /\ \/ executor[e].pc = "throw" /\ LastAttempt(e)
     \/ executor[e].pc = "refuse"
  /\ \/ run' = Failed({executor[e].run}) /\ UNCHANGED faults
     \/ Fault /\ UNCHANGED run
  /\ Goes(e, "failCommand")
  /\ UNCHANGED <<deployment, command, queue, site, requests>>

FailCommand(e) ==
  /\ executor[e].pc = "failCommand"
  /\ Settled(e, "failed", "error")
  /\ Ends(e)
  /\ UNCHANGED <<deployment, run, queue, site, requests, faults>>

\* The queue delivers the message again, or dead-letters it.
LoseExecutor(e) ==
  /\ executor[e].pc # "idle"
  /\ Fault
  /\ LET r == executor[e].run IN
     queue' \in {[queue EXCEPT ![r].ready = @ + 1], [queue EXCEPT ![r].dead = TRUE]}
  /\ Ends(e)
  /\ UNCHANGED <<rows, site, requests>>

\* The dead-letter consumer fails the run, or logs that it could not, and then marks the command.
DeadLetterRun(r) ==
  /\ queue[r].dead /\ ~queue[r].failed
  /\ queue' = [queue EXCEPT ![r].failed = TRUE]
  /\ \/ run' = Failed({r}) /\ UNCHANGED faults
     \/ Fault /\ UNCHANGED run
  /\ UNCHANGED <<deployment, command, site, executor, requests>>

DeadLetter(r) ==
  /\ queue[r].dead /\ queue[r].failed
  /\ queue' = [queue EXCEPT ![r].dead = FALSE, ![r].failed = FALSE]
  /\ command' = [command EXCEPT ![r] =
       [@ EXCEPT !.status = "dead_lettered", !.note = "error",
                 !.owner = NoExecutor, !.lease = "none"]]
  /\ UNCHANGED <<deployment, run, site, executor, requests, faults>>

\* The owner renews its claim until it ends it; only renewals that fail let it lapse.
LeaseLapses(r) ==
  /\ command[r].lease = "live"
  /\ command' = [command EXCEPT ![r].lease = "lapsed"]
  /\ IF \E e \in Executors : executor[e].run = r /\ Owns(e) THEN Fault ELSE UNCHANGED faults
  /\ UNCHANGED <<deployment, run, queue, site, executor, requests>>

-----------------------------------------------------------------------------
(* A read of the status, which gives up an active run nobody executes.     *)

IsExhausted(r) ==
  /\ command[r].status \in {"queued", "running"}
  /\ command[r].attempts >= MaxAttempts
  /\ command[r].note # "none"

IsDispatched_Running(r) == command[r].status \in {"queued", "running"}
IsDispatched(r) ==
  \/ command[r].status = "queued"
  \/ command[r].status = "running" /\ command[r].lease = "live"

\* The deploy request that made the run is not done yet.
IsBeingMade(r) == \E p \in Deployers : deployer[p].run = r

\* The run was active when its row was read; where it ended before its command was read, only an
\* exhausted command is still changed.
Read(v, r) ==
  /\ reader[v].pc = "idle"
  /\ IsExhausted(r) \/ (IsActive(r) /\ ~IsDispatched(r) /\ ~IsBeingMade(r))
  /\ reader' = [reader EXCEPT ![v] =
       [pc |-> "failRun", run |-> r, exhausted |-> IsExhausted(r)]]
  /\ UNCHANGED <<rows, queue, site, executor, deployer, deleter, faults>>

FailReadRun(v) ==
  /\ reader[v].pc = "failRun"
  /\ run' = Failed({reader[v].run})
  /\ reader' = [reader EXCEPT ![v] =
       IF @.exhausted THEN [@ EXCEPT !.pc = "failCommand"] ELSE IdleReader]
  /\ UNCHANGED <<deployment, command, queue, site, executor, deployer, deleter, faults>>

FailReadCommand(v) ==
  LET r == reader[v].run IN
  /\ reader[v].pc = "failCommand"
  /\ command' = IF command[r].status \in {"queued", "running"}
                THEN [command EXCEPT ![r] = [@ EXCEPT !.status = "failed", !.note = "error",
                                                      !.owner = NoExecutor, !.lease = "none"]]
                ELSE command
  /\ reader' = [reader EXCEPT ![v] = IdleReader]
  /\ UNCHANGED <<deployment, run, queue, site, executor, deployer, deleter, faults>>

LoseReader(v) ==
  /\ reader[v].pc # "idle"
  /\ Fault
  /\ reader' = [reader EXCEPT ![v] = IdleReader]
  /\ UNCHANGED <<rows, queue, site, executor, deployer, deleter>>

-----------------------------------------------------------------------------
DeploymentInit ==
  /\ deployment = [d \in Deployments |-> [state |-> "absent", latest |-> 0, url |-> FALSE]]
  /\ run = [r \in Runs |-> [status |-> "absent", deployment |-> 0]]
  /\ command = [r \in Runs |-> [status |-> "absent", attempts |-> 0, note |-> "none",
                                owner |-> NoExecutor, lease |-> "none"]]
  /\ queue = [r \in Runs |-> [ready |-> 0, dead |-> FALSE, failed |-> FALSE]]
  /\ site = 0
  /\ executor = [e \in Executors |-> IdleExecutor]
  /\ deployer = [p \in Deployers |-> IdleDeployer]
  /\ deleter = [x \in Deleters |-> IdleDeleter]
  /\ reader = [v \in Readers |-> IdleReader]
  /\ faults = 0

DeployerStep(p) ==
  \/ LookUp(p) \/ InsertDeployment(p) \/ InsertRun(p) \/ LinkRun(p)
  \/ AbandonRun(p) \/ AdmitDispatch(p) \/ SendDispatch(p)

DeleterStep(x) == FailActiveRuns(x) \/ RemoveSite(x) \/ MarkDeleted(x)

StageStep(e) ==
  \/ ReadContext(e) \/ Prepare(e) \/ Build(e) \/ Recheck(e) \/ Submit(e) \/ GiveUp(e)
  \/ MarkPreparing(e) \/ MarkBuilding(e) \/ MarkSubmitting(e)
  \/ MarkSubmitted(e) \/ MarkActivating(e)
  \/ PublishUrl(e) \/ Succeed(e) \/ FailLate(e)
  \/ CheckDeleted(e) \/ CheckReplacement(e) \/ Unhost(e)

ExecutorStep(e) ==
  StageStep(e) \/ Complete(e) \/ Release(e) \/ FailRun(e) \/ FailCommand(e)

ReaderStep(v) == FailReadRun(v) \/ FailReadCommand(v)

DeploymentNext ==
  \/ \E p \in Deployers : Deploy(p) \/ DeployerStep(p) \/ LoseDeployer(p)
  \/ \E x \in Deleters : Delete(x) \/ DeleterStep(x) \/ LoseDeleter(x)
  \/ \E e \in Executors : ExecutorStep(e) \/ Throw(e) \/ LoseExecutor(e)
  \/ \E e \in Executors, r \in Runs : Claim(e, r)
  \/ \E v \in Readers : ReaderStep(v) \/ LoseReader(v)
  \/ \E v \in Readers, r \in Runs : Read(v, r)
  \/ \E r \in Runs : Redrive(r) \/ DeadLetterRun(r) \/ DeadLetter(r) \/ LeaseLapses(r)

DeploymentSpec == DeploymentInit /\ [][DeploymentNext]_deploymentVars

\* Executions that are not lost go on, the queue delivers, the redrive is scheduled, a
\* lease nobody renews lapses, and somebody looks at the run: the App's overview does,
\* every few seconds while a run is active.  Nobody need ever deploy or delete.
DeploymentFairness ==
  /\ \A p \in Deployers : WF_deploymentVars(DeployerStep(p))
  /\ \A x \in Deleters : WF_deploymentVars(DeleterStep(x))
  /\ \A e \in Executors : WF_deploymentVars(ExecutorStep(e))
  /\ \A v \in Readers : WF_deploymentVars(ReaderStep(v))
  /\ \A r \in Runs : /\ SF_deploymentVars(\E e \in Executors : Claim(e, r))
                     /\ SF_deploymentVars(\E v \in Readers : Read(v, r))
                     /\ WF_deploymentVars(Redrive(r))
                     /\ WF_deploymentVars(DeadLetterRun(r)) /\ WF_deploymentVars(DeadLetter(r))
                     /\ WF_deploymentVars(LeaseLapses(r) /\ faults' = faults)

DeploymentFairSpec == DeploymentSpec /\ DeploymentFairness

-----------------------------------------------------------------------------
(* Properties.                                                             *)

\* Every variable has its type, and a command is owned exactly while it runs.
DeploymentTypeOK ==
  /\ deployment \in [Deployments -> [state : {"absent", "live", "deleted"},
                                     latest : {0} \cup Runs, url : BOOLEAN]]
  /\ run \in [Runs -> [status : ActiveStatuses \cup {"absent", "success", "failed"},
                       deployment : {0} \cup Deployments]]
  /\ command \in [Runs -> [status : {"absent", "queued", "running", "succeeded", "failed",
                                     "dead_lettered"},
                           attempts : Nat, note : {"none", "undelivered", "error"},
                           owner : Executors \cup {NoExecutor},
                           lease : {"none", "live", "lapsed"}]]
  /\ queue \in [Runs -> [ready : Nat, dead : BOOLEAN, failed : BOOLEAN]]
  /\ site \in {0} \cup Runs
  /\ \A r \in Runs : command[r].status = "running" <=> command[r].owner # NoExecutor
  /\ Cardinality(LiveDeployments) <= 1

\* A run that ended stays as it ended: of the writers that end it or move it on, its
\* executors, a deletion, a read that gives it up and the dead-letter consumer, the first
\* one to end it wins.
EndedRunIsFinal ==
  [][\A r \in Runs :
       run[r].status \in {"success", "failed"} => run'[r] = run[r]]_deploymentVars

\* A deployment one of whose runs succeeded has an address to show until it is deleted: a
\* later attempt that fails does not hide the address, and a lost execution does not leave
\* the run successful without it.
SuccessHasUrl ==
  \A r \in Runs :
    run[r].status = "success" /\ deployment[run[r].deployment].state = "live" =>
      deployment[run[r].deployment].url

\* A run is dispatched at most MaxAttempts times, but for executions that were lost or
\* lost their claim.
AttemptsBounded == \A r \in Runs : command[r].attempts <= MaxAttempts + faults

\* An active run ends, whatever executions are lost and sends fail: somebody executes it
\* to its end, or a read finds that nobody does.
ActiveRunEnds == \A r \in Runs : IsActive(r) ~> ~IsActive(r)
=============================================================================
