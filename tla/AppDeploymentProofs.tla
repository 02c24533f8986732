------------------------- MODULE AppDeploymentProofs -------------------------
(***************************************************************************)
(* Safety of deployment runs, for any requests, executors, attempts and    *)
(* faults: type correctness, an ended run stays as it ended, a deployment  *)
(* with a successful run shows its address, and a run is dispatched no     *)
(* more often than its attempts and the faults allow.                      *)
(*                                                                         *)
(* What a request or an executor works on exists (Working, Requesting),    *)
(* and what exists is never taken for a fresh row; an executor that is     *)
(* about to end its run successfully has published the address, which      *)
(* only a deletion takes back (Shown).                                     *)
(***************************************************************************)
EXTENDS AppDeployment, FiniteSetTheorems, TLAPS

RunStatuses == ActiveStatuses \cup {"absent", "success", "failed"}
ExecutorPcs ==
  {"idle", "context", "preparing", "prepare", "building", "build", "submitting", "recheck",
   "deploy", "submitted", "activating", "publish", "succeed", "failLate", "giveUp", "compensate",
   "replacement", "unhost", "complete", "throw", "refuse", "failCommand"}
DeployerPcs == {"idle", "lookup", "deployment", "run", "link", "abandon", "admit", "send"}

RowTypes ==
  /\ deployment \in [Deployments -> [state : {"absent", "live", "deleted"},
                                     latest : {0} \cup Runs, url : BOOLEAN]]
  /\ run \in [Runs -> [status : RunStatuses, deployment : {0} \cup Deployments]]
  /\ site \in {0} \cup Runs

Commands == [status : {"absent", "queued", "running", "succeeded", "failed", "dead_lettered"},
             attempts : Nat, note : {"none", "undelivered", "error"},
             owner : Executors \cup {NoExecutor}, lease : {"none", "live", "lapsed"}]

Messages == [ready : Nat, dead : BOOLEAN, failed : BOOLEAN]

CommandTypes ==
  /\ command \in [Runs -> Commands]
  /\ queue \in [Runs -> Messages]

ExecutorType == [pc : ExecutorPcs, run : {0} \cup Runs, attempt : Nat,
                 after : {"complete", "throw", "refuse"}]

ActorTypes ==
  /\ executor \in [Executors -> ExecutorType]
  /\ deployer \in [Deployers -> [pc : DeployerPcs, run : {0} \cup Runs,
                                 deployment : {0} \cup Deployments]]
  /\ deleter \in [Deleters -> [pc : {"idle", "fail", "remove", "mark"},
                               deployment : {0} \cup Deployments]]
  /\ reader \in [Readers -> [pc : {"idle", "failRun", "failCommand"}, run : {0} \cup Runs,
                             exhausted : BOOLEAN]]

Types == RowTypes /\ CommandTypes /\ ActorTypes

Exists(d) == d \in Deployments /\ deployment[d].state # "absent"

\* A run is of a deployment that was made; its command comes after it, and its messages after that.
Made(r) ==
  /\ run[r].status # "absent" => Exists(run[r].deployment)
  /\ command[r].status # "absent" => run[r].status # "absent"
  /\ queue[r].ready > 0 \/ queue[r].dead => command[r].status # "absent"
  /\ command[r].status = "running" <=> command[r].owner # NoExecutor

Shown(r) == deployment[run[r].deployment].state = "live" => deployment[run[r].deployment].url

Working(e) ==
  executor[e].pc # "idle" =>
    /\ executor[e].run \in Runs
    /\ command[executor[e].run].status # "absent"
    /\ executor[e].pc = "succeed" => Shown(executor[e].run)

\* The run a deploy request made is its own, and has no command before the request admits one.
Requesting(p) ==
  /\ deployer[p].pc \in {"run", "link", "abandon", "admit", "send"} => Exists(deployer[p].deployment)
  /\ deployer[p].pc \in {"link", "abandon", "admit", "send"} =>
       /\ deployer[p].run \in Runs
       /\ run[deployer[p].run].status # "absent"
       /\ deployer[p].pc \in {"link", "admit"} => command[deployer[p].run].status = "absent"
       /\ deployer[p].pc = "send" => command[deployer[p].run].status # "absent"
  /\ deployer[p].pc \in {"link", "admit"} =>
       \A q \in Deployers \ {p} :
         deployer[q].pc \in {"link", "admit"} => deployer[q].run # deployer[p].run

Deleting(x) == deleter[x].pc # "idle" => Exists(deleter[x].deployment)
Reading(v) == reader[v].pc # "idle" => reader[v].run \in Runs

RunInv ==
  /\ \A r \in Runs : Made(r) /\ (run[r].status = "success" => Shown(r))
  /\ \A d1, d2 \in LiveDeployments : d1 = d2

ActorInv ==
  /\ \A e \in Executors : Working(e)
  /\ \A p \in Deployers : Requesting(p)
  /\ \A x \in Deleters : Deleting(x)
  /\ \A v \in Readers : Reading(v)

Inv == Types /\ RunInv /\ ActorInv

-----------------------------------------------------------------------------
\* The initial state.
LEMMA InitInv == ASSUME DeploymentInit PROVE Inv
<1> USE DEF DeploymentInit
<1>1. Types
  BY DeploymentAssumption DEF Types, RowTypes, CommandTypes, ActorTypes, Commands, Messages,
     RunStatuses, ExecutorType, ExecutorPcs, DeployerPcs, IdleExecutor, IdleDeployer, IdleDeleter, IdleReader
<1>2. RunInv
  BY DEF RunInv, Made, LiveDeployments
<1>3. ActorInv
  BY DEF ActorInv, Working, Requesting, Deleting, Reading, IdleExecutor, IdleDeployer,
     IdleDeleter, IdleReader
<1> QED BY <1>1, <1>2, <1>3 DEF Inv

\* What most steps may do to a run and to its command: neither comes or goes, an active run
\* moves on or fails.
Steady(r) ==
  /\ run'[r].deployment = run[r].deployment
  /\ \/ run'[r] = run[r]
     \/ IsActive(r) /\ run'[r].status \in ActiveStatuses \cup {"failed"}
  /\ command'[r].status = "absent" <=> command[r].status = "absent"
  /\ command'[r].status = "running" <=> command'[r].owner # NoExecutor
  /\ queue'[r].ready > 0 \/ queue'[r].dead => command[r].status # "absent"

\* Such steps keep what is known of the runs, the deployments being as they were.
LEMMA SteadyRuns ==
  ASSUME Inv, Types', UNCHANGED deployment, \A r \in Runs : Steady(r)
  PROVE  RunInv'
<1>1. (\A d1, d2 \in LiveDeployments : d1 = d2)'
  BY DEF Inv, RunInv, LiveDeployments
<1>2. ASSUME NEW r \in Runs PROVE Made(r)' /\ (run[r].status = "success" => Shown(r))'
  <2>1. Made(r) /\ (run[r].status = "success" => Shown(r)) /\ Steady(r)
    BY DEF Inv, RunInv
  <2>2. run'[r].status = "absent" <=> run[r].status = "absent"
    BY <2>1 DEF Steady, IsActive, ActiveStatuses
  <2>3. run'[r].status = "success" => run[r].status = "success"
    BY <2>1 DEF Steady, IsActive, ActiveStatuses
  <2>4. Made(r)'
    BY <2>1, <2>2 DEF Steady, Made, Exists
  <2> QED BY <2>1, <2>3, <2>4 DEF Steady, Shown
<1> QED BY <1>1, <1>2 DEF RunInv

\* The requests and reads that do not take the step keep what they know.
LEMMA SteadyRequests ==
  ASSUME Inv, UNCHANGED deployment, \A r \in Runs : Steady(r)
  PROVE  /\ UNCHANGED deployer => (\A p \in Deployers : Requesting(p))'
         /\ UNCHANGED deleter => (\A x \in Deleters : Deleting(x))'
         /\ UNCHANGED reader => (\A v \in Readers : Reading(v))'
<1>1. \A r \in Runs : run'[r].status = "absent" <=> run[r].status = "absent"
  BY DEF Steady, IsActive, ActiveStatuses
<1>2. ASSUME NEW p \in Deployers, UNCHANGED deployer PROVE Requesting(p)'
  <2>1. Requesting(p)
    BY DEF Inv, ActorInv
  <2> QED BY <1>1, <1>2, <2>1 DEF Requesting, Exists, Steady
<1>3. UNCHANGED deleter => (\A x \in Deleters : Deleting(x))'
  BY DEF Inv, ActorInv, Deleting, Exists
<1>4. UNCHANGED reader => (\A v \in Readers : Reading(v))'
  BY DEF Inv, ActorInv, Reading
<1> QED BY <1>2, <1>3, <1>4

\* And so do the executors.
LEMMA SteadyExecutors ==
  ASSUME Inv, UNCHANGED deployment, \A r \in Runs : Steady(r),
         NEW e \in Executors, executor'[e] = executor[e]
  PROVE  Working(e)'
<1>1. Working(e)
  BY DEF Inv, ActorInv
<1> QED BY <1>1 DEF Working, Shown, Steady

\* A steady step of an executor keeps the invariant, if it keeps what that executor knows.
LEMMA ExecutorKeeps ==
  ASSUME Inv, Types', UNCHANGED <<deployment, deployer, deleter, reader>>,
         \A r \in Runs : Steady(r),
         NEW e \in Executors, \A f \in Executors \ {e} : executor'[f] = executor[f], Working(e)'
  PROVE  Inv'
<1>1. RunInv'
  BY SteadyRuns
<1>2. \A f \in Executors : Working(f)'
  BY SteadyExecutors
<1>3. ActorInv'
  BY <1>2, SteadyRequests DEF ActorInv
<1> QED BY <1>1, <1>3 DEF Inv

\* Nothing changes but where the executor is.
LEMMA GoesInv ==
  ASSUME Inv, NEW e \in Executors, executor[e].pc # "idle",
         NEW pc \in ExecutorPcs, NEW after \in {"complete", "throw", "refuse"},
         executor' = [executor EXCEPT ![e] = [@ EXCEPT !.pc = pc, !.after = after]],
         pc = "succeed" => Shown(executor[e].run),
         UNCHANGED <<deployment, command, queue, requests>>, site' \in {0} \cup Runs,
         run' \in [Runs -> [status : RunStatuses, deployment : {0} \cup Deployments]],
         \A r \in Runs : /\ run'[r].deployment = run[r].deployment
                         /\ \/ run'[r] = run[r]
                            \/ IsActive(r) /\ run'[r].status \in ActiveStatuses \cup {"failed"}
  PROVE  Inv'
<1> USE DEF requests
<1>1. Types'
  <2>1. [executor[e] EXCEPT !.pc = pc, !.after = after] \in ExecutorType
    <3>1. executor[e] \in ExecutorType
      BY DEF Inv, Types, ActorTypes
    <3> QED BY ONLY <3>1, pc \in ExecutorPcs, after \in {"complete", "throw", "refuse"}
            DEF ExecutorType
  <2>2. executor' \in [Executors -> ExecutorType]
    BY <2>1 DEF Inv, Types, ActorTypes, ExecutorType
  <2> QED BY <2>2 DEF Inv, Types, RowTypes, CommandTypes, ActorTypes
<1>2. \A r \in Runs : Steady(r)
  BY DEF Inv, RunInv, Made, Steady
<1>3. executor'[e].pc = pc /\ executor'[e].run = executor[e].run
  BY DEF Inv, Types, ActorTypes, ExecutorType
<1>4. Working(e)
  BY DEF Inv, ActorInv
<1>5. Working(e)'
  BY <1>2, <1>3, <1>4 DEF Working, Shown, Steady
<1>6. \A f \in Executors \ {e} : executor'[f] = executor[f]
  BY DEF Inv, Types, ActorTypes, ExecutorType
<1> QED BY <1>1, <1>2, <1>5, <1>6, ExecutorKeeps

\* Runs that are failed if they are active, and others that stay.
LEMMA FailedSteady ==
  ASSUME Types, NEW rs
  PROVE  /\ Failed(rs) \in [Runs -> [status : RunStatuses, deployment : {0} \cup Deployments]]
         /\ \A r \in Runs : /\ Failed(rs)[r].deployment = run[r].deployment
                            /\ \/ Failed(rs)[r] = run[r]
                               \/ IsActive(r) /\ Failed(rs)[r].status = "failed"
BY DEF Types, RowTypes, Failed, RunStatuses

-----------------------------------------------------------------------------
(* The execution of a run.                                                 *)

\* A stage moves the run on, if it is active.
LEMMA AdvanceInv ==
  ASSUME Inv, NEW e \in Executors, NEW status \in ActiveStatuses, status \in ExecutorPcs \ {"idle"},
         NEW next \in ExecutorPcs \ {"succeed"}, NEW otherwise \in ExecutorPcs \ {"succeed"},
         Advance(e, status, next, otherwise)
  PROVE  Inv'
<1> DEFINE r == executor[e].run
           after == executor[e].after
<1>1. executor[e].pc # "idle" /\ r \in Runs /\ after \in {"complete", "throw", "refuse"}
  BY DEF Advance, Inv, ActorInv, Working, Types, ActorTypes, ExecutorType
<1>2. /\ UNCHANGED <<deployment, command, queue, requests, site>>
      /\ site' \in {0} \cup Runs
  BY DEF Advance, Inv, Types, RowTypes
<1>3. PICK pc \in {next, otherwise} : executor' = [executor EXCEPT ![e].pc = pc]
  BY DEF Advance, Goes
<1>4. executor' = [executor EXCEPT ![e] = [@ EXCEPT !.pc = pc, !.after = after]]
  BY <1>3 DEF Inv, Types, ActorTypes, ExecutorType
<1>5. /\ run' \in [Runs -> [status : RunStatuses, deployment : {0} \cup Deployments]]
      /\ \A s \in Runs : /\ run'[s].deployment = run[s].deployment
                         /\ \/ run'[s] = run[s]
                            \/ IsActive(s) /\ run'[s].status \in ActiveStatuses
  <2>1. CASE run' = run
    BY <2>1 DEF Inv, Types, RowTypes
  <2>2. CASE IsActive(r) /\ run' = [run EXCEPT ![r].status = status]
    BY <1>1, <2>2 DEF Inv, Types, RowTypes, RunStatuses
  <2> QED BY <2>1, <2>2 DEF Advance
<1> HIDE DEF r, after
<1> QED BY <1>1, <1>2, <1>4, <1>5, GoesInv

\* The run succeeds if it is active, and its executor has published the address.
LEMMA SucceededInv ==
  ASSUME Inv, NEW e \in Executors, executor[e].pc = "succeed",
         NEW after \in {"complete", "throw", "refuse"},
         executor' = [executor EXCEPT ![e] = [@ EXCEPT !.pc = "compensate", !.after = after]],
         run' = Succeeded(executor[e].run), UNCHANGED <<deployment, command, queue, requests, site>>
  PROVE  Inv'
<1> DEFINE r == executor[e].run
<1>1. r \in Runs /\ Shown(r)
  BY DEF Inv, ActorInv, Working
<1>2. /\ run' \in [Runs -> [status : RunStatuses, deployment : {0} \cup Deployments]]
      /\ \A s \in Runs : /\ run'[s].deployment = run[s].deployment
                         /\ run'[s].status = "absent" <=> run[s].status = "absent"
                         /\ run'[s] = run[s] \/ s = r
  BY <1>1 DEF Succeeded, Inv, Types, RowTypes, RunStatuses, IsActive, ActiveStatuses
<1>3. executor \in [Executors -> ExecutorType]
  BY DEF Inv, Types, ActorTypes
<1>4. [executor[e] EXCEPT !.pc = "compensate", !.after = after] \in ExecutorType
  BY <1>3 DEF ExecutorType, ExecutorPcs
<1>5. /\ executor' \in [Executors -> ExecutorType]
      /\ executor'[e].pc = "compensate" /\ executor'[e].run = r
      /\ \A f \in Executors \ {e} : executor'[f] = executor[f]
  BY <1>3, <1>4 DEF ExecutorType
<1>6. Types'
  BY <1>2, <1>5 DEF Inv, Types, RowTypes, CommandTypes, ActorTypes, requests
<1>7. RunInv'
  BY <1>1, <1>2 DEF Inv, RunInv, Made, Shown, Exists, LiveDeployments
<1>8. \A f \in Executors : Working(f)'
  BY <1>1, <1>2, <1>5 DEF Inv, ActorInv, Working, Shown
<1>9. ActorInv'
  BY <1>1, <1>2, <1>8 DEF Inv, ActorInv, Requesting, Deleting, Reading, Exists, requests
<1> QED BY <1>6, <1>7, <1>9 DEF Inv

\* Reads, work outside of the tables, and the failing of the run.
LEMMA StageInv == ASSUME Inv, NEW e \in Executors, StageStep(e) PROVE Inv'
<1> DEFINE r == executor[e].run
           after == executor[e].after
           Moves(pc, then) ==
             executor' = [executor EXCEPT ![e] = [@ EXCEPT !.pc = pc, !.after = then]]
           RunsAre == /\ run' \in [Runs -> [status : RunStatuses, deployment : {0} \cup Deployments]]
                      /\ \A s \in Runs :
                           /\ run'[s].deployment = run[s].deployment
                           /\ \/ run'[s] = run[s]
                              \/ IsActive(s) /\ run'[s].status \in ActiveStatuses \cup {"failed"}
<1>1. after \in {"complete", "throw", "refuse"} /\ site \in {0} \cup Runs
  BY DEF Inv, Types, ActorTypes, RowTypes, ExecutorType
<1>2. \A pc : executor' = [executor EXCEPT ![e].pc = pc] => Moves(pc, after)
  BY DEF Inv, Types, ActorTypes, ExecutorType
<1>3. UNCHANGED run => RunsAre
  BY DEF Inv, Types, RowTypes
<1>4. executor[e].pc # "idle" => r \in Runs
  BY DEF Inv, ActorInv, Working
<1>5. CASE \/ MarkPreparing(e) \/ MarkBuilding(e) \/ MarkSubmitting(e)
           \/ MarkSubmitted(e) \/ MarkActivating(e)
  BY <1>5, AdvanceInv DEF MarkPreparing, MarkBuilding, MarkSubmitting, MarkSubmitted, MarkActivating,
     ActiveStatuses, ExecutorPcs
<1>6. CASE \/ ReadContext(e) \/ Prepare(e) \/ Build(e) \/ Recheck(e) \/ CheckDeleted(e)
           \/ CheckReplacement(e) \/ Unhost(e)
  <2>1. /\ executor[e].pc # "idle"
        /\ UNCHANGED <<deployment, run, command, queue, requests>>
        /\ site' \in {0, site}
    BY <1>6 DEF ReadContext, Prepare, Build, Recheck, CheckDeleted, CheckReplacement, Unhost, rows
  <2>2. PICK pc \in {"preparing", "complete", "building", "giveUp", "throw", "refuse", "submitting",
                     "deploy", "replacement", "unhost"} :
          executor' = [executor EXCEPT ![e].pc = pc]
    BY <1>1, <1>6 DEF ReadContext, Prepare, Build, Recheck, CheckDeleted, CheckReplacement, Unhost,
       Throws, Goes
  <2>3. Moves(pc, after) /\ RunsAre /\ pc \in ExecutorPcs \ {"succeed"} /\ site' \in {0} \cup Runs
    BY <1>1, <1>2, <1>3, <2>1, <2>2 DEF ExecutorPcs
  <2> HIDE DEF r, after
  <2> QED BY <1>1, <2>1, <2>3, GoesInv
<1>7. CASE Submit(e)
  <2>1. /\ executor[e].pc # "idle"
        /\ UNCHANGED <<deployment, run, command, queue, requests>>
        /\ site' \in {site, r}
    BY <1>7 DEF Submit, rows
  <2>2. \E pc \in {"submitted", "compensate"}, then \in {after, "throw", "refuse"} : Moves(pc, then)
    <3>1. CASE Goes(e, "submitted")
      BY <1>2, <3>1 DEF Goes
    <3>2. ASSUME NEW then \in {"throw", "refuse"},
                 executor' = [executor EXCEPT ![e] = [@ EXCEPT !.pc = "compensate", !.after = then]]
          PROVE  Moves("compensate", then)
      BY <3>2
    <3> QED BY <1>7, <3>1, <3>2 DEF Submit
  <2>3. PICK pc \in {"submitted", "compensate"}, then \in {after, "throw", "refuse"} : Moves(pc, then)
    BY <2>2
  <2>4. RunsAre /\ pc \in ExecutorPcs \ {"succeed"} /\ then \in {"complete", "throw", "refuse"}
        /\ site' \in {0} \cup Runs
    BY <1>1, <1>3, <1>4, <2>1 DEF ExecutorPcs
  <2> HIDE DEF r, after
  <2> QED BY <2>1, <2>3, <2>4, GoesInv
<1>8. CASE GiveUp(e) \/ FailLate(e)
  <2>1. /\ executor[e].pc # "idle" /\ run' = Failed({r})
        /\ UNCHANGED <<deployment, command, queue, requests, site>>
    BY <1>8 DEF GiveUp, FailLate
  <2>2. PICK pc \in {"complete", "compensate"} : executor' = [executor EXCEPT ![e].pc = pc]
    BY <1>8 DEF GiveUp, FailLate, Goes
  <2>3. RunsAre
    BY <2>1, FailedSteady DEF Inv
  <2>4. Moves(pc, after) /\ pc \in ExecutorPcs \ {"succeed"} /\ site' \in {0} \cup Runs
    BY <1>1, <1>2, <2>1, <2>2 DEF ExecutorPcs
  <2> HIDE DEF r, after
  <2> QED BY <1>1, <2>1, <2>3, <2>4, GoesInv
<1>9. CASE PublishUrl(e)
  <2>1. r \in Runs /\ executor[e].pc = "publish" /\ UNCHANGED <<run, command, queue, requests, site>>
    BY <1>4, <1>9 DEF PublishUrl
  <2> DEFINE d == run[r].deployment
  <2>2. CASE deployment' = deployment /\ Goes(e, "failLate")
    <3>1. Moves("failLate", after)
      BY <1>2, <2>2 DEF Goes
    <3>2. "failLate" \in ExecutorPcs
      BY DEF ExecutorPcs
    <3> HIDE DEF r, after
    <3> QED BY <1>1, <1>3, <2>1, <2>2, <3>1, <3>2, GoesInv
  <2>3. CASE deployment' = [deployment EXCEPT ![d].url = TRUE] /\ Goes(e, "succeed")
    <3>1. d \in Deployments
      BY <2>1 DEF Inv, ActorInv, Working, RunInv, Made, Exists
    <3>2. /\ \A i \in Deployments : /\ deployment'[i].state = deployment[i].state
                                    /\ deployment[i].url => deployment'[i].url
          /\ deployment'[d].url
      BY <2>3, <3>1 DEF Inv, Types, RowTypes
    <3>3. /\ executor'[e].pc = "succeed" /\ executor'[e].run = r
          /\ \A f \in Executors \ {e} : executor'[f] = executor[f]
      BY <2>3 DEF Goes, Inv, Types, ActorTypes, ExecutorType
    <3>4. Types'
      <4>1. [executor[e] EXCEPT !.pc = "succeed"] \in ExecutorType
        BY DEF Inv, Types, ActorTypes, ExecutorType, ExecutorPcs
      <4>2. executor' \in [Executors -> ExecutorType]
        BY <2>3, <4>1 DEF Goes, Inv, Types, ActorTypes, ExecutorType
      <4>3. RowTypes'
        BY <2>1, <2>3, <3>1 DEF Inv, Types, RowTypes
      <4> QED BY <2>1, <4>2, <4>3 DEF Inv, Types, CommandTypes, ActorTypes, requests
    <3>5. \A s \in Runs : Made(s)' /\ (Shown(s) => Shown(s)' \/ run[s].status = "absent")
      BY <2>1, <3>2 DEF Inv, RunInv, Made, Exists, Shown
    <3>6. RunInv'
      BY <2>1, <3>2, <3>5 DEF Inv, RunInv, LiveDeployments
    <3>7. \A f \in Executors : Working(f)'
      <4> SUFFICES ASSUME NEW f \in Executors PROVE Working(f)'
        OBVIOUS
      <4>1. Working(f) /\ Working(e)
        BY DEF Inv, ActorInv
      <4>2. CASE f = e
        BY <2>1, <3>2, <3>3, <4>1, <4>2 DEF Working, Shown
      <4>3. CASE f # e
        <5>1. executor'[f] = executor[f] /\ (executor[f].pc # "idle" =>
                /\ executor[f].run \in Runs /\ run[executor[f].run].status # "absent")
          BY <3>3, <4>1, <4>3 DEF Working, Inv, RunInv, Made
        <5> QED BY <2>1, <3>5, <4>1, <5>1 DEF Working
      <4> QED BY <4>2, <4>3
    <3>8. ActorInv'
      BY <2>1, <3>2, <3>7 DEF Inv, ActorInv, Requesting, Deleting, Reading, Exists, requests
    <3> QED BY <3>4, <3>6, <3>8 DEF Inv
  <2> QED BY <1>9, <2>2, <2>3 DEF PublishUrl
<1>10. CASE Succeed(e)
  <2>1. Moves("compensate", after)
    BY <1>2, <1>10 DEF Succeed, Goes
  <2> HIDE DEF after
  <2> QED BY <1>1, <1>10, <2>1, SucceededInv DEF Succeed
<1> QED BY <1>5, <1>6, <1>7, <1>8, <1>9, <1>10 DEF StageStep

\* A statement that throws leaves the run as it is, or has ended it.
LEMMA ThrowInv == ASSUME Inv, NEW e \in Executors, Throw(e) PROVE Inv'
<1> DEFINE after == executor[e].after
           Moves(pc, then) ==
             executor' = [executor EXCEPT ![e] = [@ EXCEPT !.pc = pc, !.after = then]]
<1>1. /\ after \in {"complete", "throw", "refuse"} /\ executor[e].pc # "idle"
      /\ UNCHANGED <<deployment, command, queue, requests, site>> /\ site' \in {0} \cup Runs
      /\ {"throw", "compensate"} \subseteq ExecutorPcs
  BY DEF Throw, ExecutorPcs, Inv, Types, ActorTypes, RowTypes, ExecutorType
<1>2. Moves("throw", after) \/ Moves("compensate", "throw")
  BY DEF Throw, Goes, Inv, Types, ActorTypes, ExecutorType
<1>3. CASE executor[e].pc = "succeed" /\ run' = Succeeded(executor[e].run)
  <2>1. Moves("compensate", "throw")
    BY <1>3 DEF Throw
  <2> QED BY <1>1, <1>3, <2>1, SucceededInv
<1>4. CASE run' = run \/ run' = Failed({executor[e].run})
  <2>1. /\ run' \in [Runs -> [status : RunStatuses, deployment : {0} \cup Deployments]]
        /\ \A r \in Runs : /\ run'[r].deployment = run[r].deployment
                           /\ \/ run'[r] = run[r]
                              \/ IsActive(r) /\ run'[r].status = "failed"
    BY <1>4, FailedSteady DEF Inv, Types, RowTypes
  <2>2. PICK pc \in {"throw", "compensate"}, then \in {after, "throw"} : Moves(pc, then)
    BY <1>2
  <2>3. pc \in ExecutorPcs /\ then \in {"complete", "throw", "refuse"} /\ pc # "succeed"
    BY <1>1
  <2> HIDE DEF after
  <2> QED BY <1>1, <2>1, <2>2, <2>3, GoesInv
<1> QED BY <1>3, <1>4 DEF Throw

-----------------------------------------------------------------------------
(* How a claim begins and ends.                                            *)

\* The executor is idle again, and what it leaves of its command stays a command.
LEMMA EndsInv ==
  ASSUME Inv, NEW e \in Executors, Ends(e), Types', UNCHANGED <<deployment, requests>>,
         \A r \in Runs : Steady(r)
  PROVE  Inv'
<1>1. executor'[e].pc = "idle" /\ \A f \in Executors \ {e} : executor'[f] = executor[f]
  BY DEF Ends, IdleExecutor, Inv, Types, ActorTypes
<1>2. Working(e)'
  BY <1>1 DEF Working
<1> QED BY <1>1, <1>2, ExecutorKeeps DEF requests

\* The idle executor has the type of one.
LEMMA EndsType ==
  ASSUME ActorTypes, NEW e \in Executors, Ends(e) PROVE executor' \in [Executors -> ExecutorType]
<1>1. IdleExecutor \in ExecutorType
  BY DEF IdleExecutor, ExecutorType, ExecutorPcs
<1> QED BY <1>1 DEF Ends, ActorTypes

\* Settling a command leaves it a command that nobody owns, or as it was.
LEMMA SettledSteady ==
  ASSUME Inv, NEW e \in Executors, executor[e].pc # "idle",
         NEW status \in {"succeeded", "queued", "failed"}, NEW note \in {"none", "error"},
         Settled(e, status, note)
  PROVE  /\ command' \in [Runs -> Commands]
         /\ \A r \in Runs :
              /\ command'[r].status = "absent" <=> command[r].status = "absent"
              /\ command'[r].status = "running" <=> command'[r].owner # NoExecutor
<1> DEFINE r == executor[e].run
<1>1. r \in Runs /\ command[r].status # "absent"
  BY DEF Inv, ActorInv, Working
<1>2. \A s \in Runs : command[s].status = "running" <=> command[s].owner # NoExecutor
  BY DEF Inv, RunInv, Made
<1>3. command \in [Runs -> Commands]
  BY DEF Inv, Types, CommandTypes
<1>4. CASE command' = command
  BY <1>2, <1>3, <1>4
<1>5. CASE command' = [command EXCEPT ![r] = [@ EXCEPT !.status = status, !.note = note,
                                                       !.owner = NoExecutor, !.lease = "none"]]
  <2> HIDE DEF r
  <2>1. [command[r] EXCEPT !.status = status, !.note = note, !.owner = NoExecutor,
                           !.lease = "none"] \in Commands
    BY <1>1, <1>3 DEF Commands
  <2>2. /\ command' \in [Runs -> Commands] /\ \A s \in Runs \ {r} : command'[s] = command[s]
        /\ command'[r].status = status /\ command'[r].owner = NoExecutor
    BY <1>1, <1>3, <1>5, <2>1 DEF Commands
  <2> QED BY <1>1, <1>2, <2>2
<1> QED BY <1>4, <1>5 DEF Settled

\* Completing, releasing and failing the command.
LEMMA SettleInv ==
  ASSUME Inv, NEW e \in Executors, Complete(e) \/ Release(e) \/ FailCommand(e) PROVE Inv'
<1>1. /\ executor[e].pc # "idle" /\ Ends(e)
      /\ UNCHANGED <<deployment, run, site, requests>>
      /\ \E status \in {"succeeded", "queued", "failed"}, note \in {"none", "error"} :
           Settled(e, status, note)
  BY DEF Complete, Release, FailCommand
<1>2. /\ command' \in [Runs -> Commands]
      /\ \A r \in Runs : /\ command'[r].status = "absent" <=> command[r].status = "absent"
                         /\ command'[r].status = "running" <=> command'[r].owner # NoExecutor
  BY <1>1, SettledSteady
<1>3. executor[e].run \in Runs /\ command[executor[e].run].status # "absent"
  BY <1>1 DEF Inv, ActorInv, Working
<1>4. /\ queue' \in [Runs -> Messages]
      /\ \A r \in Runs : queue'[r] = queue[r] \/ r = executor[e].run
  BY <1>3 DEF Complete, Release, FailCommand, Inv, Types, CommandTypes, Messages
<1>5. executor' \in [Executors -> ExecutorType]
  BY <1>1, EndsType DEF Inv, Types
<1>6. Types'
  BY <1>1, <1>2, <1>4, <1>5 DEF Inv, Types, RowTypes, CommandTypes, ActorTypes, requests
<1>7. \A r \in Runs : Steady(r)
  BY <1>1, <1>2, <1>3, <1>4 DEF Inv, RunInv, Made, Steady
<1> QED BY <1>1, <1>6, <1>7, EndsInv

\* The run of a command that fails is failed too, or that write is lost.
LEMMA FailRunInv == ASSUME Inv, NEW e \in Executors, FailRun(e) PROVE Inv'
<1> DEFINE after == executor[e].after
<1>1. after \in {"complete", "throw", "refuse"} /\ executor[e].pc # "idle"
  BY DEF FailRun, Inv, Types, ActorTypes, ExecutorType
<1>2. executor' = [executor EXCEPT ![e] = [@ EXCEPT !.pc = "failCommand", !.after = after]]
  BY DEF FailRun, Goes, Inv, Types, ActorTypes, ExecutorType
<1>3. UNCHANGED <<deployment, command, queue, requests>> /\ site' \in {0} \cup Runs
  BY DEF FailRun, Inv, Types, RowTypes
<1>4. /\ run' \in [Runs -> [status : RunStatuses, deployment : {0} \cup Deployments]]
      /\ \A r \in Runs : /\ run'[r].deployment = run[r].deployment
                         /\ \/ run'[r] = run[r]
                            \/ IsActive(r) /\ run'[r].status = "failed"
  BY FailedSteady DEF FailRun, Inv, Types, RowTypes
<1>5. "failCommand" \in ExecutorPcs
  BY DEF ExecutorPcs
<1> HIDE DEF after
<1> QED BY <1>1, <1>2, <1>3, <1>4, <1>5, GoesInv

\* The lost executor's message is under way again, or dead.
LEMMA LoseExecutorInv == ASSUME Inv, NEW e \in Executors, LoseExecutor(e) PROVE Inv'
<1> DEFINE r == executor[e].run
<1>1. /\ executor[e].pc # "idle" /\ Ends(e)
      /\ UNCHANGED <<deployment, run, command, site, requests>>
  BY DEF LoseExecutor, rows
<1>2. r \in Runs /\ command[r].status # "absent"
  BY <1>1 DEF Inv, ActorInv, Working
<1>3. queue' \in {[queue EXCEPT ![r].ready = @ + 1], [queue EXCEPT ![r].dead = TRUE]}
  BY DEF LoseExecutor
<1>4. queue \in [Runs -> Messages]
  BY DEF Inv, Types, CommandTypes
<1> HIDE DEF r
<1>5. /\ queue' \in [Runs -> Messages]
      /\ \A s \in Runs \ {r} : queue'[s] = queue[s]
  <2>1. CASE queue' = [queue EXCEPT ![r].ready = @ + 1]
    BY <1>2, <1>4, <2>1 DEF Messages
  <2>2. CASE queue' = [queue EXCEPT ![r].dead = TRUE]
    BY <1>2, <1>4, <2>2 DEF Messages
  <2> QED BY <1>3, <2>1, <2>2
<1>6. executor' \in [Executors -> ExecutorType]
  BY <1>1, EndsType DEF Inv, Types
<1>7. Types'
  BY <1>1, <1>5, <1>6 DEF Inv, Types, RowTypes, CommandTypes, ActorTypes, requests
<1>8. \A s \in Runs : Steady(s)
  BY <1>1, <1>2, <1>5 DEF Inv, RunInv, Made, Steady
<1> QED BY <1>1, <1>7, <1>8, EndsInv

\* The executor that claims a command is the only one to work on its claim.
LEMMA ClaimInv == ASSUME Inv, NEW e \in Executors, NEW r \in Runs, Claim(e, r) PROVE Inv'
<1>1. /\ UNCHANGED <<deployment, run, site, requests>>
      /\ queue[r].ready > 0 /\ command[r].status # "absent"
      /\ queue' = [queue EXCEPT ![r].ready = @ - 1]
  BY DEF Claim, Inv, RunInv, Made
<1>2. /\ queue' \in [Runs -> Messages]
      /\ \A s \in Runs \ {r} : queue'[s] = queue[s]
  BY <1>1 DEF Inv, Types, CommandTypes, Messages
<1>3. CASE UNCHANGED <<command, executor>>
  <2>1. Types'
    BY <1>1, <1>2, <1>3 DEF Inv, Types, RowTypes, CommandTypes, ActorTypes, requests
  <2>2. \A s \in Runs : Steady(s)
    BY <1>1, <1>2, <1>3 DEF Inv, RunInv, Made, Steady
  <2>3. Working(e)'
    BY <1>3, <2>2, <1>1, SteadyExecutors
  <2> QED BY <1>1, <1>3, <2>1, <2>2, <2>3, ExecutorKeeps DEF requests
<1>4. CASE /\ command' = [command EXCEPT ![r] =
                [@ EXCEPT !.status = "running", !.owner = e, !.lease = "live",
                          !.attempts = command[r].attempts + 1]]
           /\ executor' = [executor EXCEPT ![e] =
                [@ EXCEPT !.pc = "context", !.run = r, !.attempt = command[r].attempts + 1]]
  <2>1. command[r] \in Commands /\ executor[e] \in ExecutorType
    BY DEF Inv, Types, CommandTypes, ActorTypes
  <2> DEFINE n == command[r].attempts + 1
  <2>2. n \in Nat
    BY <2>1 DEF Commands
  <2>3. command' = [command EXCEPT ![r] =
          [command[r] EXCEPT !.status = "running", !.owner = e, !.lease = "live", !.attempts = n]]
    BY <1>4 DEF Inv, Types, CommandTypes
  <2>4. executor' = [executor EXCEPT ![e] =
          [executor[e] EXCEPT !.pc = "context", !.run = r, !.attempt = n]]
    BY <1>4 DEF Inv, Types, ActorTypes
  <2> HIDE DEF n
  <2>5. [command[r] EXCEPT !.status = "running", !.owner = e, !.lease = "live",
                           !.attempts = n] \in Commands
    BY <2>1, <2>2 DEF Commands
  <2>6. [executor[e] EXCEPT !.pc = "context", !.run = r, !.attempt = n] \in ExecutorType
    BY <2>1, <2>2 DEF ExecutorType, ExecutorPcs
  <2>7. /\ command' \in [Runs -> Commands] /\ executor' \in [Executors -> ExecutorType]
        /\ \A s \in Runs \ {r} : command'[s] = command[s]
        /\ \A f \in Executors \ {e} : executor'[f] = executor[f]
    BY <2>3, <2>4, <2>5, <2>6 DEF Inv, Types, CommandTypes, ActorTypes
  <2>8. /\ command'[r].status = "running" /\ command'[r].owner = e
        /\ executor'[e].pc = "context" /\ executor'[e].run = r
    BY <2>3, <2>4, <2>1 DEF Inv, Types, CommandTypes, ActorTypes, Commands, ExecutorType
  <2>9. Types'
    BY <1>1, <1>2, <2>7 DEF Inv, Types, RowTypes, CommandTypes, ActorTypes, requests
  <2>10. \A s \in Runs : Steady(s)
    BY <1>1, <1>2, <2>7, <2>8, DeploymentAssumption DEF Inv, RunInv, Made, Steady
  <2>11. Working(e)'
    BY <2>8 DEF Working
  <2> QED BY <1>1, <2>7, <2>9, <2>10, <2>11, ExecutorKeeps DEF requests
<1> QED BY <1>3, <1>4 DEF Claim

-----------------------------------------------------------------------------
(* The queue, the lease, and reads.                                        *)

\* A steady step that no executor takes keeps the invariant.
LEMMA QuietInv ==
  ASSUME Inv, Types', UNCHANGED <<deployment, executor, deployer, deleter>>,
         \A r \in Runs : Steady(r), \A v \in Readers : Reading(v)'
  PROVE  Inv'
<1>1. RunInv'
  BY SteadyRuns
<1>2. \A e \in Executors : Working(e)'
  BY SteadyExecutors
<1>3. ActorInv'
  BY <1>2, SteadyRequests DEF ActorInv
<1> QED BY <1>1, <1>3 DEF Inv

\* The mark of a command that is sent is cleared or stays, and the command stays what it is.
LEMMA SentSteady ==
  ASSUME Inv, NEW r \in Runs, Delivered(r), command' = Cleared(r) \/ command' = command
  PROVE  /\ command' \in [Runs -> Commands] /\ queue' \in [Runs -> Messages]
         /\ \A s \in Runs : /\ command'[s].status = command[s].status
                            /\ command'[s].owner = command[s].owner
                            /\ queue'[s] = queue[s] \/ s = r
<1>1. command \in [Runs -> Commands] /\ queue \in [Runs -> Messages]
  BY DEF Inv, Types, CommandTypes
<1>2. queue' \in [Runs -> Messages] /\ \A s \in Runs : queue'[s] = queue[s] \/ s = r
  BY <1>1 DEF Delivered, Messages
<1>3. CASE command' = command
  BY <1>1, <1>2, <1>3
<1>4. CASE command' = Cleared(r)
  <2>1. PICK note \in {"none", "undelivered", "error"} :
          command' = [command EXCEPT ![r].note = note]
    BY <1>1, <1>4 DEF Cleared, Commands
  <2>2. [command[r] EXCEPT !.note = note] \in Commands
    BY <1>1 DEF Commands
  <2>3. command' \in [Runs -> Commands]
    BY <1>1, <2>1, <2>2
  <2>4. \A s \in Runs : command'[s].status = command[s].status /\ command'[s].owner = command[s].owner
    BY <1>1, <2>1 DEF Commands
  <2> QED BY <1>2, <2>3, <2>4
<1> QED BY <1>3, <1>4

\* The scheduled redrive sends what is admitted.
LEMMA RedriveInv == ASSUME Inv, NEW r \in Runs, Redrive(r) PROVE Inv'
<1>1. /\ command[r].status # "absent" /\ Delivered(r)
      /\ command' = Cleared(r) \/ command' = command
      /\ UNCHANGED <<deployment, run, site, executor, requests>>
  BY DEF Redrive, Sent
<1>2. Types'
  BY <1>1, SentSteady DEF Inv, Types, RowTypes, CommandTypes, ActorTypes, requests
<1>3. \A s \in Runs : Steady(s)
  BY <1>1, SentSteady DEF Inv, RunInv, Made, Steady
<1> QED BY <1>1, <1>2, <1>3, QuietInv, SteadyRequests DEF requests

\* A command that is dead-lettered, or fails after a read, or whose lease lapses.
LEMMA RowInv ==
  ASSUME Inv, NEW r \in Runs, command[r].status # "absent", NEW row \in Commands,
         row.status # "absent", row.status = "running" <=> row.owner # NoExecutor,
         command' = [command EXCEPT ![r] = row],
         queue' \in [Runs -> Messages],
         \A s \in Runs : queue'[s] = queue[s] \/ s = r,
         run' = run \/ \E rs : run' = Failed(rs),
         reader' \in [Readers -> [pc : {"idle", "failRun", "failCommand"}, run : {0} \cup Runs,
                                  exhausted : BOOLEAN]],
         \A v \in Readers : reader'[v].pc # "idle" => reader'[v].run \in Runs,
         UNCHANGED <<deployment, site, executor, deployer, deleter>>
  PROVE  Inv'
<1>1. command \in [Runs -> Commands]
  BY DEF Inv, Types, CommandTypes
<1>2. /\ command' \in [Runs -> Commands] /\ command'[r] = row
      /\ \A s \in Runs \ {r} : command'[s] = command[s]
  BY <1>1
<1>3. /\ run' \in [Runs -> [status : RunStatuses, deployment : {0} \cup Deployments]]
      /\ \A s \in Runs : /\ run'[s].deployment = run[s].deployment
                         /\ run'[s] = run[s] \/ (IsActive(s) /\ run'[s].status = "failed")
  BY FailedSteady DEF Inv, Types, RowTypes
<1>4. Types'
  BY <1>2, <1>3 DEF Inv, Types, RowTypes, CommandTypes, ActorTypes
<1>5. \A s \in Runs : Steady(s)
  BY <1>2, <1>3 DEF Inv, RunInv, Made, Steady
<1> QED BY <1>4, <1>5, QuietInv DEF Reading

\* The dead-letter consumer ends the command, whoever owns it.
LEMMA DeadLetterInv == ASSUME Inv, NEW r \in Runs, DeadLetter(r) PROVE Inv'
<1> DEFINE row == [command[r] EXCEPT !.status = "dead_lettered", !.note = "error",
                                     !.owner = NoExecutor, !.lease = "none"]
<1>1. command \in [Runs -> Commands] /\ queue \in [Runs -> Messages]
  BY DEF Inv, Types, CommandTypes
<1>2. row \in Commands /\ row.status = "dead_lettered" /\ row.owner = NoExecutor
  BY <1>1 DEF Commands
<1>3. command[r].status # "absent"
  BY DEF DeadLetter, Inv, RunInv, Made
<1>4. /\ command' = [command EXCEPT ![r] = row] /\ run' = run
      /\ queue' = [queue EXCEPT ![r].dead = FALSE, ![r].failed = FALSE]
      /\ UNCHANGED <<deployment, site, executor, requests>>
  BY DEF DeadLetter
<1>5. /\ queue' \in [Runs -> Messages]
      /\ \A s \in Runs : queue'[s] = queue[s] \/ s = r
  BY <1>1, <1>4 DEF Messages
<1>6. /\ reader' \in [Readers -> [pc : {"idle", "failRun", "failCommand"}, run : {0} \cup Runs,
                                  exhausted : BOOLEAN]]
      /\ \A v \in Readers : reader'[v].pc # "idle" => reader'[v].run \in Runs
  BY <1>4 DEF requests, Inv, Types, ActorTypes, ActorInv, Reading
<1> HIDE DEF row
<1> QED BY <1>2, <1>3, <1>4, <1>5, <1>6, RowInv DEF requests

\* The run it dispatches is failed before, or the failure to do so is logged.
LEMMA DeadLetterRunInv == ASSUME Inv, NEW r \in Runs, DeadLetterRun(r) PROVE Inv'
<1>1. /\ queue[r].dead /\ queue' = [queue EXCEPT ![r].failed = TRUE]
      /\ run' = run \/ run' = Failed({r})
      /\ UNCHANGED <<deployment, command, site, executor, requests>>
  BY DEF DeadLetterRun
<1>2. queue \in [Runs -> Messages] /\ command[r].status # "absent"
  BY <1>1 DEF Inv, Types, CommandTypes, RunInv, Made
<1>3. /\ queue' \in [Runs -> Messages]
      /\ \A s \in Runs : queue'[s] = queue[s] \/ s = r
  BY <1>1, <1>2 DEF Messages
<1>4. /\ run' \in [Runs -> [status : RunStatuses, deployment : {0} \cup Deployments]]
      /\ \A s \in Runs : /\ run'[s].deployment = run[s].deployment
                         /\ run'[s] = run[s] \/ (IsActive(s) /\ run'[s].status = "failed")
  BY <1>1, FailedSteady DEF Inv, Types, RowTypes
<1>5. Types'
  BY <1>1, <1>3, <1>4 DEF Inv, Types, RowTypes, CommandTypes, ActorTypes, requests
<1>6. \A s \in Runs : Steady(s)
  BY <1>1, <1>2, <1>3, <1>4 DEF Inv, RunInv, Made, Steady
<1> QED BY <1>1, <1>5, <1>6, QuietInv, SteadyRequests DEF requests

\* A lease that lapses leaves the command to its owner.
LEMMA LeaseLapsesInv == ASSUME Inv, NEW r \in Runs, LeaseLapses(r) PROVE Inv'
<1> DEFINE row == [command[r] EXCEPT !.lease = "lapsed"]
<1>1. command \in [Runs -> Commands] /\ queue \in [Runs -> Messages]
  BY DEF Inv, Types, CommandTypes
<1>2. row \in Commands /\ row.status = command[r].status /\ row.owner = command[r].owner
  BY <1>1 DEF Commands
<1>3. command[r].status = "running" <=> command[r].owner # NoExecutor
  BY DEF Inv, RunInv, Made
<1>4. /\ command' = [command EXCEPT ![r] = row]
      /\ UNCHANGED <<deployment, run, queue, site, executor, requests>>
  BY DEF LeaseLapses
<1>5. /\ reader' \in [Readers -> [pc : {"idle", "failRun", "failCommand"}, run : {0} \cup Runs,
                                  exhausted : BOOLEAN]]
      /\ \A v \in Readers : reader'[v].pc # "idle" => reader'[v].run \in Runs
  BY <1>4 DEF requests, Inv, Types, ActorTypes, ActorInv, Reading
<1> HIDE DEF row
<1>6. CASE command[r].status # "absent"
  BY <1>1, <1>2, <1>3, <1>4, <1>5, <1>6, RowInv DEF requests
<1>7. CASE command[r].status = "absent"
  <2>1. command' \in [Runs -> Commands] /\ command'[r] = row
        /\ \A s \in Runs \ {r} : command'[s] = command[s]
    BY <1>1, <1>2, <1>4
  <2>2. Types'
    BY <1>4, <2>1 DEF Inv, Types, RowTypes, CommandTypes, ActorTypes, requests
  <2>3. \A s \in Runs : Steady(s)
    BY <1>2, <1>4, <2>1 DEF Inv, RunInv, Made, Steady
  <2> QED BY <1>4, <2>2, <2>3, QuietInv, SteadyRequests DEF requests
<1> QED BY <1>6, <1>7

\* Reads.
LEMMA ReadInv ==
  ASSUME Inv, NEW v \in Readers,
         ReaderStep(v) \/ LoseReader(v) \/ \E r \in Runs : Read(v, r)
  PROVE  Inv'
<1> DEFINE Readings == [pc : {"idle", "failRun", "failCommand"}, run : {0} \cup Runs,
                        exhausted : BOOLEAN]
<1>1. reader \in [Readers -> Readings] /\ queue \in [Runs -> Messages]
  BY DEF Inv, Types, ActorTypes, CommandTypes
<1>2. UNCHANGED <<deployment, queue, site, executor, deployer, deleter>>
  BY DEF ReaderStep, FailReadRun, FailReadCommand, LoseReader, Read, rows
<1>3. PICK x \in Readings : reader' = [reader EXCEPT ![v] = x] /\ (x.pc # "idle" => x.run \in Runs)
  <2>1. ASSUME NEW r \in Runs, Read(v, r)
        PROVE  \E x \in Readings : reader' = [reader EXCEPT ![v] = x] /\ x.run \in Runs
    <3>1. IsExhausted(r) \in BOOLEAN
      BY DEF IsExhausted
    <3>2. [pc |-> "failRun", run |-> r, exhausted |-> IsExhausted(r)] \in Readings
      BY <3>1
    <3>3. reader' = [reader EXCEPT ![v] =
                       [pc |-> "failRun", run |-> r, exhausted |-> IsExhausted(r)]]
      BY <2>1 DEF Read
    <3> QED BY <3>2, <3>3
  <2>2. IdleReader \in Readings /\ IdleReader.pc = "idle"
    BY DEF IdleReader
  <2>3. reader[v].pc # "idle" => reader[v].run \in Runs
    BY DEF Inv, ActorInv, Reading
  <2>4. [reader[v] EXCEPT !.pc = "failCommand"] \in Readings
        /\ [reader[v] EXCEPT !.pc = "failCommand"].run = reader[v].run
    BY <1>1
  <2> QED BY <2>1, <2>2, <2>3, <2>4 DEF ReaderStep, FailReadRun, FailReadCommand, LoseReader
<1>4. /\ reader' \in [Readers -> Readings]
      /\ \A w \in Readers : reader'[w].pc # "idle" => reader'[w].run \in Runs
  BY <1>1, <1>3 DEF Inv, ActorInv, Reading
<1>5. \/ UNCHANGED command /\ (run' = run \/ \E rs : run' = Failed(rs))
      \/ /\ UNCHANGED run
         /\ \E r \in Runs : /\ command[r].status \in {"queued", "running"}
                            /\ command' = [command EXCEPT ![r] =
                                 [@ EXCEPT !.status = "failed", !.note = "error",
                                           !.owner = NoExecutor, !.lease = "none"]]
  BY DEF ReaderStep, FailReadRun, FailReadCommand, LoseReader, Read, rows, Inv, ActorInv, Reading
<1>6. CASE UNCHANGED command /\ (run' = run \/ \E rs : run' = Failed(rs))
  <2>1. /\ run' \in [Runs -> [status : RunStatuses, deployment : {0} \cup Deployments]]
        /\ \A s \in Runs : /\ run'[s].deployment = run[s].deployment
                           /\ run'[s] = run[s] \/ (IsActive(s) /\ run'[s].status = "failed")
    BY <1>6, FailedSteady DEF Inv, Types, RowTypes
  <2>2. Types'
    BY <1>2, <1>4, <1>6, <2>1 DEF Inv, Types, RowTypes, CommandTypes, ActorTypes
  <2>3. \A s \in Runs : Steady(s)
    BY <1>2, <1>6, <2>1 DEF Inv, RunInv, Made, Steady
  <2> QED BY <1>2, <1>4, <2>2, <2>3, QuietInv DEF Reading
<1>7. ASSUME NEW r \in Runs, command[r].status \in {"queued", "running"}, UNCHANGED run,
             command' = [command EXCEPT ![r] = [@ EXCEPT !.status = "failed", !.note = "error",
                                                         !.owner = NoExecutor, !.lease = "none"]]
      PROVE  Inv'
  <2> DEFINE row == [command[r] EXCEPT !.status = "failed", !.note = "error",
                                       !.owner = NoExecutor, !.lease = "none"]
  <2>1. row \in Commands /\ row.status = "failed" /\ row.owner = NoExecutor
    BY DEF Inv, Types, CommandTypes, Commands
  <2>2. command' = [command EXCEPT ![r] = row]
    BY <1>7
  <2> HIDE DEF row
  <2> QED BY <1>1, <1>2, <1>4, <1>7, <2>1, <2>2, RowInv
<1> QED BY <1>5, <1>6, <1>7

-----------------------------------------------------------------------------
(* Requests to deploy and to delete.                                       *)

DeployerType == [pc : DeployerPcs, run : {0} \cup Runs, deployment : {0} \cup Deployments]

\* A step of a deploy request that leaves the deployments and the existence of runs and
\* commands alone.
LEMMA DeployerKeeps ==
  ASSUME Inv, Types', UNCHANGED <<deployment, executor, deleter, reader>>,
         \A r \in Runs : Steady(r),
         NEW p \in Deployers, \A q \in Deployers \ {p} : deployer'[q] = deployer[q],
         deployer'[p].pc \in {"link", "admit"} =>
           deployer[p].pc \in {"link", "admit"} /\ deployer'[p].run = deployer[p].run,
         Requesting(p)'
  PROVE  Inv'
<1>1. RunInv'
  BY SteadyRuns
<1>2. \A e \in Executors : Working(e)'
  BY SteadyExecutors
<1>3. ASSUME NEW q \in Deployers, q # p PROVE Requesting(q)'
  <2>1. Requesting(q) /\ Requesting(p) /\ deployer'[q] = deployer[q]
    BY <1>3 DEF Inv, ActorInv
  <2>2. \A r \in Runs : run'[r].status = "absent" <=> run[r].status = "absent"
    BY DEF Steady, IsActive, ActiveStatuses
  <2> QED BY <2>1, <2>2 DEF Requesting, Exists, Steady
<1>4. (\A x \in Deleters : Deleting(x))' /\ (\A v \in Readers : Reading(v))'
  BY SteadyRequests
<1>5. ActorInv'
  BY <1>2, <1>3, <1>4 DEF ActorInv
<1> QED BY <1>1, <1>5 DEF Inv

\* The request goes on, or ends.
LEMMA DeployerGoesType ==
  ASSUME ActorTypes, NEW p \in Deployers, NEW pc \in DeployerPcs,
         DeployerGoes(p, pc) \/ DeployerEnds(p)
  PROVE  /\ deployer' \in [Deployers -> DeployerType]
         /\ \A q \in Deployers \ {p} : deployer'[q] = deployer[q]
         /\ \/ deployer'[p].pc = "idle"
            \/ /\ deployer'[p].pc = pc /\ deployer'[p].run = deployer[p].run
               /\ deployer'[p].deployment = deployer[p].deployment
<1>1. IdleDeployer \in DeployerType /\ IdleDeployer.pc = "idle"
  BY DEF IdleDeployer, DeployerType, DeployerPcs
<1>2. deployer \in [Deployers -> DeployerType]
  BY DEF ActorTypes, DeployerType
<1>3. CASE DeployerEnds(p)
  BY <1>1, <1>2, <1>3 DEF DeployerEnds
<1>4. CASE DeployerGoes(p, pc)
  BY <1>2, <1>4 DEF DeployerGoes, DeployerType
<1> QED BY <1>3, <1>4

\* Steps that write at most the run and its command.
LEMMA DeployInv ==
  ASSUME Inv, NEW p \in Deployers,
         Deploy(p) \/ AbandonRun(p) \/ AdmitDispatch(p) \/ SendDispatch(p) \/ LoseDeployer(p)
  PROVE  Inv'
<1> DEFINE r == deployer[p].run
<1>1. UNCHANGED <<deployment, site, executor, deleter, reader>>
  BY DEF Deploy, AbandonRun, AdmitDispatch, SendDispatch, LoseDeployer, rows
<1>2. PICK pc \in {"lookup", "send", "abandon"} :
        /\ DeployerGoes(p, pc) \/ DeployerEnds(p)
        /\ pc # "lookup" => deployer[p].pc = "admit"
  BY DEF Deploy, AbandonRun, AdmitDispatch, SendDispatch, LoseDeployer
<1>3. pc \in DeployerPcs
  BY DEF DeployerPcs
<1>4. /\ deployer' \in [Deployers -> DeployerType]
      /\ \A q \in Deployers \ {p} : deployer'[q] = deployer[q]
      /\ \/ deployer'[p].pc = "idle"
         \/ /\ deployer'[p].pc = pc /\ deployer'[p].run = deployer[p].run
            /\ deployer'[p].deployment = deployer[p].deployment
  BY <1>2, <1>3, DeployerGoesType DEF Inv, Types
<1>5. Requesting(p)
  BY DEF Inv, ActorInv
<1>6. command \in [Runs -> Commands] /\ queue \in [Runs -> Messages]
  BY DEF Inv, Types, CommandTypes
<1>7. CASE UNCHANGED <<command, queue>> /\ (run' = run \/ run' = Failed({r}))
           /\ ~DeployerGoes(p, "send")
  <2>1. /\ run' \in [Runs -> [status : RunStatuses, deployment : {0} \cup Deployments]]
        /\ \A s \in Runs : /\ run'[s].deployment = run[s].deployment
                           /\ run'[s] = run[s] \/ (IsActive(s) /\ run'[s].status = "failed")
    BY <1>7, FailedSteady DEF Inv, Types, RowTypes
  <2>2. Types'
    BY <1>1, <1>4, <1>7, <2>1 DEF Inv, Types, RowTypes, CommandTypes, ActorTypes, DeployerType
  <2>3. \A s \in Runs : Steady(s)
    BY <1>7, <2>1 DEF Inv, RunInv, Made, Steady
  <2>4. deployer'[p].pc \in {"idle", "lookup", "abandon"}
    BY <1>2, <1>4, <1>7 DEF DeployerGoes, DeployerEnds, IdleDeployer, Inv, Types, ActorTypes
  <2>5. \A s \in Runs : run'[s].status = "absent" <=> run[s].status = "absent"
    BY <2>3 DEF Steady, IsActive, ActiveStatuses
  <2>6. Requesting(p)'
    BY <1>1, <1>2, <1>4, <1>5, <2>4, <2>5 DEF Requesting, Exists
  <2> QED BY <1>1, <1>4, <2>2, <2>3, <2>4, <2>6, DeployerKeeps
<1>8. CASE SendDispatch(p) /\ Delivered(r) /\ (command' = Cleared(r) \/ command' = command)
  <2>1. r \in Runs /\ command[r].status # "absent" /\ UNCHANGED run
    BY <1>5, <1>8 DEF SendDispatch, Requesting
  <2>2. deployer'[p].pc = "idle"
    BY <1>8 DEF SendDispatch, DeployerEnds, IdleDeployer, Inv, Types, ActorTypes
  <2>3. /\ command' \in [Runs -> Commands] /\ queue' \in [Runs -> Messages]
        /\ \A s \in Runs : /\ command'[s].status = command[s].status
                           /\ command'[s].owner = command[s].owner
                           /\ queue'[s] = queue[s] \/ s = r
    BY <1>8, <2>1, SentSteady
  <2>4. Types'
    BY <1>1, <1>4, <2>1, <2>3 DEF Inv, Types, RowTypes, CommandTypes, ActorTypes, DeployerType
  <2>5. \A s \in Runs : Steady(s)
    BY <2>1, <2>3 DEF Inv, RunInv, Made, Steady
  <2>6. Requesting(p)'
    BY <2>2 DEF Requesting
  <2> QED BY <1>1, <1>4, <2>2, <2>4, <2>5, <2>6, DeployerKeeps
<1>9. CASE AdmitDispatch(p) /\ DeployerGoes(p, "send")
  <2>1. /\ deployer[p].pc = "admit" /\ UNCHANGED <<run, queue>>
        /\ r \in Runs /\ command[r].status = "absent" /\ run[r].status # "absent"
    BY <1>5, <1>9 DEF AdmitDispatch, Requesting
  <2>2. /\ deployer'[p].pc = "send" /\ deployer'[p].run = r
        /\ deployer'[p].deployment = deployer[p].deployment
    BY <1>9 DEF DeployerGoes, Inv, Types, ActorTypes
  <2> DEFINE row == [command[r] EXCEPT !.status = "queued", !.note = "undelivered"]
  <2>3. command' = [command EXCEPT ![r] = row]
    <3>1. \/ command' = [command EXCEPT ![r] = row]
          \/ DeployerGoes(p, "abandon")
      BY <1>9 DEF AdmitDispatch
    <3>2. ~DeployerGoes(p, "abandon")
      BY <2>2 DEF DeployerGoes, Inv, Types, ActorTypes
    <3> QED BY <3>1, <3>2
  <2>4. row \in Commands /\ row.status = "queued" /\ row.owner = NoExecutor
    <3>1. command[r].owner = NoExecutor
      BY <2>1 DEF Inv, RunInv, Made
    <3>2. command[r] \in Commands
      BY <1>6, <2>1
    <3> QED BY <3>1, <3>2 DEF Commands
  <2> HIDE DEF row
  <2>5. /\ command' \in [Runs -> Commands] /\ command'[r] = row
        /\ \A s \in Runs \ {r} : command'[s] = command[s]
    BY <1>6, <2>1, <2>3, <2>4
  <2>6. Types'
    BY <1>1, <1>4, <2>1, <2>5 DEF Inv, Types, RowTypes, CommandTypes, ActorTypes, DeployerType
  <2>7. RunInv'
    BY <1>1, <2>1, <2>4, <2>5 DEF Inv, RunInv, Made, Exists, Shown, LiveDeployments
  <2>8. \A e \in Executors : Working(e)'
    BY <1>1, <2>1, <2>4, <2>5 DEF Inv, ActorInv, Working, Shown
  <2>9. \A q \in Deployers : Requesting(q)'
    <3> SUFFICES ASSUME NEW q \in Deployers PROVE Requesting(q)'
      OBVIOUS
    <3>1. Requesting(q) /\ Requesting(p)
      BY DEF Inv, ActorInv
    <3>2. CASE q = p
      BY <1>1, <1>5, <2>1, <2>2, <2>4, <2>5, <3>2 DEF Requesting, Exists
    <3>3. CASE q # p
      <4>1. deployer'[q] = deployer[q] /\ (deployer[q].pc \in {"link", "admit"} => deployer[q].run # r)
        BY <1>4, <2>1, <3>1, <3>3 DEF Requesting
      <4>2. deployer'[p].pc \notin {"link", "admit"}
        BY <2>2
      <4> QED BY <1>1, <1>4, <2>1, <2>4, <2>5, <3>1, <4>1, <4>2 DEF Requesting, Exists
    <3> QED BY <3>2, <3>3
  <2>10. ActorInv'
    BY <1>1, <2>8, <2>9 DEF Inv, ActorInv, Deleting, Reading, Exists
  <2> QED BY <2>6, <2>7, <2>10 DEF Inv
<1>10. \/ UNCHANGED <<command, queue>> /\ (run' = run \/ run' = Failed({r})) /\ ~DeployerGoes(p, "send")
       \/ SendDispatch(p) /\ Delivered(r) /\ (command' = Cleared(r) \/ command' = command)
       \/ AdmitDispatch(p) /\ DeployerGoes(p, "send")
  <2>1. DeployerEnds(p) => ~DeployerGoes(p, "send")
    BY DEF DeployerEnds, DeployerGoes, IdleDeployer, Inv, Types, ActorTypes
  <2>2. DeployerGoes(p, "lookup") \/ DeployerGoes(p, "abandon") => ~DeployerGoes(p, "send")
    BY DEF DeployerGoes, Inv, Types, ActorTypes
  <2>3. CASE Deploy(p) \/ LoseDeployer(p)
    BY <2>1, <2>2, <2>3 DEF Deploy, LoseDeployer, rows
  <2>4. CASE AbandonRun(p)
    BY <2>1, <2>4 DEF AbandonRun
  <2>5. CASE AdmitDispatch(p)
    BY <2>2, <2>5 DEF AdmitDispatch
  <2>6. CASE SendDispatch(p)
    <3>1. ~DeployerGoes(p, "send") /\ run' = run
      BY <2>1, <2>6 DEF SendDispatch
    <3>2. \/ Delivered(r) /\ (command' = Cleared(r) \/ command' = command)
          \/ command' = command /\ queue' = queue
      BY <2>6 DEF SendDispatch, Sent
    <3> QED BY <2>6, <3>1, <3>2
  <2> QED BY <2>3, <2>4, <2>5, <2>6
<1> QED BY <1>7, <1>8, <1>9, <1>10

\* Looking up the deployment, making one, and linking the run to it.
LEMMA DeploymentRowInv ==
  ASSUME Inv, NEW p \in Deployers, LookUp(p) \/ InsertDeployment(p) \/ LinkRun(p)
  PROVE  Inv'
<1>1. UNCHANGED <<run, command, queue, site, executor, deleter, reader>>
  BY DEF LookUp, InsertDeployment, LinkRun, rows
<1>2. Requesting(p) /\ deployer[p] \in DeployerType /\ deployer \in [Deployers -> DeployerType]
      /\ deployment \in [Deployments -> [state : {"absent", "live", "deleted"},
                                         latest : {0} \cup Runs, url : BOOLEAN]]
  BY DEF Inv, ActorInv, Types, ActorTypes, RowTypes, DeployerType
<1>3. LiveDeployment = 0 \/ (LiveDeployment \in Deployments /\ Exists(LiveDeployment))
  BY DEF LiveDeployment, LiveDeployments, Exists
<1>4. /\ deployer' \in [Deployers -> DeployerType]
      /\ \A q \in Deployers \ {p} : deployer'[q] = deployer[q]
      /\ \/ deployer'[p].pc \in {"idle", "deployment"}
         \/ /\ deployer'[p].pc = "run"
            /\ deployer'[p].deployment \in Deployments
            /\ deployment'[deployer'[p].deployment].state # "absent"
         \/ /\ deployer[p].pc = "link" /\ deployer'[p].pc \in {"admit", "abandon"}
            /\ deployer'[p].run = deployer[p].run
            /\ deployer'[p].deployment = deployer[p].deployment
  <2>1. CASE LookUp(p)
    <3> DEFINE x == [deployer[p] EXCEPT
                       !.pc = IF LiveDeployment = 0 THEN "deployment" ELSE "run",
                       !.deployment = LiveDeployment]
    <3>1. x \in DeployerType
      BY <1>2, <1>3 DEF DeployerType, DeployerPcs
    <3>2. x.pc = "deployment" \/ (x.pc = "run" /\ x.deployment = LiveDeployment /\ LiveDeployment # 0)
      BY <1>2 DEF DeployerType
    <3>3. deployer' = [deployer EXCEPT ![p] = x] /\ UNCHANGED deployment
      BY <1>2, <2>1 DEF LookUp, rows
    <3> HIDE DEF x
    <3> QED BY <1>2, <1>3, <3>1, <3>2, <3>3 DEF Exists
  <2>2. CASE InsertDeployment(p)
    <3>1. CASE DeployerEnds(p)
      BY <1>2, <3>1, DeployerGoesType DEF DeployerEnds, IdleDeployer, DeployerType, DeployerPcs
    <3>2. CASE ~DeployerEnds(p)
      <4>1. PICK d \in Deployments :
              /\ deployment' = [deployment EXCEPT ![d].state = "live"]
              /\ deployer' = [deployer EXCEPT ![p] = [@ EXCEPT !.pc = "run", !.deployment = d]]
        BY <2>2, <3>2 DEF InsertDeployment
      <4>2. [deployer[p] EXCEPT !.pc = "run", !.deployment = d] \in DeployerType
        BY <1>2 DEF DeployerType, DeployerPcs
      <4>3. /\ deployer' \in [Deployers -> DeployerType]
            /\ \A q \in Deployers \ {p} : deployer'[q] = deployer[q]
        BY <1>2, <4>1, <4>2
      <4>4. deployer'[p].pc = "run" /\ deployer'[p].deployment = d
        BY <1>2, <4>1 DEF DeployerType
      <4>5. deployment'[d].state = "live"
        BY <1>2, <4>1
      <4> QED BY <4>3, <4>4, <4>5
    <3> QED BY <3>1, <3>2
  <2>3. CASE LinkRun(p)
    <3>1. /\ deployer[p].pc = "link"
          /\ \E pc \in {"admit", "abandon"} : deployer' = [deployer EXCEPT ![p].pc = pc]
      BY <2>3 DEF LinkRun, DeployerGoes
    <3>2. ASSUME NEW pc \in {"admit", "abandon"}
          PROVE  /\ [deployer[p] EXCEPT !.pc = pc] \in DeployerType
                 /\ [deployer[p] EXCEPT !.pc = pc].pc = pc
                 /\ [deployer[p] EXCEPT !.pc = pc].run = deployer[p].run
                 /\ [deployer[p] EXCEPT !.pc = pc].deployment = deployer[p].deployment
      BY <1>2 DEF DeployerType, DeployerPcs
    <3>3. PICK pc \in {"admit", "abandon"} :
            deployer' = [deployer EXCEPT ![p] = [deployer[p] EXCEPT !.pc = pc]]
      BY <1>2, <3>1
    <3> QED BY <1>2, <3>1, <3>2, <3>3
  <2> QED BY <2>1, <2>2, <2>3
<1>5. /\ deployment' \in [Deployments -> [state : {"absent", "live", "deleted"},
                                          latest : {0} \cup Runs, url : BOOLEAN]]
      /\ \A d \in Deployments : /\ deployment'[d].url = deployment[d].url
                                /\ \/ deployment'[d].state = deployment[d].state
                                   \/ deployment[d].state = "absent"
      /\ \A d1, d2 \in LiveDeployments' : d1 = d2
  <2>1. CASE LiveDeployments' = LiveDeployments /\ UNCHANGED deployment
    BY <1>2, <2>1 DEF Inv, RunInv
  <2>2. CASE LinkRun(p) /\ deployment' # deployment
    <3>1. deployment' = [deployment EXCEPT ![deployer[p].deployment].latest = deployer[p].run]
      BY <2>2 DEF LinkRun
    <3> QED BY <1>2, <3>1 DEF Inv, RunInv, LiveDeployments, DeployerType
  <2>3. CASE InsertDeployment(p) /\ deployment' # deployment
    <3>0. \A d \in Deployments : d >= d
      BY DEF Deployments
    <3>1. PICK d \in Deployments : /\ LiveDeployment = 0
                                   /\ deployment[d].state = "absent"
                                   /\ deployment' = [deployment EXCEPT ![d].state = "live"]
      BY <2>3, <3>0 DEF InsertDeployment
    <3>2. LiveDeployments = {}
      BY <3>1 DEF LiveDeployment, LiveDeployments, Deployments
    <3> QED BY <1>2, <3>1, <3>2 DEF LiveDeployments
  <2>4. UNCHANGED deployment => LiveDeployments' = LiveDeployments
    BY DEF LiveDeployments
  <2> QED BY <2>1, <2>2, <2>3, <2>4 DEF LookUp, rows
<1>6. \A d : Exists(d) => Exists(d)' /\ deployment'[d].state = deployment[d].state
  BY <1>5 DEF Exists
<1>7. Types'
  BY <1>1, <1>4, <1>5 DEF Inv, Types, RowTypes, CommandTypes, ActorTypes, DeployerType
<1>8. RunInv'
  <2> SUFFICES ASSUME NEW r \in Runs PROVE Made(r)' /\ (run[r].status = "success" => Shown(r))'
    BY <1>5 DEF RunInv
  <2>1. Made(r) /\ (run[r].status = "success" => Shown(r))
    BY DEF Inv, RunInv
  <2> QED BY <1>1, <1>5, <1>6, <2>1 DEF Made, Shown, Exists
<1>9. \A e \in Executors : Working(e)'
  <2> SUFFICES ASSUME NEW e \in Executors PROVE Working(e)'
    OBVIOUS
  <2>1. Working(e) /\ (executor[e].pc # "idle" => Made(executor[e].run))
    BY DEF Inv, ActorInv, RunInv, Working
  <2> QED BY <1>1, <1>5, <1>6, <2>1 DEF Working, Made, Shown, Exists
<1>10. \A q \in Deployers : Requesting(q)'
  <2> SUFFICES ASSUME NEW q \in Deployers PROVE Requesting(q)'
    OBVIOUS
  <2>1. Requesting(q) /\ Requesting(p)
    BY DEF Inv, ActorInv
  <2>2. CASE q = p
    BY <1>1, <1>4, <1>6, <2>1, <2>2 DEF Requesting, Exists
  <2>3. CASE q # p
    BY <1>1, <1>4, <1>6, <2>1, <2>3 DEF Requesting
  <2> QED BY <2>2, <2>3
<1>11. ActorInv'
  BY <1>1, <1>6, <1>9, <1>10 DEF Inv, ActorInv, Deleting, Reading
<1> QED BY <1>7, <1>8, <1>11 DEF Inv

\* The run a request makes was not there, so nobody works on it and it has no command.
LEMMA InsertRunInv == ASSUME Inv, NEW p \in Deployers, InsertRun(p) PROVE Inv'
<1>1. UNCHANGED <<deployment, command, queue, site, executor, deleter, reader>>
  BY DEF InsertRun
<1>2. Requesting(p) /\ deployer[p] \in DeployerType /\ deployer \in [Deployers -> DeployerType]
      /\ run \in [Runs -> [status : RunStatuses, deployment : {0} \cup Deployments]]
      /\ Exists(deployer[p].deployment)
  BY DEF InsertRun, Inv, ActorInv, Types, ActorTypes, RowTypes, DeployerType, Requesting
<1>3. CASE UNCHANGED run /\ DeployerEnds(p)
  <2>1. /\ deployer' \in [Deployers -> DeployerType] /\ deployer'[p].pc = "idle"
        /\ \A q \in Deployers \ {p} : deployer'[q] = deployer[q]
    BY <1>2, <1>3 DEF DeployerEnds, IdleDeployer, DeployerType, DeployerPcs
  <2>2. Types'
    BY <1>1, <1>3, <2>1 DEF Inv, Types, RowTypes, CommandTypes, ActorTypes, DeployerType
  <2>3. \A s \in Runs : Steady(s)
    BY <1>1, <1>3 DEF Inv, RunInv, Made, Steady
  <2>4. Requesting(p)'
    BY <2>1 DEF Requesting
  <2> QED BY <1>1, <2>1, <2>2, <2>3, <2>4, DeployerKeeps
<1>4. ASSUME NEW r \in Runs, run[r].status = "absent",
             run' = [run EXCEPT ![r] =
               [@ EXCEPT !.status = "queued", !.deployment = deployer[p].deployment]],
             deployer' = [deployer EXCEPT ![p] = [@ EXCEPT !.pc = "link", !.run = r]]
      PROVE  Inv'
  <2>1. [run[r] EXCEPT !.status = "queued", !.deployment = deployer[p].deployment]
        \in [status : RunStatuses, deployment : {0} \cup Deployments]
    BY <1>2 DEF RunStatuses, ActiveStatuses, Exists
  <2>2. [deployer[p] EXCEPT !.pc = "link", !.run = r] \in DeployerType
    BY <1>2 DEF DeployerType, DeployerPcs
  <2>3. /\ run' \in [Runs -> [status : RunStatuses, deployment : {0} \cup Deployments]]
        /\ deployer' \in [Deployers -> DeployerType]
        /\ \A s \in Runs \ {r} : run'[s] = run[s]
        /\ \A q \in Deployers \ {p} : deployer'[q] = deployer[q]
    BY <1>2, <1>4, <2>1, <2>2
  <2>4. /\ run'[r].status = "queued" /\ run'[r].deployment = deployer[p].deployment
        /\ deployer'[p].pc = "link" /\ deployer'[p].run = r
        /\ deployer'[p].deployment = deployer[p].deployment
    BY <1>2, <1>4 DEF DeployerType
  <2>5. Types'
    BY <1>1, <2>3 DEF Inv, Types, RowTypes, CommandTypes, ActorTypes, DeployerType
  <2>6. command[r].status = "absent"
    BY <1>4 DEF Inv, RunInv, Made
  <2>7. RunInv'
    <3>1. ASSUME NEW s \in Runs PROVE Made(s)' /\ (run[s].status = "success" => Shown(s))'
      <4>1. Made(s) /\ (run[s].status = "success" => Shown(s))
        BY DEF Inv, RunInv
      <4>2. CASE s = r
        BY <1>1, <1>2, <2>4, <2>6, <4>1, <4>2 DEF Made, Exists
      <4>3. CASE s # r
        BY <1>1, <2>3, <4>1, <4>3 DEF Made, Exists, Shown
      <4> QED BY <4>2, <4>3
    <3> QED BY <1>1, <3>1 DEF Inv, RunInv, LiveDeployments
  <2>8. \A e \in Executors : Working(e)'
    BY <1>1, <2>3, <2>6 DEF Inv, ActorInv, Working, Shown
  <2>9. \A q \in Deployers : Requesting(q)'
    <3> SUFFICES ASSUME NEW q \in Deployers PROVE Requesting(q)'
      OBVIOUS
    <3>1. \A o \in Deployers \ {p} : /\ Requesting(o) /\ deployer'[o] = deployer[o]
                                     /\ deployer[o].pc \in {"link", "admit"} => deployer[o].run # r
      BY <1>4, <2>3 DEF Inv, ActorInv, Requesting
    <3>2. CASE q = p
      BY <1>1, <1>2, <2>4, <2>6, <3>1, <3>2 DEF Requesting, Exists
    <3>3. CASE q # p
      <4>1. \A s \in Runs : run[s].status # "absent" => run'[s] = run[s]
        BY <1>4, <2>3
      <4> QED BY <1>1, <2>4, <3>1, <3>3, <4>1 DEF Requesting, Exists
    <3> QED BY <3>2, <3>3
  <2>10. ActorInv'
    BY <1>1, <2>8, <2>9 DEF Inv, ActorInv, Deleting, Reading, Exists
  <2> QED BY <2>5, <2>7, <2>10 DEF Inv
<1>5. \A r \in Runs : r >= r
  BY DEF Runs
<1>6. \/ UNCHANGED run /\ DeployerEnds(p)
      \/ \E r \in Runs : /\ run[r].status = "absent"
                         /\ run' = [run EXCEPT ![r] =
                              [@ EXCEPT !.status = "queued", !.deployment = deployer[p].deployment]]
                         /\ deployer' = [deployer EXCEPT ![p] = [@ EXCEPT !.pc = "link", !.run = r]]
  BY <1>5 DEF InsertRun
<1> QED BY <1>3, <1>4, <1>6

\* A deletion takes back the address together with the deployment.
LEMMA DeleteInv ==
  ASSUME Inv, NEW x \in Deleters, Delete(x) \/ DeleterStep(x) \/ LoseDeleter(x) PROVE Inv'
<1> DEFINE DeleterType == [pc : {"idle", "fail", "remove", "mark"}, deployment : {0} \cup Deployments]
<1>1. UNCHANGED <<command, queue, executor, deployer, reader>>
  BY DEF Delete, DeleterStep, FailActiveRuns, RemoveSite, MarkDeleted, LoseDeleter, rows
<1>2. deleter \in [Deleters -> DeleterType] /\ deleter[x] \in DeleterType /\ Deleting(x)
  BY DEF Inv, Types, ActorTypes, ActorInv
<1>3. LiveDeployment # 0 => Exists(LiveDeployment)
  BY DEF LiveDeployment, LiveDeployments, Exists
<1>4. PICK y \in DeleterType : /\ deleter' = [deleter EXCEPT ![x] = y]
                               /\ y.pc # "idle" => Exists(y.deployment)
  <2>1. CASE Delete(x)
    <3>1. [pc |-> "fail", deployment |-> LiveDeployment] \in DeleterType
      BY <1>3, <2>1 DEF Delete, Exists
    <3> QED BY <1>3, <2>1, <3>1 DEF Delete
  <2>2. IdleDeleter \in DeleterType /\ IdleDeleter.pc = "idle"
    BY DEF IdleDeleter
  <2>3. ASSUME NEW pc \in {"remove", "mark"}
        PROVE  /\ [deleter[x] EXCEPT !.pc = pc] \in DeleterType
               /\ [deleter[x] EXCEPT !.pc = pc].deployment = deleter[x].deployment
    BY <1>2
  <2>4. CASE FailActiveRuns(x)
    <3>1. deleter' = [deleter EXCEPT ![x] = [deleter[x] EXCEPT !.pc = "remove"]]
      BY <1>2, <2>4 DEF FailActiveRuns
    <3> QED BY <1>2, <2>3, <2>4, <3>1 DEF FailActiveRuns, Deleting
  <2>5. CASE RemoveSite(x)
    <3>1. \/ deleter' = [deleter EXCEPT ![x] = [deleter[x] EXCEPT !.pc = "mark"]]
          \/ deleter' = [deleter EXCEPT ![x] = IdleDeleter]
      BY <1>2, <2>5 DEF RemoveSite
    <3> QED BY <1>2, <2>2, <2>3, <2>5, <3>1 DEF RemoveSite, Deleting
  <2>6. CASE MarkDeleted(x) \/ LoseDeleter(x)
    BY <2>2, <2>6 DEF MarkDeleted, LoseDeleter
  <2> QED BY <2>1, <2>4, <2>5, <2>6 DEF DeleterStep
<1>5. /\ run' \in [Runs -> [status : RunStatuses, deployment : {0} \cup Deployments]]
      /\ \A r \in Runs : /\ run'[r].deployment = run[r].deployment
                         /\ run'[r] = run[r] \/ (IsActive(r) /\ run'[r].status = "failed")
  <2>1. run' = run \/ run' = Failed(Runs)
    BY DEF Delete, DeleterStep, FailActiveRuns, RemoveSite, MarkDeleted, LoseDeleter, rows
  <2> QED BY <2>1, FailedSteady DEF Inv, Types, RowTypes
<1>6. site' \in {0} \cup Runs
  BY DEF Delete, DeleterStep, FailActiveRuns, RemoveSite, MarkDeleted, LoseDeleter, Inv, Types, RowTypes
<1>7. /\ deployment' \in [Deployments -> [state : {"absent", "live", "deleted"},
                                          latest : {0} \cup Runs, url : BOOLEAN]]
      /\ \A d \in Deployments :
           deployment'[d] = deployment[d] \/ (Exists(d) /\ deployment'[d].state = "deleted")
  <2>1. CASE MarkDeleted(x)
    <3> DEFINE d == deleter[x].deployment
               row == [deployment[d] EXCEPT !.state = "deleted", !.url = FALSE]
    <3>1. Exists(d) /\ d \in Deployments
      BY <1>2, <2>1 DEF MarkDeleted, Deleting, Exists
    <3>2. row \in [state : {"absent", "live", "deleted"}, latest : {0} \cup Runs, url : BOOLEAN]
          /\ row.state = "deleted"
      BY <3>1 DEF Inv, Types, RowTypes
    <3>3. deployment' = [deployment EXCEPT ![d] = row]
      BY <2>1 DEF MarkDeleted, Inv, Types, RowTypes
    <3> HIDE DEF row, d
    <3> QED BY <3>1, <3>2, <3>3 DEF Inv, Types, RowTypes
  <2>2. CASE ~MarkDeleted(x)
    BY <2>2 DEF Delete, DeleterStep, FailActiveRuns, RemoveSite, LoseDeleter, rows, Inv, Types, RowTypes
  <2> QED BY <2>1, <2>2
<1>8. /\ \A d : Exists(d) => Exists(d)'
      /\ \A r \in Runs : run'[r].status = "absent" <=> run[r].status = "absent"
      /\ \A r \in Runs : run'[r].status = "success" => run[r].status = "success"
  BY <1>5, <1>7 DEF Exists, IsActive, ActiveStatuses
<1>9. Types'
  BY <1>1, <1>2, <1>4, <1>5, <1>6, <1>7 DEF Inv, Types, RowTypes, CommandTypes, ActorTypes
<1>10. \A r \in Runs : Made(r) /\ Made(r)' /\ (run[r].status # "absent" /\ Shown(r) => Shown(r)')
  BY <1>1, <1>5, <1>7, <1>8 DEF Inv, RunInv, Made, Exists, Shown
<1>11. RunInv'
  <2>1. \A d1, d2 \in LiveDeployments' : d1 = d2
    BY <1>7 DEF LiveDeployments, Inv, RunInv
  <2> QED BY <1>8, <1>10, <2>1 DEF Inv, RunInv
<1>12. \A e \in Executors : Working(e)'
  BY <1>1, <1>10 DEF Inv, ActorInv, Working, Made
<1>13. \A q \in Deployers : Requesting(q)'
  <2> SUFFICES ASSUME NEW q \in Deployers PROVE Requesting(q)'
    OBVIOUS
  <2>1. Requesting(q)
    BY DEF Inv, ActorInv
  <2> QED BY <1>1, <1>8, <2>1 DEF Requesting
<1>14. \A z \in Deleters : Deleting(z)'
  BY <1>2, <1>4, <1>8 DEF Inv, ActorInv, Deleting
<1>15. ActorInv'
  BY <1>1, <1>12, <1>13, <1>14 DEF Inv, ActorInv, Reading
<1> QED BY <1>9, <1>11, <1>15 DEF Inv

-----------------------------------------------------------------------------
(* The invariant, and what follows from it.                                *)

\* Every step keeps the invariant.
LEMMA NextInv == ASSUME Inv, [DeploymentNext]_deploymentVars PROVE Inv'
<1>1. CASE UNCHANGED deploymentVars
  <2>1. UNCHANGED <<deployment, run, command, queue, site, executor, deployer, deleter, reader>>
    BY <1>1 DEF deploymentVars, rows, requests
  <2>2. Types'
    BY <2>1 DEF Inv, Types, RowTypes, CommandTypes, ActorTypes
  <2>3. \A r \in Runs : Steady(r)
    BY <2>1 DEF Inv, RunInv, Made, Steady
  <2> QED BY <2>1, <2>2, <2>3, QuietInv, SteadyRequests
<1>2. ASSUME NEW p \in Deployers, Deploy(p) \/ DeployerStep(p) \/ LoseDeployer(p) PROVE Inv'
  BY <1>2, DeployInv, DeploymentRowInv, InsertRunInv DEF DeployerStep
<1>3. ASSUME NEW e \in Executors, ExecutorStep(e) \/ Throw(e) \/ LoseExecutor(e) PROVE Inv'
  BY <1>3, StageInv, ThrowInv, SettleInv, FailRunInv, LoseExecutorInv DEF ExecutorStep
<1> QED BY <1>1, <1>2, <1>3, DeleteInv, ClaimInv, ReadInv, RedriveInv, DeadLetterInv,
           DeadLetterRunInv, LeaseLapsesInv
        DEF DeploymentNext

\* The invariant holds of every behaviour.
LEMMA Invariance == DeploymentSpec => []Inv
BY InitInv, NextInv, PTL DEF DeploymentSpec

\* Every variable has its type, a command is owned exactly while it runs, and one deployment
\* of the App is live.
THEOREM DeploymentTypeCorrect == DeploymentSpec => []DeploymentTypeOK
<1>1. ASSUME Inv PROVE DeploymentTypeOK
  <2>1. Cardinality(LiveDeployments) <= 1
    <3>1. CASE LiveDeployments = {}
      BY <3>1, FS_EmptySet
    <3>2. ASSUME NEW d \in LiveDeployments PROVE Cardinality(LiveDeployments) = 1
      <4>1. LiveDeployments = {d}
        BY <1>1 DEF Inv, RunInv
      <4> QED BY <4>1, FS_Singleton
    <3> QED BY <3>1, <3>2
  <2> QED BY <1>1, <2>1 DEF Inv, RunInv, Made, Types, RowTypes, CommandTypes, Commands, Messages,
          RunStatuses, DeploymentTypeOK
<1> QED BY <1>1, Invariance, PTL

\* A deployment one of whose runs succeeded has an address to show until it is deleted,
\* whichever executions are lost and however later attempts end.
THEOREM SuccessIsShown == DeploymentSpec => []SuccessHasUrl
<1>1. Inv => SuccessHasUrl
  BY DEF Inv, RunInv, Shown, SuccessHasUrl
<1> QED BY <1>1, Invariance, PTL

\* What a step does to a run that ended.
LEMMA EndedStays ==
  ASSUME Inv, [DeploymentNext]_deploymentVars, NEW r \in Runs, run[r].status \in {"success", "failed"}
  PROVE  run'[r] = run[r]
<1>1. run \in [Runs -> [status : RunStatuses, deployment : {0} \cup Deployments]] /\ ~IsActive(r)
  BY DEF Inv, Types, RowTypes, IsActive, ActiveStatuses
<1>2. \A rs : Failed(rs)[r] = run[r]
  BY <1>1 DEF Failed
<1>3. CASE UNCHANGED run
  BY <1>3
<1>4. ASSUME NEW p \in Deployers, Deploy(p) \/ DeployerStep(p) \/ LoseDeployer(p)
      PROVE  run'[r] = run[r]
  <2>1. CASE InsertRun(p)
    <3>1. \A s \in Runs : s >= s
      BY DEF Runs
    <3>2. \/ UNCHANGED run
          \/ \E s \in Runs : /\ run[s].status = "absent"
                             /\ run' = [run EXCEPT ![s] = [@ EXCEPT !.status = "queued",
                                          !.deployment = deployer[p].deployment]]
      BY <2>1, <3>1 DEF InsertRun
    <3> QED BY <1>1, <3>2
  <2> QED BY <1>2, <1>4, <2>1 DEF DeployerStep, Deploy, LookUp, InsertDeployment, LinkRun, AbandonRun,
          AdmitDispatch, SendDispatch, LoseDeployer, rows
<1>5. ASSUME NEW e \in Executors, ExecutorStep(e) \/ Throw(e) \/ LoseExecutor(e)
      PROVE  run'[r] = run[r]
  <2>1. ASSUME NEW status, NEW next, NEW otherwise, Advance(e, status, next, otherwise)
        PROVE  run'[r] = run[r]
    BY <1>1, <2>1 DEF Advance
  <2>2. CASE \/ MarkPreparing(e) \/ MarkBuilding(e) \/ MarkSubmitting(e)
             \/ MarkSubmitted(e) \/ MarkActivating(e)
    BY <2>1, <2>2 DEF MarkPreparing, MarkBuilding, MarkSubmitting, MarkSubmitted, MarkActivating
  <2>3. CASE Succeed(e) \/ Throw(e)
    BY <1>1, <1>2, <2>3 DEF Succeed, Succeeded, Throw
  <2>4. CASE GiveUp(e) \/ FailLate(e) \/ FailRun(e)
    BY <1>2, <2>4 DEF GiveUp, FailLate, FailRun
  <2> QED BY <1>5, <2>2, <2>3, <2>4 DEF ExecutorStep, StageStep, ReadContext, Prepare, Build, Recheck,
          Submit, PublishUrl, CheckDeleted, CheckReplacement, Unhost, Complete, Release, FailCommand,
          LoseExecutor, rows
<1>6. ASSUME NEW x \in Deleters, Delete(x) \/ DeleterStep(x) \/ LoseDeleter(x)
      PROVE  run'[r] = run[r]
  BY <1>2, <1>6 DEF DeleterStep, Delete, FailActiveRuns, RemoveSite, MarkDeleted, LoseDeleter, rows
<1>7. ASSUME NEW v \in Readers, ReaderStep(v) \/ LoseReader(v) PROVE run'[r] = run[r]
  BY <1>2, <1>7 DEF ReaderStep, FailReadRun, FailReadCommand, LoseReader, rows
<1>8. ASSUME NEW s \in Runs,
             \/ \E v \in Readers : Read(v, s)
             \/ \E e \in Executors : Claim(e, s)
             \/ Redrive(s) \/ DeadLetterRun(s) \/ DeadLetter(s) \/ LeaseLapses(s)
      PROVE  run'[r] = run[r]
  BY <1>2, <1>8 DEF Read, Claim, Redrive, DeadLetterRun, DeadLetter, LeaseLapses, rows
<1> QED BY <1>3, <1>4, <1>5, <1>6, <1>7, <1>8 DEF DeploymentNext, deploymentVars, rows

\* The first writer to end a run wins: no executor, deletion, read or dead letter changes how
\* it ended.
THEOREM EndedRunsStay == DeploymentSpec => EndedRunIsFinal
<1>1. ASSUME Inv, [DeploymentNext]_deploymentVars
      PROVE  [\A r \in Runs : run[r].status \in {"success", "failed"} => run'[r] = run[r]]_deploymentVars
  BY <1>1, EndedStays
<1> QED BY <1>1, Invariance, PTL DEF DeploymentSpec, EndedRunIsFinal

-----------------------------------------------------------------------------
(* How often a run is dispatched.                                          *)

AtWork(r) == \E e \in Executors : executor[e].run = r /\ Owns(e)

\* A command that may be claimed, now or when its lease lapses without an owner, has an
\* attempt left; the owner knows the number of its attempt.
Counted(r) ==
  /\ command[r].attempts <= MaxAttempts + faults
  /\ command[r].status = "absent" => command[r].attempts = 0
  /\ command[r].status = "queued" => command[r].attempts < MaxAttempts + faults
  /\ command[r].status = "running" /\ (command[r].lease = "lapsed" \/ ~AtWork(r)) =>
       command[r].attempts < MaxAttempts + faults
  /\ \A e \in Executors : executor[e].run = r /\ Owns(e) =>
       executor[e].attempt = command[r].attempts

Counting ==
  /\ faults \in Nat
  /\ \A r \in Runs : Counted(r)
  /\ \A e \in Executors : executor[e].pc = "idle" => executor[e].run = 0

\* What is counted of a command does not change, nor which run its owner is at.
Uncounted(r) ==
  /\ command'[r].status = command[r].status
  /\ command'[r].attempts = command[r].attempts
  /\ command'[r].owner = command[r].owner
  /\ command'[r].lease = command[r].lease
  /\ \A e \in Executors : executor'[e].run = r <=> executor[e].run = r
  /\ \A e \in Executors : executor'[e].attempt = executor[e].attempt

\* Such a command is counted as before, also after a fault.
LEMMA UncountedStays ==
  ASSUME Inv, Counting, faults' \in {faults, faults + 1}, NEW r \in Runs, Uncounted(r)
  PROVE  Counted(r)'
<1>1. /\ Counted(r) /\ faults \in Nat /\ MaxAttempts \in Nat /\ faults' \in Nat /\ faults' >= faults
      /\ command[r].attempts \in Nat
  BY DeploymentAssumption DEF Counting, Inv, Types, CommandTypes, Commands
<1>2. \A e \in Executors : executor'[e].run = r /\ Owns(e)' <=> executor[e].run = r /\ Owns(e)
  BY DEF Uncounted, Owns
<1>3. AtWork(r)' <=> AtWork(r)
  BY <1>2 DEF AtWork
<1> QED BY <1>1, <1>2, <1>3 DEF Counted, Uncounted

Stays(f) ==
  /\ executor'[f].run = executor[f].run
  /\ executor'[f].attempt = executor[f].attempt
  /\ executor'[f].pc = "idle" => executor[f].pc = "idle"

\* Steps of the stages leave the commands alone, and their executor at its run.
LEMMA StageCounts ==
  ASSUME Inv, NEW e \in Executors, StageStep(e) \/ FailRun(e) \/ Throw(e)
  PROVE  /\ command' = command /\ faults' \in {faults, faults + 1}
         /\ \A f \in Executors : Stays(f)
<1>1. executor \in [Executors -> ExecutorType] /\ executor[e].after # "idle"
  BY DEF Inv, Types, ActorTypes, ExecutorType
<1>2. ASSUME NEW pc, Goes(e, pc), pc # "idle"
      PROVE  \A f \in Executors : Stays(f)
  BY <1>1, <1>2 DEF Goes, ExecutorType, Stays
<1>3. CASE \/ MarkPreparing(e) \/ MarkBuilding(e) \/ MarkSubmitting(e)
           \/ MarkSubmitted(e) \/ MarkActivating(e)
  BY <1>2, <1>3
     DEF MarkPreparing, MarkBuilding, MarkSubmitting, MarkSubmitted, MarkActivating, Advance
<1>4. CASE Submit(e)
  <2>1. CASE Goes(e, "submitted")
    BY <1>2, <1>4, <2>1 DEF Submit, rows
  <2>2. ASSUME NEW after, executor' = [executor EXCEPT ![e] =
                 [@ EXCEPT !.pc = "compensate", !.after = after]]
        PROVE  \A f \in Executors : Stays(f)
    BY <1>1, <2>2 DEF ExecutorType, Stays
  <2> QED BY <1>4, <2>1, <2>2 DEF Submit, rows
<1>5. CASE ReadContext(e) \/ Prepare(e) \/ Build(e) \/ Recheck(e) \/ GiveUp(e)
  BY <1>2, <1>5 DEF ReadContext, Prepare, Build, Recheck, GiveUp, Throws, rows
<1>6. CASE PublishUrl(e) \/ Succeed(e) \/ FailLate(e) \/ CheckDeleted(e) \/ CheckReplacement(e)
  BY <1>1, <1>2, <1>6 DEF PublishUrl, Succeed, FailLate, CheckDeleted, CheckReplacement, rows
<1>7. CASE Unhost(e) \/ FailRun(e)
  BY <1>1, <1>2, <1>7 DEF Unhost, FailRun, Fault, rows
<1>8. CASE Throw(e)
  <2>1. CASE Goes(e, "throw")
    BY <1>2, <1>8, <2>1 DEF Throw, Fault
  <2>2. CASE executor' = [executor EXCEPT ![e] = [@ EXCEPT !.pc = "compensate", !.after = "throw"]]
    BY <1>1, <1>8, <2>2 DEF Throw, Fault, ExecutorType, Stays
  <2> QED BY <1>8, <2>1, <2>2 DEF Throw
<1> QED BY <1>3, <1>4, <1>5, <1>6, <1>7, <1>8 DEF StageStep

\* The consumer ends its claim: it is released for another attempt before the last only.
LEMMA SettleCounts ==
  ASSUME Inv, Counting, NEW e \in Executors, Complete(e) \/ Release(e) \/ FailCommand(e)
  PROVE  Counting'
<1>1. /\ executor[e].run \in Runs /\ executor[e].attempt \in Nat /\ faults' = faults
      /\ executor' = [executor EXCEPT ![e] = IdleExecutor]
      /\ executor \in [Executors -> ExecutorType]
      /\ command \in [Runs -> Commands]
  BY DEF Inv, Types, ActorTypes, CommandTypes, ExecutorType, ActorInv, Working, Complete, Release,
         FailCommand, Ends
<1>2. faults \in Nat /\ MaxAttempts \in Nat \ {0} /\ 0 \notin Runs
  BY DeploymentAssumption DEF Counting, Runs
<1>3. \A f \in Executors : executor'[f] = IF f = e THEN IdleExecutor ELSE executor[f]
  BY <1>1
<1>4. IdleExecutor.run = 0 /\ \A f \in Executors : executor'[f].pc = "idle" => executor'[f].run = 0
  BY <1>3 DEF IdleExecutor, Counting
<1>5. ASSUME NEW r \in Runs PROVE Counted(r)'
  <2>1. Counted(r) /\ command[r].attempts \in Nat
    BY <1>1 DEF Counting, Commands
  <2>2. CASE r # executor[e].run \/ ~Owns(e)
    <3>1. command'[r] = command[r]
      BY <1>1, <2>2 DEF Complete, Release, FailCommand, Settled
    <3>2. \A f \in Executors : executor'[f].run = r /\ Owns(f)' <=> executor[f].run = r /\ Owns(f)
      BY <1>2, <1>3, <1>4, <2>2, <3>1 DEF Owns
    <3>3. AtWork(r)' <=> AtWork(r)
      BY <3>2 DEF AtWork
    <3>4. \A f \in Executors : executor'[f].run = r => executor'[f].attempt = executor[f].attempt
      BY <1>2, <1>3, <1>4
    <3> QED BY <1>1, <2>1, <3>1, <3>2, <3>3, <3>4 DEF Counted
  <2>3. CASE r = executor[e].run /\ Owns(e)
    <3>1. /\ command'[r].attempts = command[r].attempts
          /\ \/ command'[r].status \in {"succeeded", "failed"}
             \/ command'[r].status = "queued" /\ executor[e].attempt < MaxAttempts
      <4>1. ASSUME NEW status, NEW note, Settled(e, status, note)
            PROVE  command'[r].attempts = command[r].attempts /\ command'[r].status = status
        BY <1>1, <2>3, <4>1 DEF Settled, Commands
      <4> QED BY <1>1, <1>2, <4>1 DEF Complete, Release, FailCommand, LastAttempt
    <3>2. executor[e].attempt = command[r].attempts
      BY <2>1, <2>3 DEF Counted
    <3> QED BY <1>1, <1>2, <2>1, <3>1, <3>2 DEF Counted, Owns
  <2> QED BY <2>2, <2>3
<1> QED BY <1>1, <1>2, <1>4, <1>5 DEF Counting

\* Each claim counts one attempt, of a command that had one left.
LEMMA ClaimCounts ==
  ASSUME Inv, Counting, NEW e \in Executors, NEW s \in Runs, Claim(e, s)
  PROVE  Counting'
<1>1. /\ executor \in [Executors -> ExecutorType] /\ command \in [Runs -> Commands]
      /\ faults \in Nat /\ MaxAttempts \in Nat \ {0} /\ faults' = faults
  BY DeploymentAssumption DEF Inv, Types, ActorTypes, CommandTypes, Counting, Claim
<1>2. CASE command' = command /\ executor' = executor
  BY <1>1, <1>2, UncountedStays DEF Counting, Uncounted
<1>3. CASE /\ Claimable(s)
           /\ command' = [command EXCEPT ![s] =
                [@ EXCEPT !.status = "running", !.owner = e, !.lease = "live",
                          !.attempts = command[s].attempts + 1]]
           /\ executor' = [executor EXCEPT ![e] =
                [@ EXCEPT !.pc = "context", !.run = s, !.attempt = command[s].attempts + 1]]
  <2>1. /\ command'[s].status = "running" /\ command'[s].owner = e /\ command'[s].lease = "live"
        /\ command'[s].attempts = command[s].attempts + 1
        /\ executor'[e].run = s /\ executor'[e].attempt = command[s].attempts + 1
    BY <1>1, <1>3 DEF Commands, ExecutorType
  <2>2. \A f \in Executors \ {e} : executor'[f] = executor[f]
    BY <1>1, <1>3
  <2>3. Counted(s)'
    <3>1. command[s].attempts \in Nat /\ command[s].attempts < MaxAttempts + faults
      BY <1>1, <1>3 DEF Counting, Counted, Claimable, Commands
    <3>2. AtWork(s)'
      BY <2>1 DEF AtWork, Owns
    <3> QED BY <1>1, <2>1, <2>2, <3>1, <3>2 DEF Counted, Owns
  <2>4. ASSUME NEW r \in Runs, r # s PROVE Counted(r)'
    <3>1. command'[r] = command[r] /\ Counted(r)
      BY <1>1, <1>3, <2>4 DEF Counting
    <3>2. \A f \in Executors : executor'[f].run = r /\ Owns(f)' => executor[f].run = r /\ Owns(f)
      BY <2>1, <2>2, <2>4, <3>1 DEF Owns
    <3>3. ASSUME NEW f \in Executors, executor[f].run = r, Owns(f)
          PROVE  executor'[f].run = r /\ Owns(f)'
      <4>1. f # e
        BY <3>3 DEF Claim, Counting, Runs
      <4> QED BY <2>2, <3>1, <3>3, <4>1 DEF Owns
    <3>4. AtWork(r)' <=> AtWork(r)
      BY <3>2, <3>3 DEF AtWork
    <3>5. \A f \in Executors : executor'[f].run = r => executor'[f].attempt = executor[f].attempt
      BY <2>1, <2>2, <2>4
    <3> QED BY <1>1, <3>1, <3>2, <3>4, <3>5 DEF Counted
  <2>5. \A f \in Executors : executor'[f].pc = "idle" => executor'[f].run = 0
    BY <1>1, <1>3, <2>2 DEF Counting, ExecutorType
  <2> QED BY <1>1, <2>3, <2>4, <2>5 DEF Counting
<1> QED BY <1>2, <1>3 DEF Claim

\* An executor that is lost leaves a command that has one more attempt, for the fault.
LEMMA LoseExecutorCounts ==
  ASSUME Inv, Counting, NEW e \in Executors, LoseExecutor(e)
  PROVE  Counting'
<1>1. /\ executor \in [Executors -> ExecutorType]
      /\ command \in [Runs -> Commands] /\ command' = command
      /\ executor' = [executor EXCEPT ![e] = IdleExecutor]
      /\ faults \in Nat /\ MaxAttempts \in Nat \ {0} /\ faults' = faults + 1
  BY DeploymentAssumption
     DEF Inv, Types, ActorTypes, CommandTypes, Counting, LoseExecutor, Fault, Ends, rows
<1>2. /\ \A f \in Executors : executor'[f] = IF f = e THEN IdleExecutor ELSE executor[f]
      /\ IdleExecutor.run = 0 /\ 0 \notin Runs
  BY <1>1 DEF IdleExecutor, Runs
<1>3. ASSUME NEW r \in Runs PROVE Counted(r)'
  <2>1. Counted(r) /\ command[r].attempts \in Nat
    BY <1>1 DEF Counting, Commands
  <2>2. \A f \in Executors :
          executor'[f].run = r => executor'[f] = executor[f] /\ (Owns(f)' <=> Owns(f))
    BY <1>1, <1>2 DEF Owns
  <2> QED BY <1>1, <2>1, <2>2 DEF Counted
<1> QED BY <1>1, <1>2, <1>3 DEF Counting

\* A command that ended is not claimed again.
LEMMA EndedCounts ==
  ASSUME Inv, Counting, NEW s \in Runs, executor' = executor, faults' \in {faults, faults + 1},
         \A r \in Runs \ {s} : command'[r] = command[r],
         command'[s].attempts = command[s].attempts,
         command'[s].status \in {"failed", "dead_lettered"}
  PROVE  Counting'
<1>1. command \in [Runs -> Commands] /\ faults \in Nat /\ MaxAttempts \in Nat \ {0}
  BY DeploymentAssumption DEF Inv, Types, CommandTypes, Counting
<1>2. ASSUME NEW r \in Runs \ {s} PROVE Counted(r)'
  BY <1>2, UncountedStays DEF Uncounted
<1>3. Counted(s)'
  BY <1>1 DEF Counting, Counted, Commands, Owns
<1> QED BY <1>1, <1>2, <1>3 DEF Counting

\* A lease lapses under its owner by a fault only, and else where nobody works.
LEMMA LeaseLapsesCounts ==
  ASSUME Inv, Counting, NEW s \in Runs, LeaseLapses(s)
  PROVE  Counting'
<1>1. /\ command \in [Runs -> Commands] /\ executor' = executor
      /\ faults \in Nat /\ MaxAttempts \in Nat \ {0}
      /\ command' = [command EXCEPT ![s].lease = "lapsed"]
      /\ faults' = IF AtWork(s) THEN faults + 1 ELSE faults
  BY DeploymentAssumption DEF Inv, Types, CommandTypes, Counting, LeaseLapses, AtWork, Fault
<1>2. \A r \in Runs : /\ command'[r].status = command[r].status /\ command'[r].owner = command[r].owner
                      /\ command'[r].attempts = command[r].attempts
                      /\ r # s => command'[r].lease = command[r].lease
  BY <1>1 DEF Commands
<1>3. ASSUME NEW r \in Runs \ {s} PROVE Counted(r)'
  BY <1>1, <1>2, <1>3, UncountedStays DEF Uncounted
<1>4. Counted(s)'
  <2>1. AtWork(s)' <=> AtWork(s)
    BY <1>1, <1>2 DEF AtWork, Owns
  <2>2. Counted(s) /\ command[s].attempts \in Nat
    BY <1>1 DEF Counting, Commands
  <2> QED BY <1>1, <1>2, <2>1, <2>2 DEF Counted, Owns
<1> QED BY <1>1, <1>3, <1>4 DEF Counting

\* A command that is admitted has made no attempt.
LEMMA AdmitCounts ==
  ASSUME Inv, Counting, NEW p \in Deployers, AdmitDispatch(p)
  PROVE  Counting'
<1>1. /\ command \in [Runs -> Commands] /\ executor' = executor
      /\ faults \in Nat /\ MaxAttempts \in Nat \ {0}
      /\ deployer[p].run \in Runs /\ command[deployer[p].run].status = "absent"
  BY DeploymentAssumption
     DEF Inv, Types, CommandTypes, Counting, AdmitDispatch, ActorInv, Requesting
<1>2. CASE command' = command /\ Fault
  BY <1>1, <1>2, UncountedStays DEF Counting, Uncounted, Fault
<1>3. ASSUME NEW s \in Runs, command[s].status = "absent", faults' = faults,
             command' = [command EXCEPT ![s] =
               [@ EXCEPT !.status = "queued", !.note = "undelivered"]]
      PROVE  Counting'
  <2>1. /\ \A r \in Runs \ {s} : command'[r] = command[r]
        /\ command'[s].status = "queued" /\ command'[s].attempts = command[s].attempts
    BY <1>1, <1>3 DEF Commands
  <2>2. ASSUME NEW r \in Runs \ {s} PROVE Counted(r)'
    BY <1>1, <1>3, <2>1, <2>2, UncountedStays DEF Uncounted
  <2>3. Counted(s)'
    <3>1. command[s].attempts = 0 /\ 0 < MaxAttempts + faults
      BY <1>1, <1>3 DEF Counting, Counted
    <3> QED BY <1>1, <1>3, <2>1, <3>1 DEF Counted, Owns
  <2> QED BY <1>1, <1>3, <2>2, <2>3 DEF Counting
<1> QED BY <1>1, <1>2, <1>3 DEF AdmitDispatch

\* Every step keeps the count.
LEMMA StepCounts ==
  ASSUME Inv, Counting, [DeploymentNext]_deploymentVars
  PROVE  Counting'
<1>1. ASSUME executor' = executor, faults' \in {faults, faults + 1},
             \A r \in Runs : /\ command'[r].status = command[r].status
                             /\ command'[r].attempts = command[r].attempts
                             /\ command'[r].owner = command[r].owner
                             /\ command'[r].lease = command[r].lease
      PROVE  Counting'
  <2>1. \A r \in Runs : Uncounted(r)
    BY <1>1 DEF Uncounted
  <2> QED BY <1>1, <2>1, UncountedStays DEF Counting
<1>2. ASSUME command' = command, executor' = executor, faults' \in {faults, faults + 1}
      PROVE  Counting'
  BY <1>1, <1>2
<1>3. CASE UNCHANGED deploymentVars
  BY <1>2, <1>3 DEF deploymentVars, rows
<1>4. ASSUME NEW r \in Runs, Sent(r), executor' = executor
      PROVE  Counting'
  <2>1. command \in [Runs -> Commands]
    BY DEF Inv, Types, CommandTypes
  <2>2. CASE command' = Cleared(r) /\ faults' = faults
    BY <1>1, <1>4, <2>1, <2>2 DEF Cleared, Commands
  <2>3. CASE command' = command /\ faults' = faults + 1
    BY <1>2, <1>4, <2>3
  <2> QED BY <1>4, <2>2, <2>3 DEF Sent, Fault
<1>5. ASSUME NEW p \in Deployers, Deploy(p) \/ DeployerStep(p) \/ LoseDeployer(p)
      PROVE  Counting'
  <2>1. deployer[p].pc = "send" => deployer[p].run \in Runs
    BY DEF Inv, ActorInv, Requesting
  <2>2. CASE SendDispatch(p)
    BY <1>2, <1>4, <2>1, <2>2 DEF SendDispatch, Fault
  <2>3. CASE \/ Deploy(p) \/ LookUp(p) \/ InsertDeployment(p) \/ InsertRun(p)
             \/ AbandonRun(p) \/ LoseDeployer(p)
    BY <1>2, <2>3
       DEF Deploy, LookUp, InsertDeployment, InsertRun, AbandonRun, LoseDeployer, Fault, rows
  <2>4. CASE LinkRun(p)
    BY <1>2, <2>4 DEF LinkRun, Fault
  <2> QED BY <1>5, <2>2, <2>3, <2>4, AdmitCounts DEF DeployerStep
<1>6. ASSUME NEW x \in Deleters, Delete(x) \/ DeleterStep(x) \/ LoseDeleter(x)
      PROVE  Counting'
  BY <1>2, <1>6
     DEF Delete, DeleterStep, FailActiveRuns, RemoveSite, MarkDeleted, LoseDeleter, Fault, rows
<1>7. ASSUME NEW e \in Executors, StageStep(e) \/ FailRun(e) \/ Throw(e)
      PROVE  Counting'
  <2>1. command' = command /\ faults' \in {faults, faults + 1} /\ \A f \in Executors : Stays(f)
    BY <1>7, StageCounts
  <2>2. \A r \in Runs : Uncounted(r)
    BY <2>1 DEF Stays, Uncounted
  <2> QED BY <2>1, <2>2, UncountedStays DEF Counting, Stays
<1>8. ASSUME NEW v \in Readers, ReaderStep(v) \/ LoseReader(v)
      PROVE  Counting'
  <2>1. CASE FailReadRun(v) \/ LoseReader(v)
    BY <1>2, <2>1 DEF FailReadRun, LoseReader, Fault, rows
  <2>2. CASE FailReadCommand(v)
    <3>1. reader[v].run \in Runs /\ command \in [Runs -> Commands]
      BY <2>2 DEF FailReadCommand, Inv, Types, CommandTypes, ActorInv, Reading
    <3>2. CASE command' = command
      BY <1>2, <2>2, <3>2 DEF FailReadCommand
    <3>3. ASSUME NEW s \in Runs,
                 command' = [command EXCEPT ![s] =
                   [@ EXCEPT !.status = "failed", !.note = "error",
                             !.owner = NoExecutor, !.lease = "none"]]
          PROVE  Counting'
      <4>1. /\ \A r \in Runs \ {s} : command'[r] = command[r]
            /\ command'[s].attempts = command[s].attempts /\ command'[s].status = "failed"
        BY <3>1, <3>3 DEF Commands
      <4> QED BY <2>2, <4>1, EndedCounts DEF FailReadCommand
    <3> QED BY <2>2, <3>1, <3>2, <3>3 DEF FailReadCommand
  <2> QED BY <1>8, <2>1, <2>2 DEF ReaderStep
<1>9. ASSUME NEW v \in Readers, NEW r \in Runs, Read(v, r)
      PROVE  Counting'
  BY <1>2, <1>9 DEF Read, rows
<1>10. ASSUME NEW r \in Runs, Redrive(r)
       PROVE  Counting'
  BY <1>4, <1>10 DEF Redrive
<1>11. ASSUME NEW r \in Runs, DeadLetter(r)
       PROVE  Counting'
  BY <1>11, EndedCounts DEF DeadLetter, Inv, Types, CommandTypes, Commands
<1>12. ASSUME NEW r \in Runs, DeadLetterRun(r)
       PROVE  Counting'
  BY <1>2, <1>12 DEF DeadLetterRun, Fault
<1> QED BY <1>3, <1>5, <1>6, <1>7, <1>8, <1>9, <1>10, <1>11, <1>12, SettleCounts,
           ClaimCounts, LoseExecutorCounts, LeaseLapsesCounts
        DEF DeploymentNext, ExecutorStep

\* At first nothing is dispatched.
LEMMA InitCounts == ASSUME DeploymentInit PROVE Counting
<1>1. /\ faults = 0 /\ MaxAttempts \in Nat \ {0}
      /\ \A r \in Runs : command[r].status = "absent" /\ command[r].attempts = 0
      /\ \A e \in Executors : executor[e].pc = "idle" /\ executor[e].run = 0
  BY DeploymentAssumption DEF DeploymentInit, IdleExecutor
<1>2. \A r \in Runs : Counted(r)
  BY <1>1 DEF Counted, Owns
<1> QED BY <1>1, <1>2 DEF Counting

\* A run is dispatched at most MaxAttempts times, but for the faults: a lost execution, or a
\* claim that lapsed under its owner, costs an attempt that is made up for.
THEOREM AttemptsAreBounded == DeploymentSpec => []AttemptsBounded
<1>1. DeploymentInit => Counting
  BY InitCounts
<1>2. Inv /\ Counting /\ [DeploymentNext]_deploymentVars => Counting'
  BY StepCounts
<1>3. Counting => AttemptsBounded
  BY DEF Counting, Counted, AttemptsBounded
<1> QED BY <1>1, <1>2, <1>3, Invariance, PTL DEF DeploymentSpec
=============================================================================
