-------------------------- MODULE SessionLifecycle --------------------------
(***************************************************************************)
(* Archive, unarchive and delete of the session of SessionRun.             *)
(*                                                                         *)
(* Each request is a sequence of statements on the rows that the run's     *)
(* writers and other requests interleave with; it may be lost, or one of   *)
(* its steps may fail, anywhere.  A deletion marks the row first, so that  *)
(* the scheduled repair can resume one that did not get to the end.        *)
(*                                                                         *)
(* Abstracted: viewer sockets, the sandbox conversation, durable objects,  *)
(* backups and files, whose clean-up succeeds or loses the request; the    *)
(* age a deletion must have before it is repaired.                         *)
(*                                                                         *)
(* Definitions X_Y are plausible faulty forms of X, which the              *)
(* specification does not use.                                             *)
(***************************************************************************)
EXTENDS DriverStop

CONSTANT Kinds    \* the kinds of request that users make

ASSUME KindsAssumption == Kinds \subseteq {"archive", "unarchive", "delete"}

VARIABLES
  request,       \* operation -> the request it executes
  deleted        \* the session row is gone

lifecycleVars == <<vars, stop, request, deleted>>

\* cancels: active runs still to cancel.  owner: the operation id of a deletion.
Phases == {"none", "begun", "stopping", "list", "cancelling", "idle", "finish"}

NoRequest == [kind |-> "none", phase |-> "none", cancels |-> {}, owner |-> NoOperation]

Become(o, phase) == request' = [request EXCEPT ![o].phase = phase]
End(o) == request' = [request EXCEPT ![o] = NoRequest]

-----------------------------------------------------------------------------
\* What the session-action policy allows on the session as read first.
Allowed(kind) ==
  /\ ~deleted
  /\ kind = "archive"   => ~session.archived /\ session.status # "TERMINATED"
  /\ kind = "unarchive" => session.archived /\ session.status # "TERMINATED"

\* An unarchive does not stop drivers.
Begin(o, kind) ==
  /\ request[o] = NoRequest
  /\ Allowed(kind)
  /\ request' = [request EXCEPT ![o] = [NoRequest EXCEPT !.kind = kind,
                   !.phase = IF kind = "unarchive" THEN "list" ELSE "begun"]]
  /\ UNCHANGED <<vars, stop, deleted>>

\* archive_session_row: unconditionally, whatever happened since.
ArchiveRow(o) ==
  /\ request[o].kind = "archive"
  /\ request[o].phase = "begun"
  /\ session' = [session EXCEPT !.archived = TRUE]
  /\ Become(o, "stopping")
  /\ UNCHANGED <<run, driver, events, dispatches, worker, crashes, stop, deleted>>

\* A deletion of a session that is being deleted continues under the same id.
ResolveOwner(o) ==
  /\ request[o].kind = "delete"
  /\ request[o].phase = "begun"
  /\ request[o].owner = NoOperation
  /\ request' = [request EXCEPT ![o].owner =
       IF session.status = "TERMINATED" /\ session.op # NoOperation THEN session.op ELSE o]
  /\ UNCHANGED <<vars, stop, deleted>>

\* The durable anchor of a deletion.
AdmitDelete_NoOwner(o) ==
  /\ request[o].phase = "begun"
  /\ request[o].owner # NoOperation
  /\ session' = IF deleted THEN session
                ELSE [session EXCEPT !.archived = TRUE, !.status = "TERMINATED", !.seq = @ + 1]
  /\ Become(o, "stopping")
  /\ UNCHANGED <<run, driver, events, dispatches, worker, crashes, stop, deleted>>
AdmitDelete(o) ==
  /\ request[o].phase = "begun"
  /\ request[o].owner # NoOperation
  /\ session' = IF deleted THEN session
                ELSE [session EXCEPT !.archived = TRUE, !.status = "TERMINATED",
                                     !.op = request[o].owner, !.seq = @ + 1]
  /\ Become(o, "stopping")
  /\ UNCHANGED <<run, driver, events, dispatches, worker, crashes, stop, deleted>>

-----------------------------------------------------------------------------
(* Stopping the driver; the run's writer updates the session, too.         *)

AfterStop(o) == IF request[o].kind = "archive" THEN "list" ELSE "finish"

StopDriver(o) ==
  /\ request[o].phase = "stopping"
  /\ BeginStop(o)
  /\ Become(o, AfterStop(o))
  /\ UNCHANGED deleted

NothingToStop(o) ==
  /\ request[o].phase = "stopping"
  /\ ~DriverIsLive
  /\ Become(o, AfterStop(o))
  /\ UNCHANGED <<vars, stop, deleted>>

Stopping(o) == StopStep(o, FALSE, NoOperation) /\ UNCHANGED <<request, deleted>>

\* The request fails; what it did so far stays.
StopThrows(o) ==
  /\ StopFailed(o)
  /\ stop' = [stop EXCEPT ![o] = NoStop]
  /\ End(o)
  /\ UNCHANGED <<vars, deleted>>

-----------------------------------------------------------------------------
(* normalizeSessionRuntimeLifecycle, of an archive and an unarchive.       *)

ListActiveRuns(o) ==
  /\ request[o].phase = "list"
  /\ stop[o] = NoStop
  /\ request' = [request EXCEPT ![o].phase = "cancelling",
                                ![o].cancels = {r \in Runs : Active(r)}]
  /\ UNCHANGED <<vars, stop, deleted>>

CancelListedRun(o) ==
  /\ request[o].phase = "cancelling"
  /\ \E r \in request[o].cancels :
       /\ Start(o, Call("system", r, "cancelled", FALSE))
       /\ request' = [request EXCEPT ![o].cancels = @ \ {r}]
  /\ UNCHANGED <<stop, deleted>>

\* A cancellation that lost its race is not tried again.
ListedRunReturned(o) ==
  /\ request[o].phase = "cancelling"
  /\ worker[o].pc \in Outcomes
  /\ IF worker[o].pc = "repair_needed" THEN End(o) ELSE UNCHANGED request
  /\ worker' = [worker EXCEPT ![o] = Idle]
  /\ UNCHANGED <<session, run, driver, events, dispatches, crashes, stop, deleted>>

NormalizeSession(o) ==
  /\ request[o].phase = "cancelling"
  /\ request[o].cancels = {}
  /\ worker[o] = Idle
  /\ session' = IF session.status \in {"RUNNING", "RESCHEDULING"}
                THEN SessionPatch("IDLE", NoOperation) ELSE session
  /\ Become(o, "finish")
  /\ UNCHANGED <<run, driver, events, dispatches, worker, crashes, stop, deleted>>

-----------------------------------------------------------------------------
(* The end of a request.                                                   *)

FinishArchive(o) ==
  /\ request[o].kind = "archive"
  /\ request[o].phase = "finish"
  /\ End(o)
  /\ UNCHANGED <<vars, stop, deleted>>

\* Unconditionally, whatever happened since.
Unarchive(o) ==
  /\ request[o].kind = "unarchive"
  /\ request[o].phase = "finish"
  /\ session' = IF deleted THEN session ELSE [session EXCEPT !.archived = FALSE]
  /\ End(o)
  /\ UNCHANGED <<run, driver, events, dispatches, worker, crashes, stop, deleted>>

\* delete_session_row: runs and events go with the session.
DeleteRow(o) ==
  /\ request[o].kind = "delete"
  /\ request[o].phase = "finish"
  /\ stop[o] = NoStop
  /\ deleted' = TRUE
  /\ run' = [r \in Runs |-> [status |-> "absent", seq |-> 0, op |-> NoOperation]]
  /\ events' = {}
  /\ session' = [session EXCEPT !.archived = TRUE, !.op = NoOperation, !.lastRun = NoRun]
  /\ End(o)
  /\ UNCHANGED <<driver, dispatches, worker, crashes, stop>>

LoseRequest(o) ==
  /\ request[o] # NoRequest
  /\ crashes < MaxCrashes
  /\ crashes' = crashes + 1
  /\ AbandonStop(o)
  /\ End(o)
  /\ UNCHANGED <<session, run, driver, events, dispatches, deleted>>

\* The scheduled repair resumes a deletion that stopped before its end.
RepairDelete(o) ==
  /\ request[o] = NoRequest
  /\ ~deleted
  /\ session.archived
  /\ session.status = "TERMINATED"
  /\ session.op # NoOperation
  /\ request' = [request EXCEPT ![o] = [NoRequest EXCEPT !.kind = "delete", !.phase = "begun"]]
  /\ UNCHANGED <<vars, stop, deleted>>

-----------------------------------------------------------------------------
LifecycleInit ==
  /\ Init
  /\ stop = [o \in Operations |-> NoStop]
  /\ request = [o \in Operations |-> NoRequest]
  /\ deleted = FALSE

RequestStep(o) ==
  \/ ArchiveRow(o) \/ ResolveOwner(o) \/ AdmitDelete(o)
  \/ StopDriver(o) \/ NothingToStop(o) \/ Stopping(o) \/ StopThrows(o)
  \/ ListActiveRuns(o) \/ CancelListedRun(o) \/ ListedRunReturned(o) \/ NormalizeSession(o)
  \/ FinishArchive(o) \/ Unarchive(o) \/ DeleteRow(o)

LifecycleNext ==
  \/ Next /\ UNCHANGED <<stop, request, deleted>>
  \/ \E o \in Operations :
       \/ \E kind \in Kinds : Begin(o, kind)
       \/ RequestStep(o) \/ LoseRequest(o) \/ RepairDelete(o)

LifecycleSpec == LifecycleInit /\ [][LifecycleNext]_lifecycleVars

\* Requests and executions that are not lost go on, and the scheduled repair gets to
\* every deletion it finds.
LifecycleFairness ==
  /\ \A w \in Workers : WF_lifecycleVars(Step(w) /\ UNCHANGED <<stop, request, deleted>>)
  /\ \A o \in Operations : WF_lifecycleVars(RequestStep(o)) /\ SF_lifecycleVars(RepairDelete(o))

LifecycleFairSpec == LifecycleSpec /\ LifecycleFairness

-----------------------------------------------------------------------------
(* Properties.                                                             *)

Requests == [kind : {"none", "archive", "unarchive", "delete"}, phase : Phases,
             cancels : SUBSET Runs, owner : Operations \cup {NoOperation}]

\* Nothing is written for a session whose row is gone: neither a run nor an event of it
\* comes back, however late a request, a worker or the driver is.
GoneIsEmpty ==
  deleted => /\ session.status = "TERMINATED"
             /\ events = {}
             /\ \A r \in Runs : run[r].status = "absent"

\* Every variable has its type, a terminated session stays owned by the operation
\* that deletes it until it is gone, and then nothing of it is left.
LifecycleTypeOK ==
  /\ TypeOK /\ StopTypeOK
  /\ request \in [Operations -> Requests]
  /\ deleted \in BOOLEAN
  /\ session.status = "TERMINATED" /\ ~deleted => session.op # NoOperation
  /\ GoneIsEmpty

\* A deletion that was admitted gets to its end, whoever else works on the session
\* and whichever execution is lost.  An unarchive that was under way when the deletion
\* was admitted is excepted: it takes away the mark by which the repair finds it.
DeletionCompletes == session.status = "TERMINATED" ~> (deleted \/ ~session.archived)
=============================================================================
