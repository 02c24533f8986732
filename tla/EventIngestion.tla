--------------------------- MODULE EventIngestion ---------------------------
(***************************************************************************)
(* How the events of one run get from its driver into the session's event  *)
(* log: pushEvents of the driver object, the receipts it keeps in memory   *)
(* and finds in D1, the transition of the run that a batch brings about,   *)
(* and the event store, which the API writes to as well.                   *)
(*                                                                         *)
(* Events are 1 .. Final in the order the driver makes them: 1 is           *)
(* run.started and Final tells how the run ended.  The store knows an event *)
(* by its source id; a failure has one id, whoever records it.             *)
(*                                                                         *)
(* Replays stands for the keys of the replay filter.  The end of the run,  *)
(* Final, makes replays of the stream: all that tells of messages,         *)
(* thoughts, items and tool calls.  The end of a message or a thought      *)
(* makes replays of what else tells of it, and any update of a tool call   *)
(* of all its other updates, the later ones too.                           *)
(*                                                                         *)
(* The driver is not in the repository.  It is taken to send what it has   *)
(* no receipt for, oldest first, one batch at a time on a connection, and  *)
(* not to cut shorter a batch that it sends again.                         *)
(*                                                                         *)
(* Abstracted: what the events say, and everything written from it (the    *)
(* title, usage, messages, the viewers' projection and live deliveries),   *)
(* where a failure is a failure of the push; flips between running and     *)
(* waiting_input; the release of the run's lease; a limit on receipts.     *)
(*                                                                         *)
(* Definitions X_Y are plausible faulty forms of X, which the              *)
(* specification does not use.                                             *)
(***************************************************************************)
EXTENDS Naturals, FiniteSets, Sequences

CONSTANTS
  Final,            \* number of events of the run
  Replays,          \* event -> the events that are taken for replays where it is in the log
  MaxConnections,   \* number of connections the driver makes
  MaxFaults         \* number of failed pushes, evictions and lost API executions

ASSUME IngestionAssumption ==
  /\ Final \in Nat /\ Final >= 2
  /\ Replays \in [1 .. Final -> SUBSET (2 .. Final - 1)]
  /\ MaxConnections \in Nat \ {0}
  /\ MaxFaults \in Nat

Events == 1 .. Final
Connections == 1 .. MaxConnections
Api == 0
Writers == {Api} \cup Connections

VARIABLES
  ending,       \* how the driver says the run ended
  emitted,      \* number of events the driver has made
  sent,         \* the latest of them it has sent
  acked,        \* events the driver has a receipt for
  connection,   \* the driver's current connection
  push,         \* connection -> the batch it pushes
  gate,         \* the connections whose pushes entered the object's event gate, in order
  memory,       \* receipts in the object's memory
  write,        \* writer -> its persistSessionRuntimeEvents
  log,          \* source id -> sequence number of its row; 0: no row
  cursor,       \* the session's runtimeEventSeqCursor
  writable,     \* the session is neither archived nor terminated
  run,          \* status of the run
  api,          \* the API's execution that ends the run itself
  faults

driverVars == <<ending, emitted, sent, acked, connection>>
objectVars == <<push, gate, memory>>
vars == <<driverVars, objectVars, write, log, cursor, writable, run, api, faults>>

\* The API's failure of a run has the source id of the driver's.
ApiEvent(outcome) == IF outcome = ending THEN Final ELSE Final + 1
SourceIds == 1 .. Final + 1

IsStored(e) == log[e] # 0

NoPush == [phase |-> "idle", batch |-> {}, fresh |-> {}, known |-> {}]
NoWrite == [phase |-> "idle", ids |-> {}, first |-> 0]

-----------------------------------------------------------------------------
(* The driver.                                                             *)

Emit ==
  /\ emitted < Final
  /\ emitted' = emitted + 1
  /\ UNCHANGED <<ending, sent, acked, connection, objectVars, write, log, cursor, writable, run, api, faults>>

Unacked == (1 .. emitted) \ acked

Send ==
  /\ push[connection].phase = "idle"
  /\ \E last \in Unacked :
       /\ \A e \in Unacked : e <= sent => e <= last
       /\ sent' = IF last > sent THEN last ELSE sent
       /\ push' = [push EXCEPT ![connection] =
                     [NoPush EXCEPT !.phase = "gated", !.batch = {e \in Unacked : e <= last}]]
  /\ gate' = Append(gate, connection)
  /\ UNCHANGED <<ending, emitted, acked, connection, memory, write, log, cursor, writable, run, api, faults>>

\* The push under way on the old connection goes on.
Reconnect ==
  /\ connection < MaxConnections
  /\ connection' = connection + 1
  /\ UNCHANGED <<ending, emitted, sent, acked, objectVars, write, log, cursor, writable, run, api, faults>>

-----------------------------------------------------------------------------
(* persistSessionRuntimeEvents: three statements.                          *)

BeginWrite(w, ids) == write' = [write EXCEPT ![w] = [NoWrite EXCEPT !.phase = "filter", !.ids = ids]]
Written(w) == write[w].phase = "done"

FilterNew(w) ==
  /\ write[w].phase = "filter"
  /\ LET new == {e \in write[w].ids : ~IsStored(e)}
     IN write' = [write EXCEPT ![w] = [@ EXCEPT !.ids = new,
                    !.phase = IF new = {} THEN "done" ELSE "allocate"]]
  /\ UNCHANGED <<driverVars, objectVars, log, cursor, writable, run, api, faults>>

\* One statement, so that no two writers get the same numbers.
Allocate(w) ==
  /\ write[w].phase = "allocate"
  /\ writable
  /\ cursor' = cursor + Cardinality(write[w].ids)
  /\ write' = [write EXCEPT ![w] = [@ EXCEPT !.phase = "insert", !.first = cursor + 1]]
  /\ UNCHANGED <<driverVars, objectVars, log, writable, run, api, faults>>

\* Rows whose source id is there already are left as they are.
InsertRows(w) ==
  LET ids == write[w].ids
      Number(e) == write[w].first + Cardinality({x \in ids : x < e})
  IN /\ write[w].phase = "insert"
     /\ log' = [e \in SourceIds |-> IF e \in ids /\ ~IsStored(e) THEN Number(e) ELSE log[e]]
     /\ write' = [write EXCEPT ![w].phase = "done"]
     /\ UNCHANGED <<driverVars, objectVars, cursor, writable, run, api, faults>>

-----------------------------------------------------------------------------
(* pushEvents.                                                             *)

\* The event gate lets one push at a time do its work.
AtWork_Ungated(c) == push[c].phase # "idle"
AtWork(c) == gate # <<>> /\ Head(gate) = c

\* The push is over, answered or not: the next one in the gate may begin.
EndPush(c) ==
  /\ push' = [push EXCEPT ![c] = NoPush]
  /\ gate' = Tail(gate)

Become(c, phase) == push' = [push EXCEPT ![c].phase = phase]

\* filterDurablyAcceptedRuntimeStreamReplays: a replay is not written, and gets no receipt.
Fresh(batch, durable) ==
  {e \in (batch \ memory) \ durable : \A d \in durable : e \notin Replays[d]}

ReadReceipts_Remembers(c) ==
  LET batch   == push[c].batch
      durable == {e \in batch \ memory : IsStored(e)}
      fresh   == Fresh(batch, durable)
  IN /\ AtWork(c)
     /\ push[c].phase = "gated"
     /\ c = connection
     /\ push' = [push EXCEPT ![c] = [@ EXCEPT !.fresh = fresh, !.known = batch \cap (memory \cup durable),
                   !.phase = IF fresh = {} THEN "answer" ELSE "transition"]]
     /\ memory' = memory \cup batch
     /\ UNCHANGED <<driverVars, gate, write, log, cursor, writable, run, api, faults>>
ReadReceipts(c) ==
  LET batch   == push[c].batch
      durable == {e \in batch \ memory : IsStored(e)}
      fresh   == Fresh(batch, durable)
  IN /\ AtWork(c)
     /\ push[c].phase = "gated"
     /\ c = connection
     /\ push' = [push EXCEPT ![c] = [@ EXCEPT !.fresh = fresh, !.known = batch \cap (memory \cup durable),
                   !.phase = IF fresh = {} THEN "answer" ELSE "transition"]]
     /\ UNCHANGED <<driverVars, gate, memory, write, log, cursor, writable, run, api, faults>>

\* compactRuntimeDriverRunTransitions
Wanted(fresh) ==
  CASE Final \in fresh -> ending
    [] Final \notin fresh /\ 1 \in fresh -> "running"
    [] OTHER -> "none"

\* A batch without transition.
SkipTransition(c) ==
  /\ AtWork(c)
  /\ push[c].phase = "transition"
  /\ Wanted(push[c].fresh) = "none"
  /\ Become(c, "rest")
  /\ BeginWrite(c, push[c].fresh)
  /\ UNCHANGED <<driverVars, gate, memory, log, cursor, writable, run, api, faults>>

\* Completion waits until what precedes it is stored.
WriteBeforeCompletion(c) ==
  LET before == push[c].fresh \ {Final}
  IN /\ AtWork(c)
     /\ push[c].phase = "transition"
     /\ Wanted(push[c].fresh) = "completed"
     /\ IF before = {} THEN Become(c, "complete") /\ UNCHANGED write
                       ELSE Become(c, "before") /\ BeginWrite(c, before)
     /\ UNCHANGED <<driverVars, gate, memory, log, cursor, writable, run, api, faults>>

WrittenBeforeCompletion(c) ==
  /\ push[c].phase = "before"
  /\ Written(c)
  /\ Become(c, "complete")
  /\ write' = [write EXCEPT ![c] = NoWrite]
  /\ UNCHANGED <<driverVars, gate, memory, log, cursor, writable, run, api, faults>>

\* The run moves if it is active, and the batch goes on if the run is as the batch
\* says; otherwise the batch is dropped, and acknowledged all the same.
Transition(c) ==
  LET wanted == Wanted(push[c].fresh)
      after  == IF run = "running" THEN wanted ELSE run
      rest   == IF wanted = "completed" THEN {Final} ELSE push[c].fresh
  IN /\ AtWork(c)
     /\ \/ push[c].phase = "transition" /\ wanted \in {"running", "failed"}
        \/ push[c].phase = "complete"
     /\ run' = after
     /\ IF after = wanted THEN Become(c, "rest") /\ BeginWrite(c, rest)
                          ELSE Become(c, "answer") /\ UNCHANGED write
     /\ UNCHANGED <<driverVars, gate, memory, log, cursor, writable, api, faults>>

RestWritten(c) ==
  /\ push[c].phase = "rest"
  /\ Written(c)
  /\ Become(c, "answer")
  /\ write' = [write EXCEPT ![c] = NoWrite]
  /\ UNCHANGED <<driverVars, gate, memory, log, cursor, writable, run, api, faults>>

Answer(c) ==
  LET accepted == push[c].known \cup push[c].fresh
  IN /\ push[c].phase = "answer"
     /\ c = connection
     /\ memory' = memory \cup accepted
     /\ acked' = acked \cup accepted
     /\ EndPush(c)
     /\ UNCHANGED <<ending, emitted, sent, connection, write, log, cursor, writable, run, api, faults>>

\* assertActiveConnection: a push of a connection that was replaced ends without answer.
Superseded(c) ==
  /\ c # connection
  /\ push[c].phase = "answer" \/ (push[c].phase = "gated" /\ AtWork(c))
  /\ EndPush(c)
  /\ UNCHANGED <<driverVars, memory, write, log, cursor, writable, run, api, faults>>

\* The session takes no events any more: the push fails.
NotWritable(c) ==
  /\ write[c].phase = "allocate"
  /\ ~writable
  /\ EndPush(c)
  /\ write' = [write EXCEPT ![c] = NoWrite]
  /\ UNCHANGED <<driverVars, memory, log, cursor, writable, run, api, faults>>

\* A statement fails, or the run's status changed under the transition.
FailPush(c) ==
  /\ faults < MaxFaults
  /\ faults' = faults + 1
  /\ AtWork(c)
  /\ EndPush(c)
  /\ write' = [write EXCEPT ![c] = NoWrite]
  /\ UNCHANGED <<driverVars, memory, log, cursor, writable, run, api>>

\* The object's memory, its pushes and the connection are gone.
Evict ==
  /\ connection < MaxConnections
  /\ faults < MaxFaults
  /\ faults' = faults + 1
  /\ connection' = connection + 1
  /\ push' = [c \in Connections |-> NoPush]
  /\ gate' = <<>>
  /\ memory' = {}
  /\ write' = [w \in Writers |-> IF w = Api THEN write[w] ELSE NoWrite]
  /\ UNCHANGED <<ending, emitted, sent, acked, log, cursor, writable, run, api>>

-----------------------------------------------------------------------------
(* The API.                                                                *)

\* Fails the run, or records again that it failed, or cancels it.
SettleRun(outcome) ==
  /\ api = "idle"
  /\ run = "running" \/ (run = "failed" /\ outcome = "failed")
  /\ run' = outcome
  /\ api' = "settled"
  /\ BeginWrite(Api, {ApiEvent(outcome)})
  /\ UNCHANGED <<driverVars, objectVars, log, cursor, writable, faults>>

ApiReturns ==
  /\ api = "settled"
  /\ Written(Api) \/ (write[Api].phase = "allocate" /\ ~writable)
  /\ api' = "done"
  /\ write' = [write EXCEPT ![Api] = NoWrite]
  /\ UNCHANGED <<driverVars, objectVars, log, cursor, writable, run, faults>>

LoseApi ==
  /\ api = "settled"
  /\ faults < MaxFaults
  /\ faults' = faults + 1
  /\ api' = "done"
  /\ write' = [write EXCEPT ![Api] = NoWrite]
  /\ UNCHANGED <<driverVars, objectVars, log, cursor, writable, run>>

\* The session is archived or deleted.
CloseSession ==
  /\ writable
  /\ writable' = FALSE
  /\ UNCHANGED <<driverVars, objectVars, write, log, cursor, run, api, faults>>

-----------------------------------------------------------------------------
Init ==
  /\ ending \in {"completed", "failed"}
  /\ emitted = 0
  /\ sent = 0
  /\ acked = {}
  /\ connection = 1
  /\ push = [c \in Connections |-> NoPush]
  /\ gate = <<>>
  /\ memory = {}
  /\ write = [w \in Writers |-> NoWrite]
  /\ log = [e \in SourceIds |-> 0]
  /\ cursor = 0
  /\ writable = TRUE
  /\ run = "running"
  /\ api = "idle"
  /\ faults = 0

WriteStep(w) == FilterNew(w) \/ Allocate(w) \/ InsertRows(w)

PushStep(c) ==
  \/ ReadReceipts(c) \/ SkipTransition(c) \/ WriteBeforeCompletion(c)
  \/ WrittenBeforeCompletion(c) \/ Transition(c) \/ RestWritten(c) \/ Answer(c)
  \/ Superseded(c) \/ NotWritable(c) \/ WriteStep(c)

ApiStep == ApiReturns \/ WriteStep(Api)

Next ==
  \/ Emit \/ Send \/ Reconnect
  \/ \E c \in Connections : PushStep(c) \/ FailPush(c)
  \/ Evict
  \/ \E outcome \in {"failed", "cancelled"} : SettleRun(outcome)
  \/ ApiStep \/ LoseApi \/ CloseSession

Spec == Init /\ [][Next]_vars

\* A push that is not lost goes on, and a connected driver sends what it has no receipt for.
Fairness ==
  /\ \A c \in Connections : WF_vars(PushStep(c))
  /\ WF_vars(Send)

FairSpec == Spec /\ Fairness

-----------------------------------------------------------------------------
(* Properties.                                                             *)

\* The events that only the driver writes: its failure has the API's source id.
DriversOwn == IF ending = "failed" THEN Events \ {Final} ELSE Events

\* The events that none before them makes a replay of: an update of a tool call may be
\* dropped for an earlier one, and come again when later events are stored already.
Timely == {e \in Events : \A d \in 1 .. e - 1 : e \notin Replays[d]}

\* The API settled the run, and the driver's failure is in the log, by whomever: where the
\* API wrote it, the stream before it is dropped for it, and comes again later.
Replaced == api # "idle" /\ ending = "failed" /\ IsStored(Final)

Log == INSTANCE DriverLog WITH
  Promised  <- Timely,
  position  <- [e \in {d \in DriversOwn : IsStored(d)} |-> log[e]],
  acked     <- acked \cap DriversOwn,
  completed <- run = "completed",
  overruled <- api # "idle",
  replaced  <- Replaced

\* Lost connections, evicted objects and failed statements do not reorder the driver's
\* timely events, leave a gap among them, acknowledge what is not stored, or complete a
\* run whose output is not stored; the API's settling of the run makes gaps, but reorders
\* nothing before the driver's failure is in the log.
ImplementsDriverLog == Log!LogSpec

\* Every event the driver made is stored some time, unless the session is closed or
\* the API settles the run itself.
EmittedIsStored ==
  \A e \in Events : emitted >= e ~> (IsStored(e) \/ ~writable \/ api # "idle")
=============================================================================
