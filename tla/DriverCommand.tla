--------------------------- MODULE DriverCommand ---------------------------
(***************************************************************************)
(* The commands of one driver: from the request that sends one, through    *)
(* the driver's durable object and the command table, to its outcome.      *)
(*                                                                         *)
(* instance and row are rows of D1; object is the durable object, which    *)
(* holds the driver's WebSocket and a queue of its own.  A turn is only    *)
(* inserted in D1; a control command is inserted by the object and then    *)
(* pushed on its queue.  The driver takes commands through a watch, fed by *)
(* the queue, or by polling, which claims from D1.  Either way a command   *)
(* counts as delivered before the driver sees it, and expires unless the   *)
(* driver accepts it within its lease.                                     *)
(*                                                                         *)
(* The object is single-threaded: what it does between two awaits of D1 is *)
(* one step, a D1 statement another.  Reading a command and then writing   *)
(* it on the condition that it is still as read is one statement here,     *)
(* because a command never returns to a status it left.                    *)
(*                                                                         *)
(* External: the driver.  It connects once (its boot token can be used     *)
(* once), settles the acceptance of a command before it reports its end,   *)
(* and exits when it loses its socket; so no command is ever recovered     *)
(* from an older connection.  Abstracted: hello and the driver's events    *)
(* (SessionRun); cancellation, which ends a command as expiry does; the    *)
(* object's destroy, which a deletion calls when the session is gone.      *)
(* Definitions X_Y are plausible faulty forms of X, which the              *)
(* specification does not use.                                             *)
(***************************************************************************)
EXTENDS Naturals, Sequences, SequencesExt

CONSTANTS
  Commands,
  NoCommand,
  MaxEvictions   \* times the object loses its memory

ASSUME DriverAssumption ==
  /\ NoCommand \notin Commands
  /\ MaxEvictions \in Nat

VARIABLES
  instance,      \* the driver's row: status, whether it names the connection, whether it looks dead
  object,        \* what the object knows: connection, ended (in memory, on disk), queue
  socket,        \* "none", "open", or "closed" while the object has not noticed
  process,       \* the driver: "booting", "claimed" or "linked" while it is let in, "up", "gone"
  row,           \* command -> status, and whether its lease lapsed
  order,         \* inserted commands, by sequence number
  sender,        \* command -> how far the request is that sends it
  watch,         \* the driver's watch: its phase, command and answer, and who feeds it
  poll,          \* the driver's poll: its phase and command
  report,        \* the driver's report: its phase, command, status and answer
  finalizer,     \* how far the object is in ending
  handed,        \* command -> times the driver got it (history)
  told,          \* command -> the last status the driver was told is recorded
  evictions

driverVars == <<instance, object, socket, process, row, order, sender, watch, poll, report,
                finalizer, handed, told, evictions>>

LiveStatuses == {"provisioning", "connecting", "ready"}
Live == instance.status \in LiveStatuses

\* Statuses a command may move to a status from.
Previous(status) ==
  CASE status = "accepted" -> {"delivered"}
    [] status = "delivered" -> {"queued"}
    [] status = "queued" -> {"delivered"}
    [] status \in {"completed", "failed"} -> {"delivered", "accepted"}
    [] status \in {"cancelled", "expired"} -> {"queued", "delivered", "accepted"}

\* The lease of an accepted command lapses too.
Unacknowledged_Accepted == {"queued", "delivered", "accepted"}

\* Commands whose delivery lease may expire.
Unacknowledged == {"queued", "delivered"}
Ends == {"completed", "failed", "expired"}

NoWatch == [pc |-> "off", cmd |-> NoCommand, ok |-> FALSE, via |-> "watch"]
NoPoll == [pc |-> "off", cmd |-> NoCommand]
NoReport == [pc |-> "off", cmd |-> NoCommand, to |-> "accepted", ok |-> FALSE]
FreshObject == [connected |-> FALSE, terminalized |-> FALSE, closed |-> FALSE, queue |-> <<>>]

\* assertActiveConnection: the connection the call came on is still the object's.
Active == object.connected /\ socket = "open"

Row(status) == [status |-> status, lapsed |-> FALSE]
Hand(c) == handed' = [handed EXCEPT ![c] = @ + 1]

Expired_Cancelled(commands) ==
  [c \in Commands |-> IF c \in commands THEN Row("cancelled") ELSE row[c]]

Expired(commands) ==
  [c \in Commands |-> IF c \in commands THEN Row("expired") ELSE row[c]]

Lapsed == {c \in Commands : row[c].status \in Unacknowledged /\ row[c].lapsed}

FailAccepted ==
  row' = [c \in Commands |-> IF row[c].status = "accepted" THEN Row("failed") ELSE row[c]]

DriverInit ==
  /\ instance = [status |-> "provisioning", linked |-> FALSE, stale |-> FALSE]
  /\ object = FreshObject
  /\ socket = "none"
  /\ process = "booting"
  /\ row = [c \in Commands |-> Row("none")]
  /\ order = <<>>
  /\ sender = [c \in Commands |-> "idle"]
  /\ watch = NoWatch
  /\ poll = NoPoll
  /\ report = NoReport
  /\ finalizer = "off"
  /\ handed = [c \in Commands |-> 0]
  /\ told = [c \in Commands |-> "none"]
  /\ evictions = 0

-----------------------------------------------------------------------------
(* The object ends.                                                        *)

\* The object as it ends, unless it ended before.
Terminalized(obj) == [obj EXCEPT !.terminalized = TRUE]

BeginFinalize(obj) ==
  /\ object' = Terminalized(obj)
  /\ finalizer' = IF ~obj.terminalized /\ finalizer = "off" THEN "close" ELSE finalizer

\* ensureCloseSnapshot: stored before the row is looked at.
PersistClose ==
  /\ finalizer = "close"
  /\ finalizer' = "row"
  /\ object' = [object EXCEPT !.closed = TRUE]
  /\ UNCHANGED <<instance, socket, process, row, order, sender, watch, poll, report, handed, told,
                 evictions>>

\* It ends the driver's row, if it still has the connection that row names.
FinalizeRow ==
  /\ finalizer = "row"
  /\ IF object.connected /\ instance.linked /\ Live
     THEN /\ instance' = [instance EXCEPT !.status = "ended"]
          /\ finalizer' = "repair"
     ELSE finalizer' = "end" /\ UNCHANGED instance
  /\ UNCHANGED <<object, socket, process, row, order, sender, watch, poll, report, handed, told, evictions>>

RepairCommands ==
  /\ finalizer = "repair"
  /\ FailAccepted
  /\ finalizer' = "end"
  /\ UNCHANGED <<instance, object, socket, process, order, sender, watch, poll, report, handed,
                 told, evictions>>

FinalizeEnd ==
  /\ finalizer = "end"
  /\ finalizer' = "off"
  /\ object' = [object EXCEPT !.queue = <<>>]
  /\ watch' = IF watch.pc = "waiting" THEN NoWatch ELSE watch
  /\ UNCHANGED <<instance, socket, process, row, order, sender, poll, report, handed, told, evictions>>

\* webSocketClose.
SocketClosed ==
  /\ socket = "closed"
  /\ socket' = "none"
  /\ BeginFinalize([object EXCEPT !.closed = TRUE])
  /\ UNCHANGED <<instance, process, row, order, sender, watch, poll, report, handed, told, evictions>>

\* A request finds an object that ended although the driver's row is live, and starts it afresh.
Reused == IF object.terminalized /\ Live THEN FreshObject ELSE object

\* failDriverInstance: a stop found the driver not ready, a start timed out, or a ready driver
\* had no open socket.  None of them is looked at again: the driver may have become ready since.
Fail ==
  /\ IF socket = "open"
     THEN socket' = "closed" /\ process' = "gone" /\ object' = Reused /\ UNCHANGED finalizer
     ELSE BeginFinalize(Reused) /\ UNCHANGED <<socket, process>>
  /\ UNCHANGED <<instance, row, order, sender, watch, poll, report, handed, told, evictions>>

-----------------------------------------------------------------------------
(* The driver connects, and goes.                                          *)

\* acceptDriverSocket, up to its first write: the boot token can be used once.
ClaimToken ==
  /\ process = "booting"
  /\ instance.status = "provisioning" /\ ~instance.stale
  /\ instance' = [instance EXCEPT !.status = "connecting"]
  /\ object' = IF object.terminalized THEN FreshObject ELSE object
  /\ process' = "claimed"
  /\ UNCHANGED <<socket, row, order, sender, watch, poll, report, finalizer, handed, told, evictions>>

\* markDriverInstanceConnected: the row names the connection before the object knows it.
LinkConnection ==
  /\ process = "claimed"
  /\ IF instance.status = "connecting"
     THEN /\ instance' = [instance EXCEPT !.linked = TRUE, !.stale = FALSE]
          /\ process' = "linked"
     ELSE process' = "booting" /\ UNCHANGED instance
  /\ UNCHANGED <<object, socket, row, order, sender, watch, poll, report, finalizer, handed, told,
                 evictions>>

\* The object accepts the socket and stores its connection before the driver is answered.
AcceptSocket ==
  /\ process = "linked"
  /\ object' = [object EXCEPT !.connected = TRUE]
  /\ socket' = "open"
  /\ process' = "up"
  /\ UNCHANGED <<instance, row, order, sender, watch, poll, report, finalizer, handed, told, evictions>>

Ready ==
  /\ process = "up" /\ Active
  /\ instance.status = "connecting"
  /\ instance' = [instance EXCEPT !.status = "ready"]
  /\ UNCHANGED <<object, socket, process, row, order, sender, watch, poll, report, finalizer,
                 handed, told, evictions>>

Heartbeat ==
  /\ process = "up" /\ Active
  /\ Live /\ instance.stale
  /\ instance' = [instance EXCEPT !.stale = FALSE]
  /\ UNCHANGED <<object, socket, process, row, order, sender, watch, poll, report, finalizer,
                 handed, told, evictions>>

\* The driver exits, or was never let in, or loses its socket and exits; while it is let in, that
\* is noticed afterwards.
Exit ==
  /\ process \in {"booting", "up"}
  /\ process' = "gone"
  /\ socket' = IF socket = "open" THEN "closed" ELSE socket
  /\ UNCHANGED <<instance, object, row, order, sender, watch, poll, report, finalizer, handed, told,
                 evictions>>

\* The object is evicted or crashes (a turn's sender is elsewhere, and lost just so): what it was doing is lost, its socket is not.
Evict ==
  /\ evictions < MaxEvictions
  /\ evictions' = evictions + 1
  /\ object' = [object EXCEPT !.terminalized = object.closed]
  /\ sender' = [c \in Commands |-> IF sender[c] = "idle" THEN "idle" ELSE "over"]
  /\ watch' = NoWatch
  /\ poll' = NoPoll
  /\ report' = NoReport
  /\ finalizer' = "off"
  /\ process' = IF process \in {"claimed", "linked"} THEN "booting" ELSE process
  /\ UNCHANGED <<instance, socket, row, order, handed, told>>

-----------------------------------------------------------------------------
(* A command is sent.                                                      *)

\* The caller saw the driver ready.
Send(c) ==
  /\ sender[c] = "idle"
  /\ instance.status = "ready"
  /\ sender' = [sender EXCEPT ![c] = "sending"]
  /\ UNCHANGED <<instance, object, socket, process, row, order, watch, poll, report, finalizer,
                 handed, told, evictions>>

\* dispatchDriverTurn: the turn waits in D1 for a poll.
InsertTurn(c) ==
  /\ sender[c] = "sending"
  /\ sender' = [sender EXCEPT ![c] = "over"]
  /\ row' = [row EXCEPT ![c] = Row("queued")]
  /\ order' = Append(order, c)
  /\ UNCHANGED <<instance, object, socket, process, watch, poll, report, finalizer, handed, told,
                 evictions>>

\* sendControlCommand: without an open socket the object ends instead.
Route(c) ==
  /\ sender[c] = "sending"
  /\ IF socket = "open"
     THEN /\ sender' = [sender EXCEPT ![c] = "inserting"]
          /\ object' = Reused
          /\ UNCHANGED finalizer
     ELSE /\ sender' = [sender EXCEPT ![c] = "over"]
          /\ BeginFinalize(Reused)
  /\ UNCHANGED <<instance, socket, process, row, order, watch, poll, report, handed, told, evictions>>

Insert(c) ==
  /\ sender[c] = "inserting"
  /\ sender' = [sender EXCEPT ![c] = "inserted"]
  /\ row' = [row EXCEPT ![c] = Row("queued")]
  /\ order' = Append(order, c)
  /\ UNCHANGED <<instance, object, socket, process, watch, poll, report, finalizer, handed, told,
                 evictions>>

\* enqueueRuntimeCommand: the oldest command of the queue goes to the watch, if one waits.
Push(c) ==
  LET queue == Append(object.queue, c)
  IN /\ sender[c] = "inserted"
     /\ IF object.terminalized
        THEN sender' = [sender EXCEPT ![c] = "over"] /\ UNCHANGED <<object, watch>>
        ELSE /\ sender' = [sender EXCEPT ![c] = "over"]
             /\ IF watch.pc = "waiting" /\ Active
                THEN /\ watch' = [watch EXCEPT !.pc = "marking", !.cmd = Head(queue), !.via = "push"]
                     /\ object' = [object EXCEPT !.queue = Tail(queue)]
                ELSE /\ watch' = IF watch.pc = "waiting" THEN NoWatch ELSE watch
                     /\ object' = [object EXCEPT !.queue = queue]
     /\ UNCHANGED <<instance, socket, process, row, order, poll, report, finalizer, handed, told,
                    evictions>>

-----------------------------------------------------------------------------
(* The watch.                                                              *)

\* watchCommands takes the next command of the queue, or waits for one.
Watch ==
  /\ process = "up" /\ Active
  /\ watch.pc = "off"
  /\ ~object.terminalized
  /\ IF object.queue = <<>>
     THEN watch' = [NoWatch EXCEPT !.pc = "waiting"] /\ UNCHANGED object
     ELSE /\ watch' = [NoWatch EXCEPT !.pc = "marking", !.cmd = Head(object.queue)]
          /\ object' = [object EXCEPT !.queue = Tail(@)]
  /\ UNCHANGED <<instance, socket, process, row, order, sender, poll, report, finalizer, handed,
                 told, evictions>>

\* A claim of the poll in the meantime is not looked for.
Deliverable_Unconditional(c) == instance.linked /\ row[c].status \in {"queued", "delivered"}

Deliverable(c) == instance.linked /\ row[c].status \in Previous("delivered")

MarkDelivered ==
  /\ watch.pc = "marking"
  /\ watch' = [watch EXCEPT !.pc = "marked", !.ok = Deliverable(watch.cmd)]
  /\ IF Deliverable(watch.cmd) THEN row' = [row EXCEPT ![watch.cmd].status = "delivered"] ELSE UNCHANGED row
  /\ UNCHANGED <<instance, object, socket, process, order, sender, poll, report, finalizer, handed,
                 told, evictions>>

\* A command that could not be marked goes back to the head of the queue; on a
\* connection that is gone it does so only if a push fed the watch.
WatchAnswer ==
  LET c == watch.cmd
  IN /\ watch.pc = "marked"
     /\ watch' = NoWatch
     /\ IF Active /\ watch.ok
        THEN Hand(c) /\ UNCHANGED object
        ELSE /\ object' = IF Active \/ watch.via = "push"
                          THEN [object EXCEPT !.queue = <<c>> \o @] ELSE object
             /\ UNCHANGED handed
     /\ UNCHANGED <<instance, socket, process, row, order, sender, poll, report, finalizer, told,
                    evictions>>

-----------------------------------------------------------------------------
(* The poll.                                                               *)

Poll ==
  /\ process = "up" /\ Active
  /\ poll.pc = "off"
  /\ ~object.terminalized
  /\ poll' = [NoPoll EXCEPT !.pc = "claiming"]
  /\ UNCHANGED <<instance, object, socket, process, row, order, sender, watch, report, finalizer,
                 handed, told, evictions>>

\* Claims what the object's queue holds.
Claimable_Queue ==
  {c \in Commands : row[c].status = "queued" /\ ~row[c].lapsed /\ Contains(object.queue, c)}

\* Commands the poll may claim.
Claimable == {c \in Commands : row[c].status = "queued" /\ ~row[c].lapsed}

\* Inserted before every other one of them.
Oldest(c, commands) ==
  \A other \in commands \ {c} :
    \E i, j \in DOMAIN order : i < j /\ order[i] = c /\ order[j] = other

\* Expires what lapsed, and marks the oldest queued command delivered.
Claim ==
  /\ poll.pc = "claiming"
  /\ \/ /\ instance.linked
        /\ \E c \in Claimable :
             /\ Oldest(c, Claimable)
             /\ row' = [Expired(Lapsed) EXCEPT ![c].status = "delivered"]
             /\ poll' = [pc |-> "claimed", cmd |-> c]
     \/ /\ ~instance.linked \/ Claimable = {}
        /\ row' = Expired(Lapsed)
        /\ poll' = NoPoll
  /\ UNCHANGED <<instance, object, socket, process, order, sender, watch, report, finalizer,
                 handed, told, evictions>>

PollAnswer ==
  /\ poll.pc = "claimed"
  /\ poll' = NoPoll
  /\ IF Active
     THEN /\ Hand(poll.cmd)
          /\ object' = [object EXCEPT !.queue = RemoveFirst(@, poll.cmd)]
     ELSE UNCHANGED <<handed, object>>
  /\ UNCHANGED <<instance, socket, process, row, order, sender, watch, report, finalizer, told,
                 evictions>>

-----------------------------------------------------------------------------
(* The driver reports.                                                     *)

Report(c, to) ==
  /\ process = "up" /\ Active
  /\ report.pc = "off"
  /\ handed[c] > 0
  /\ IF to = "accepted" THEN told[c] = "none" ELSE told[c] = "accepted"
  /\ report' = [pc |-> "asked", cmd |-> c, to |-> to, ok |-> FALSE]
  /\ UNCHANGED <<instance, object, socket, process, row, order, sender, watch, poll, finalizer,
                 handed, told, evictions>>

Record ==
  LET ok == row[report.cmd].status \in Previous(report.to)
  IN /\ report.pc = "asked"
     /\ report' = [report EXCEPT !.pc = "recorded", !.ok = ok \/ row[report.cmd].status = report.to]
     /\ IF ok THEN row' = [row EXCEPT ![report.cmd] = Row(report.to)] ELSE UNCHANGED row
     /\ UNCHANGED <<instance, object, socket, process, order, sender, watch, poll, finalizer,
                    handed, told, evictions>>

\* A refused report is the driver's last word on the command.
ReportAnswer ==
  /\ report.pc = "recorded"
  /\ report' = NoReport
  /\ told' = IF Active THEN [told EXCEPT ![report.cmd] = IF report.ok THEN report.to ELSE "refused"]
             ELSE told
  /\ UNCHANGED <<instance, object, socket, process, row, order, sender, watch, poll, finalizer,
                 handed, evictions>>

-----------------------------------------------------------------------------
(* Time, and the maintenance of every minute.                              *)

Lapse(c) ==
  /\ row[c].status \in Unacknowledged /\ ~row[c].lapsed
  /\ row' = [row EXCEPT ![c].lapsed = TRUE]
  /\ UNCHANGED <<instance, object, socket, process, order, sender, watch, poll, report, finalizer,
                 handed, told, evictions>>

\* No heartbeat was recorded for too long, or the boot token lapsed.
LooksDead ==
  /\ Live /\ ~instance.stale
  /\ instance' = [instance EXCEPT !.stale = TRUE]
  /\ UNCHANGED <<object, socket, process, row, order, sender, watch, poll, report, finalizer,
                 handed, told, evictions>>

ExpireLeases ==
  /\ Lapsed # {}
  /\ row' = Expired(Lapsed)
  /\ UNCHANGED <<instance, object, socket, process, order, sender, watch, poll, report, finalizer,
                 handed, told, evictions>>

\* Waits for a lease that an accepted command no longer has.
FailAbandoned_Lapsed ==
  /\ ~Live
  /\ \E c \in Commands : row[c].status = "accepted" /\ row[c].lapsed
  /\ FailAccepted
  /\ UNCHANGED <<instance, object, socket, process, order, sender, watch, poll, report, finalizer,
                 handed, told, evictions>>

FailAbandoned ==
  /\ ~Live
  /\ \E c \in Commands : row[c].status = "accepted"
  /\ FailAccepted
  /\ UNCHANGED <<instance, object, socket, process, order, sender, watch, poll, report, finalizer,
                 handed, told, evictions>>

EndDead ==
  /\ Live /\ instance.stale
  /\ instance' = [instance EXCEPT !.status = "ended"]
  /\ UNCHANGED <<object, socket, process, row, order, sender, watch, poll, report, finalizer,
                 handed, told, evictions>>

-----------------------------------------------------------------------------

DriverNext ==
  \/ PersistClose \/ FinalizeRow \/ RepairCommands \/ FinalizeEnd \/ SocketClosed \/ Fail
  \/ ClaimToken \/ LinkConnection \/ AcceptSocket \/ Ready \/ Heartbeat \/ Exit \/ Evict
  \/ \E c \in Commands : Send(c) \/ InsertTurn(c) \/ Route(c) \/ Insert(c) \/ Push(c) \/ Lapse(c)
  \/ Watch \/ MarkDelivered \/ WatchAnswer
  \/ Poll \/ Claim \/ PollAnswer
  \/ \E c \in Commands, to \in {"accepted", "completed"} : Report(c, to)
  \/ Record \/ ReportAnswer
  \/ LooksDead \/ ExpireLeases \/ FailAbandoned \/ EndDead

DriverSpec == DriverInit /\ [][DriverNext]_driverVars

\* A connected driver polls and the object answers; the sweep comes every minute;
\* leases and heartbeats of a driver that is gone lapse.  No close event need ever
\* reach the object, and it need never finish ending.
DriverFairness ==
  /\ WF_driverVars(Poll) /\ WF_driverVars(Claim) /\ WF_driverVars(PollAnswer)
  /\ WF_driverVars(MarkDelivered) /\ WF_driverVars(WatchAnswer)
  /\ WF_driverVars(process = "gone" /\ LooksDead)
  /\ \A c \in Commands : WF_driverVars(process = "gone" /\ Lapse(c))
  /\ WF_driverVars(ExpireLeases) /\ WF_driverVars(FailAbandoned) /\ WF_driverVars(EndDead)

DriverFairSpec == DriverSpec /\ DriverFairness

-----------------------------------------------------------------------------
(* Properties.                                                             *)

Holders == Commands \cup {NoCommand}

\* Every variable has its type.
DriverTypeOK ==
  /\ instance \in [status : LiveStatuses \cup {"ended"}, linked : BOOLEAN, stale : BOOLEAN]
  /\ object \in [connected : BOOLEAN, terminalized : BOOLEAN, closed : BOOLEAN, queue : Seq(Commands)]
  /\ socket \in {"none", "open", "closed"}
  /\ process \in {"booting", "claimed", "linked", "up", "gone"}
  /\ row \in [Commands -> [status : Unacknowledged \cup Ends \cup {"none", "accepted"}, lapsed : BOOLEAN]]
  /\ order \in Seq(Commands)
  /\ sender \in [Commands -> {"idle", "sending", "inserting", "inserted", "over"}]
  /\ watch \in [pc : {"off", "waiting", "marking", "marked"}, cmd : Holders, ok : BOOLEAN,
                via : {"watch", "push"}]
  /\ poll \in [pc : {"off", "claiming", "claimed"}, cmd : Holders]
  /\ report \in [pc : {"off", "asked", "recorded"}, cmd : Holders,
                 to : {"accepted", "completed"}, ok : BOOLEAN]
  /\ finalizer \in {"off", "close", "row", "repair", "end"}
  /\ handed \in [Commands -> Nat]
  /\ told \in [Commands -> {"none", "accepted", "completed", "refused"}]
  /\ evictions \in 0..MaxEvictions

\* However the watch, the push and the poll race for a command, the driver gets it once.
HandedOnce == \A c \in Commands : handed[c] <= 1

\* What the driver was told is recorded stays so: an accepted command does not
\* expire under it, and the outcome it reported is not overwritten, neither by
\* the sweep nor when the driver ends.
ToldIsKept ==
  \A c \in Commands :
    /\ told[c] = "accepted" => row[c].status \in {"accepted", "completed", "failed"}
    /\ told[c] = "completed" => row[c].status = "completed"

\* The answer that carried the command was lost with the object's memory.
LostUnderway(c) ==
  row[c].status = "delivered" /\ handed[c] = 0 /\ watch.cmd # c /\ poll.cmd # c

Connected == process = "up" /\ Active /\ ~object.terminalized

\* A queued command reaches a driver that stays connected, though the object's own
\* queue may be blocked or lost: the driver's polls claim from D1.
QueuedIsHanded ==
  \A c \in Commands :
    row[c].status = "queued" ~>
      (handed[c] > 0 \/ row[c].lapsed \/ LostUnderway(c) \/ ~Connected)

\* Once the driver is gone its row ends and every command of it comes to an end,
\* even if the object never ends or its ending is lost.
GoneIsSettled ==
  process = "gone" ~>
    [](~Live /\ \A c \in Commands : row[c].status \in Ends \cup {"none"})
=============================================================================
