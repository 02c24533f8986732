------------------------ MODULE DriverCommandProofs ------------------------
(***************************************************************************)
(* Safety of the delivery of commands to a driver, for any commands and    *)
(* any number of evictions: the driver gets a command once, and what it    *)
(* was told is recorded stays so.                                          *)
(*                                                                         *)
(* Both rest on a command never returning to a status it left.  Whoever    *)
(* is about to hand a command over moved it from queued to delivered, so   *)
(* that nobody else is and nobody did (Handing); a report that is recorded *)
(* and not yet answered is already true of the row (Telling).              *)
(*                                                                         *)
(* The object's queue has no part in it: whatever it holds, a command that *)
(* is not queued in D1 is not handed over.  What the queue and the watch   *)
(* hold are commands, though, which is the type of every variable.         *)
(***************************************************************************)
EXTENDS DriverCommand, WellFoundedInduction, TLAPS

Rows == [status : Unacknowledged \cup Ends \cup {"none", "accepted"}, lapsed : BOOLEAN]

Types ==
  /\ row \in [Commands -> Rows]
  /\ handed \in [Commands -> Nat]
  /\ told \in [Commands -> {"none", "accepted", "completed", "refused"}]
  /\ sender \in [Commands -> {"idle", "sending", "inserting", "inserted", "over"}]
  /\ DOMAIN watch = {"pc", "cmd", "ok", "via"}
  /\ poll \in [pc : {"off", "claiming", "claimed"}, cmd : Holders]
  /\ report \in [pc : {"off", "asked", "recorded"}, cmd : Holders,
                 to : {"accepted", "completed"}, ok : BOOLEAN]

\* The answer that carries the command is on its way.
WatchHolds(c) == watch.pc = "marked" /\ watch.ok /\ watch.cmd = c
PollHolds(c) == poll.pc = "claimed" /\ poll.cmd = c

Handing(c) ==
  /\ row[c].status \in {"none", "queued"} => handed[c] = 0 /\ ~WatchHolds(c) /\ ~PollHolds(c)
  /\ handed[c] = 0 \/ (handed[c] = 1 /\ ~WatchHolds(c) /\ ~PollHolds(c))
  /\ ~(WatchHolds(c) /\ PollHolds(c))
  /\ sender[c] \in {"idle", "sending", "inserting"} => row[c].status = "none"

\* What the row is when a driver knows it as accepted, or as completed.
Keeps(status, c) ==
  /\ status = "accepted" => row[c].status \in {"accepted", "completed", "failed"}
  /\ status = "completed" => row[c].status = "completed"

Telling(c) ==
  /\ Keeps(told[c], c)
  /\ report.pc = "recorded" /\ report.ok /\ report.cmd = c => Keeps(report.to, c)

HandInv == \A c \in Commands : Handing(c)
TellInv == \A c \in Commands : Telling(c)

Inv == Types /\ HandInv /\ TellInv

-----------------------------------------------------------------------------
\* The initial state.
LEMMA InitInv == ASSUME DriverInit PROVE Inv
<1> USE DEF DriverInit, Row, NoWatch, NoPoll, NoReport
<1>1. Types
  BY DEF Types, Rows, Holders
<1>2. HandInv /\ TellInv
  BY DEF HandInv, Handing, WatchHolds, PollHolds, TellInv, Telling, Keeps
<1> QED BY <1>1, <1>2 DEF Inv

-----------------------------------------------------------------------------
(* Steps that hand nothing over and report nothing.                        *)

\* The watch may also be given up, and the object's connection come and go.
LEMMA QuietInv ==
  ASSUME Inv, UNCHANGED <<row, handed, told, sender, poll, report>>,
         watch' = watch \/ watch' = NoWatch
  PROVE  Inv'
<1> USE DEF Inv, NoWatch
<1>1. Types'
  BY DEF Types
<1>2. HandInv'
  BY DEF HandInv, Handing, WatchHolds, PollHolds
<1>3. TellInv'
  BY DEF TellInv, Telling, Keeps
<1> QED BY <1>1, <1>2, <1>3

\* An eviction forgets all that is under way.
LEMMA EvictInv == ASSUME Inv, Evict PROVE Inv'
<1> USE DEF Inv, Evict, NoWatch, NoPoll, NoReport
<1>1. Types'
  BY DEF Types, Holders
<1>2. HandInv'
  BY DEF HandInv, Handing, WatchHolds, PollHolds, Types
<1>3. TellInv'
  BY DEF TellInv, Telling, Keeps
<1> QED BY <1>1, <1>2, <1>3

\* A row that ends without the driver was not accepted, or fails.
Moves(c) ==
  \/ row'[c].status = row[c].status
  \/ row[c].status \in Unacknowledged /\ row'[c].status = "expired"
  \/ row[c].status = "accepted" /\ row'[c].status = "failed"

\* Such steps keep the invariant.
LEMMA MovesInv ==
  ASSUME Inv, row' \in [Commands -> Rows], \A c \in Commands : Moves(c),
         UNCHANGED <<handed, told, sender, watch, poll, report>>
  PROVE  Inv'
<1> USE DEF Inv
<1>1. Types'
  BY DEF Types
<1>2. HandInv'
  <2> SUFFICES ASSUME NEW c \in Commands PROVE Handing(c)'
    BY DEF HandInv
  <2>1. Handing(c) /\ Moves(c)
    BY DEF HandInv
  <2> QED BY <2>1 DEF Handing, Moves, WatchHolds, PollHolds, Unacknowledged
<1>3. TellInv'
  <2> SUFFICES ASSUME NEW c \in Commands PROVE Telling(c)'
    BY DEF TellInv
  <2>1. Telling(c) /\ Moves(c)
    BY DEF TellInv
  <2> QED BY <2>1 DEF Telling, Moves, Keeps, Unacknowledged
<1> QED BY <1>1, <1>2, <1>3

\* What expiry, and the repair of accepted commands, do to the rows.
LEMMA ExpiredMoves ==
  ASSUME Types
  PROVE  /\ Expired(Lapsed) \in [Commands -> Rows]
         /\ \A c \in Commands : \/ Expired(Lapsed)[c] = row[c]
                                \/ /\ row[c].status \in Unacknowledged /\ row[c].lapsed
                                   /\ Expired(Lapsed)[c].status = "expired"
BY DEF Types, Expired, Lapsed, Row, Rows, Ends

\* A repair fails accepted commands only.
LEMMA FailedMoves ==
  ASSUME Types, FailAccepted
  PROVE  row' \in [Commands -> Rows] /\ \A c \in Commands : Moves(c)
BY DEF Types, FailAccepted, Row, Rows, Ends, Moves

\* Expiry, and leases that lapse.
LEMMA EndRowsInv ==
  ASSUME Inv, RepairCommands \/ FailAbandoned \/ ExpireLeases \/ \E c \in Commands : Lapse(c)
  PROVE  Inv'
<1>1. CASE RepairCommands \/ FailAbandoned
  BY <1>1, FailedMoves, MovesInv DEF RepairCommands, FailAbandoned, Inv
<1>2. CASE ExpireLeases
  BY <1>2, ExpiredMoves, MovesInv DEF ExpireLeases, Inv, Moves
<1>3. ASSUME NEW c \in Commands, Lapse(c) PROVE Inv'
  <2>1. row' = [row EXCEPT ![c].lapsed = TRUE] /\ row \in [Commands -> Rows]
    BY <1>3 DEF Lapse, Inv, Types
  <2>2. row' \in [Commands -> Rows] /\ \A d \in Commands : Moves(d)
    BY <2>1 DEF Rows, Moves
  <2> QED BY <1>3, <2>2, MovesInv DEF Lapse
<1> QED BY <1>1, <1>2, <1>3

-----------------------------------------------------------------------------
(* Sending.                                                                *)

\* A request that inserts nothing: it begins, finds the way, or pushes on the queue.
LEMMA SenderInv ==
  ASSUME Inv, NEW c \in Commands, NEW pc \in {"sending", "inserting", "inserted", "over"},
         sender' = [sender EXCEPT ![c] = pc], UNCHANGED <<row, handed, told, poll, report>>,
         pc \in {"sending", "inserting"} => sender[c] \in {"idle", "sending"},
         DOMAIN watch' = {"pc", "cmd", "ok", "via"}, watch' = watch \/ watch'.pc # "marked"
  PROVE  Inv'
<1> USE DEF Inv
<1>1. Types'
  BY DEF Types
<1>2. HandInv'
  <2> SUFFICES ASSUME NEW d \in Commands PROVE Handing(d)'
    BY DEF HandInv
  <2>1. Handing(d)
    BY DEF HandInv
  <2>2. sender'[d] \in {"idle", "sending", "inserting"} => row[d].status = "none"
    BY <2>1 DEF Types, Handing
  <2> QED BY <2>1, <2>2 DEF Handing, WatchHolds, PollHolds
<1>3. TellInv'
  BY DEF TellInv, Telling, Keeps
<1> QED BY <1>1, <1>2, <1>3

\* A request that begins, or finds the way.
LEMMA SendInv ==
  ASSUME Inv, NEW c \in Commands, Send(c) \/ Route(c) PROVE Inv'
<1>1. DOMAIN watch' = {"pc", "cmd", "ok", "via"} /\ watch' = watch
  BY DEF Send, Route, Inv, Types
<1>2. UNCHANGED <<row, handed, told, poll, report>>
  BY DEF Send, Route
<1>3. \E pc \in {"sending", "inserting", "over"} :
        sender' = [sender EXCEPT ![c] = pc] /\ sender[c] \in {"idle", "sending"}
  BY DEF Send, Route
<1> QED BY <1>1, <1>2, <1>3, SenderInv

\* A push may give the watch a command, but hands none over.
LEMMA PushInv == ASSUME Inv, NEW c \in Commands, Push(c) PROVE Inv'
<1>1. \/ watch' = watch
      \/ watch' = NoWatch
      \/ \E q : watch' = [watch EXCEPT !.pc = "marking", !.cmd = Head(q), !.via = "push"]
  BY DEF Push
<1>2. /\ DOMAIN watch' = {"pc", "cmd", "ok", "via"}
      /\ watch' = watch \/ watch'.pc # "marked"
  <2>1. DOMAIN watch = {"pc", "cmd", "ok", "via"}
    BY DEF Inv, Types
  <2>2. CASE watch' = watch \/ watch' = NoWatch
    BY <2>1, <2>2 DEF NoWatch
  <2>3. ASSUME NEW q, watch' = [watch EXCEPT !.pc = "marking", !.cmd = Head(q), !.via = "push"]
        PROVE  DOMAIN watch' = DOMAIN watch /\ watch'.pc = "marking"
    BY <2>1, <2>3
  <2> QED BY <1>1, <2>1, <2>2, <2>3
<1>3. sender' = [sender EXCEPT ![c] = "over"] /\ UNCHANGED <<row, handed, told, poll, report>>
  BY DEF Push
<1> QED BY <1>2, <1>3, SenderInv

\* A command that is inserted was not there, and nobody has it.
LEMMA InsertInv ==
  ASSUME Inv, NEW c \in Commands, InsertTurn(c) \/ Insert(c) PROVE Inv'
<1> USE DEF Inv
<1>1. /\ row' = [row EXCEPT ![c] = Row("queued")] /\ row[c].status = "none"
      /\ sender' = [sender EXCEPT ![c] = "over"] \/ sender' = [sender EXCEPT ![c] = "inserted"]
      /\ UNCHANGED <<handed, told, watch, poll, report>>
  BY DEF InsertTurn, Insert, HandInv, Handing
<1>2. Row("queued") \in Rows /\ Row("queued").status = "queued"
  BY DEF Row, Rows, Unacknowledged
<1>3. Types'
  BY <1>1, <1>2 DEF Types
<1>4. HandInv'
  <2> SUFFICES ASSUME NEW d \in Commands PROVE Handing(d)'
    BY DEF HandInv
  <2>1. CASE d = c
    BY <1>1, <1>2, <2>1 DEF Types, HandInv, Handing, WatchHolds, PollHolds
  <2>2. CASE d # c
    BY <1>1, <2>2 DEF Types, HandInv, Handing, WatchHolds, PollHolds
  <2> QED BY <2>1, <2>2
<1>5. TellInv'
  <2> SUFFICES ASSUME NEW d \in Commands PROVE Telling(d)'
    BY DEF TellInv
  <2>1. Telling(d) /\ (d # c => row'[d] = row[d])
    BY <1>1 DEF TellInv, Types
  <2> QED BY <1>1, <2>1 DEF Telling, Keeps
<1> QED BY <1>3, <1>4, <1>5

-----------------------------------------------------------------------------
(* Handing a command over.                                                 *)

\* The step that takes a command from queued to delivered is the only one to hold it.
LEMMA MarkInv == ASSUME Inv, MarkDelivered PROVE Inv'
<1> USE DEF Inv
<1> DEFINE c == watch.cmd
<1>1. /\ watch'.pc = "marked" /\ watch'.cmd = c /\ watch'.ok = Deliverable(c)
      /\ DOMAIN watch' = {"pc", "cmd", "ok", "via"}
      /\ ~WatchHolds(c)
  BY DEF MarkDelivered, Types, WatchHolds
<1>2. UNCHANGED <<handed, told, sender, poll, report>>
  BY DEF MarkDelivered
<1>3. Deliverable(c) => row[c].status = "queued"
  BY DEF Deliverable, Previous
<1>4. CASE Deliverable(c) /\ c \in Commands
  <2>1. /\ row' \in [Commands -> Rows] /\ row'[c].status = "delivered"
        /\ \A d \in Commands \ {c} : row'[d] = row[d]
    BY <1>4 DEF MarkDelivered, Types, Rows, Unacknowledged
  <2>2. Types'
    BY <1>1, <1>2, <2>1 DEF Types
  <2>3. HandInv'
    <3> SUFFICES ASSUME NEW d \in Commands PROVE Handing(d)'
      BY DEF HandInv
    <3>1. Handing(d)
      BY DEF HandInv
    <3>2. CASE d = c
      BY <1>1, <1>2, <1>3, <1>4, <2>1, <3>1, <3>2 DEF Handing, WatchHolds, PollHolds
    <3>3. CASE d # c
      BY <1>1, <1>2, <2>1, <3>1, <3>3 DEF Handing, WatchHolds, PollHolds
    <3> QED BY <3>2, <3>3
  <2>4. TellInv'
    <3> SUFFICES ASSUME NEW d \in Commands PROVE Telling(d)'
      BY DEF TellInv
    <3>1. Telling(d)
      BY DEF TellInv
    <3> QED BY <1>2, <1>3, <1>4, <2>1, <3>1 DEF Telling, Keeps
  <2> QED BY <2>2, <2>3, <2>4
<1>5. CASE ~Deliverable(c) \/ c \notin Commands
  <2>1. \A d \in Commands : row'[d] = row[d]
    BY <1>5 DEF MarkDelivered, Types
  <2>2. row' \in [Commands -> Rows]
    BY <1>5 DEF MarkDelivered, Types
  <2>3. Types'
    BY <1>1, <1>2, <2>2 DEF Types
  <2>4. HandInv'
    <3> SUFFICES ASSUME NEW d \in Commands PROVE Handing(d)'
      BY DEF HandInv
    <3>1. Handing(d)
      BY DEF HandInv
    <3> QED BY <1>1, <1>2, <1>5, <2>1, <3>1 DEF Handing, WatchHolds, PollHolds
  <2>5. TellInv'
    BY <1>2, <2>1 DEF TellInv, Telling, Keeps
  <2> QED BY <2>3, <2>4, <2>5
<1> QED BY <1>4, <1>5

\* The poll's claim does the same for the command it takes.
LEMMA ClaimInv == ASSUME Inv, Claim PROVE Inv'
<1> USE DEF Inv
<1>1. CASE row' = Expired(Lapsed) /\ poll' = NoPoll
  <2>1. row' \in [Commands -> Rows] /\ \A c \in Commands : Moves(c)
    BY <1>1, ExpiredMoves DEF Moves
  <2>2. Types'
    BY <1>1, <2>1 DEF Claim, Types, NoPoll, Holders
  <2>3. HandInv'
    <3> SUFFICES ASSUME NEW c \in Commands PROVE Handing(c)'
      BY DEF HandInv
    <3>1. Handing(c) /\ Moves(c)
      BY <2>1 DEF HandInv
    <3> QED BY <1>1, <3>1 DEF Claim, Handing, Moves, WatchHolds, PollHolds, NoPoll, Unacknowledged
  <2>4. TellInv'
    <3> SUFFICES ASSUME NEW c \in Commands PROVE Telling(c)'
      BY DEF TellInv
    <3>1. Telling(c) /\ Moves(c)
      BY <2>1 DEF TellInv
    <3> QED BY <3>1 DEF Claim, Telling, Moves, Keeps, Unacknowledged
  <2> QED BY <2>2, <2>3, <2>4
<1>2. ASSUME NEW c \in Claimable,
             row' = [Expired(Lapsed) EXCEPT ![c].status = "delivered"],
             poll' = [pc |-> "claimed", cmd |-> c]
      PROVE  Inv'
  <2>1. c \in Commands /\ row[c].status = "queued" /\ ~row[c].lapsed
    BY DEF Claimable
  <2>2. /\ row' \in [Commands -> Rows] /\ row'[c].status = "delivered"
        /\ \A d \in Commands \ {c} : row'[d] = Expired(Lapsed)[d]
    BY <1>2, <2>1, ExpiredMoves DEF Rows, Unacknowledged
  <2>3. \A d \in Commands \ {c} : Moves(d)
    BY <2>2, ExpiredMoves DEF Moves
  <2>4. Types'
    BY <1>2, <2>1, <2>2 DEF Claim, Types, Holders
  <2>5. HandInv'
    <3> SUFFICES ASSUME NEW d \in Commands PROVE Handing(d)'
      BY DEF HandInv
    <3>1. Handing(d)
      BY DEF HandInv
    <3>2. CASE d = c
      BY <1>2, <2>1, <2>2, <3>1, <3>2 DEF Claim, Handing, WatchHolds, PollHolds
    <3>3. CASE d # c
      <4>1. Moves(d)
        BY <2>3, <3>3
      <4> QED BY <1>2, <3>1, <3>3, <4>1
              DEF Claim, Handing, Moves, WatchHolds, PollHolds, Unacknowledged
    <3> QED BY <3>2, <3>3
  <2>6. TellInv'
    <3> SUFFICES ASSUME NEW d \in Commands PROVE Telling(d)'
      BY DEF TellInv
    <3>1. Telling(d)
      BY DEF TellInv
    <3>2. CASE d = c
      BY <2>1, <3>1, <3>2 DEF Claim, Telling, Keeps
    <3>3. CASE d # c
      <4>1. Moves(d)
        BY <2>3, <3>3
      <4> QED BY <3>1, <4>1 DEF Claim, Telling, Moves, Keeps, Unacknowledged
    <3> QED BY <3>2, <3>3
  <2> QED BY <2>4, <2>5, <2>6
<1> QED BY <1>1, <1>2 DEF Claim

\* A watch, or a poll, that has no command yet.
LEMMA AskInv == ASSUME Inv, Watch \/ Poll PROVE Inv'
<1> USE DEF Inv
<1>1. UNCHANGED <<row, handed, told, sender, report>>
  BY DEF Watch, Poll
<1>2. DOMAIN watch' = {"pc", "cmd", "ok", "via"} /\ (watch' = watch \/ watch'.pc # "marked")
  BY DEF Watch, Poll, NoWatch, Types
<1>3. poll' \in [pc : {"off", "claiming", "claimed"}, cmd : Holders]
      /\ (poll' = poll \/ poll'.pc # "claimed")
  BY DEF Watch, Poll, NoPoll, Types, Holders
<1>4. Types'
  BY <1>1, <1>2, <1>3 DEF Types
<1>5. HandInv'
  BY <1>1, <1>2, <1>3 DEF HandInv, Handing, WatchHolds, PollHolds
<1>6. TellInv'
  BY <1>1 DEF TellInv, Telling, Keeps
<1> QED BY <1>4, <1>5, <1>6

\* The answer hands the command over, if it still reaches the driver.
LEMMA AnswerInv ==
  ASSUME Inv, UNCHANGED <<row, told, sender, report>>,
         \/ /\ watch.pc = "marked" /\ watch' = NoWatch /\ poll' = poll
            /\ handed' = handed \/ (watch.ok /\ Hand(watch.cmd))
         \/ /\ poll.pc = "claimed" /\ poll' = NoPoll /\ watch' = watch
            /\ handed' = handed \/ Hand(poll.cmd)
  PROVE  Inv'
<1> USE DEF Inv
<1>1. handed' \in [Commands -> Nat]
  BY DEF Hand, Types
<1>2. Types'
  BY <1>1 DEF Types, NoWatch, NoPoll, Holders
<1>3. HandInv'
  <2> SUFFICES ASSUME NEW c \in Commands PROVE Handing(c)'
    BY DEF HandInv
  <2>1. Handing(c)
    BY DEF HandInv
  <2>2. \/ handed'[c] = handed[c]
        \/ WatchHolds(c) /\ handed'[c] = handed[c] + 1 /\ watch' = NoWatch /\ poll' = poll
        \/ PollHolds(c) /\ handed'[c] = handed[c] + 1 /\ poll' = NoPoll /\ watch' = watch
    BY DEF Hand, Types, WatchHolds, PollHolds
  <2>3. WatchHolds(c)' => WatchHolds(c)
    BY DEF WatchHolds, NoWatch
  <2>4. PollHolds(c)' => PollHolds(c)
    BY DEF PollHolds, NoPoll
  <2>5. CASE handed'[c] = handed[c]
    BY <2>1, <2>3, <2>4, <2>5 DEF Handing
  <2>6. CASE WatchHolds(c) /\ handed'[c] = handed[c] + 1 /\ watch' = NoWatch /\ poll' = poll
    <3>1. ~WatchHolds(c)' /\ ~PollHolds(c)'
      BY <2>1, <2>4, <2>6 DEF Handing, WatchHolds, NoWatch
    <3> QED BY <2>1, <2>6, <3>1 DEF Handing
  <2>7. CASE PollHolds(c) /\ handed'[c] = handed[c] + 1 /\ poll' = NoPoll /\ watch' = watch
    <3>1. ~WatchHolds(c)' /\ ~PollHolds(c)'
      BY <2>1, <2>3, <2>7 DEF Handing, PollHolds, NoPoll
    <3> QED BY <2>1, <2>7, <3>1 DEF Handing
  <2> QED BY <2>2, <2>5, <2>6, <2>7
<1>4. TellInv'
  BY DEF TellInv, Telling, Keeps
<1> QED BY <1>2, <1>3, <1>4

-----------------------------------------------------------------------------
(* Reports.                                                                *)

\* A report that is asked claims nothing yet.
LEMMA ReportInv ==
  ASSUME Inv, NEW c \in Commands, NEW to \in {"accepted", "completed"}, Report(c, to) PROVE Inv'
<1> USE DEF Inv, Report
<1>1. Types'
  BY DEF Types, Holders
<1>2. HandInv'
  BY DEF HandInv, Handing, WatchHolds, PollHolds
<1>3. TellInv'
  BY DEF TellInv, Telling, Keeps
<1> QED BY <1>1, <1>2, <1>3

\* The record moves a delivered command forward, or finds it where it wanted it.
LEMMA RecordInv == ASSUME Inv, Record PROVE Inv'
<1> USE DEF Inv
<1> DEFINE c  == report.cmd
           ok == row[c].status \in Previous(report.to)
<1>1. /\ report.to \in {"accepted", "completed"} /\ report.pc = "asked"
      /\ UNCHANGED <<handed, told, sender, watch, poll>>
  BY DEF Record, Types
<1>2. Row(report.to) \in Rows /\ Row(report.to).status = report.to
  BY <1>1 DEF Row, Rows, Ends
<1>3. row' \in [Commands -> Rows]
  BY <1>2 DEF Record, Types
<1>4. \A d \in Commands : \/ row'[d] = row[d]
                          \/ d = c /\ ok /\ row'[d].status = report.to
  BY <1>2 DEF Record, Types
<1>5. /\ report'.pc = "recorded" /\ report'.cmd = c /\ report'.to = report.to
      /\ report'.ok = (ok \/ row[c].status = report.to)
      /\ report' \in [pc : {"off", "asked", "recorded"}, cmd : Holders,
                      to : {"accepted", "completed"}, ok : BOOLEAN]
  BY DEF Record, Types
<1>6. ok => row[c].status \in {"delivered", "accepted"}
            /\ (row[c].status = "accepted" => report.to = "completed")
  BY <1>1 DEF Previous
<1>7. Types'
  BY <1>1, <1>3, <1>5 DEF Types
<1>8. HandInv'
  <2> SUFFICES ASSUME NEW d \in Commands PROVE Handing(d)'
    BY DEF HandInv
  <2>1. Handing(d)
    BY DEF HandInv
  <2>2. CASE row'[d] = row[d]
    BY <1>1, <2>1, <2>2 DEF Handing, WatchHolds, PollHolds
  <2>3. CASE d = c /\ ok /\ row'[d].status = report.to
    <3>1. sender[d] \notin {"idle", "sending", "inserting"}
      BY <1>6, <2>1, <2>3 DEF Handing
    <3> QED BY <1>1, <2>1, <2>3, <3>1 DEF Handing, WatchHolds, PollHolds
  <2> QED BY <1>4, <2>2, <2>3
<1>9. TellInv'
  <2> SUFFICES ASSUME NEW d \in Commands PROVE Telling(d)'
    BY DEF TellInv
  <2>1. Keeps(told[d], d)
    BY DEF TellInv, Telling
  <2>2. Keeps(told[d], d)'
    <3>1. CASE row'[d] = row[d]
      BY <1>1, <2>1, <3>1 DEF Keeps
    <3>2. CASE d = c /\ ok /\ row'[d].status = report.to
      BY <1>1, <1>6, <2>1, <3>2 DEF Keeps
    <3> QED BY <1>4, <3>1, <3>2
  <2>3. report'.ok /\ d = c => Keeps(report.to, d)'
    <3> SUFFICES ASSUME report'.ok, d = c PROVE row'[d].status = report.to
      BY <1>1, <1>5 DEF Keeps
    <3>1. CASE ok
      BY <1>2, <3>1 DEF Record, Types
    <3>2. CASE ~ok
      BY <1>5, <3>2 DEF Record
    <3> QED BY <3>1, <3>2
  <2> QED BY <1>1, <1>5, <2>2, <2>3 DEF Telling
<1> QED BY <1>7, <1>8, <1>9

\* The answer tells the driver what the record made true.
LEMMA ReportAnswerInv == ASSUME Inv, ReportAnswer PROVE Inv'
<1> USE DEF Inv
<1>1. /\ report' = NoReport /\ report.pc = "recorded"
      /\ UNCHANGED <<row, handed, sender, watch, poll>>
  BY DEF ReportAnswer
<1>2. Types'
  <2>1. told' \in [Commands -> {"none", "accepted", "completed", "refused"}]
    <3>1. CASE told' = told
      BY <3>1 DEF Types
    <3>2. CASE told' # told
      <4>1. told' = [told EXCEPT ![report.cmd] = IF report.ok THEN report.to ELSE "refused"]
        BY <3>2 DEF ReportAnswer
      <4>2. report.to \in {"accepted", "completed"}
        BY DEF Types
      <4> QED BY <4>1, <4>2 DEF Types
    <3> QED BY <3>1, <3>2
  <2>2. report' \in [pc : {"off", "asked", "recorded"}, cmd : Holders,
                    to : {"accepted", "completed"}, ok : BOOLEAN]
    BY <1>1 DEF NoReport, Holders
  <2> QED BY <1>1, <2>1, <2>2 DEF Types
<1>3. HandInv'
  BY <1>1 DEF HandInv, Handing, WatchHolds, PollHolds
<1>4. TellInv'
  <2> SUFFICES ASSUME NEW c \in Commands PROVE Telling(c)'
    BY DEF TellInv
  <2>1. Telling(c)
    BY DEF TellInv
  <2>2. \/ told'[c] = told[c] \/ told'[c] = "refused"
        \/ report.cmd = c /\ report.ok /\ told'[c] = report.to
    BY DEF ReportAnswer, Types
  <2> QED BY <1>1, <2>1, <2>2 DEF Telling, Keeps, NoReport
<1> QED BY <1>2, <1>3, <1>4

-----------------------------------------------------------------------------
(* The invariant, and what follows from it.                                *)

\* Every step keeps the invariant.
LEMMA NextInv == ASSUME Inv, [DriverNext]_driverVars PROVE Inv'
<1>1. CASE UNCHANGED driverVars
  BY <1>1, QuietInv DEF driverVars
<1>2. CASE \/ PersistClose \/ FinalizeRow \/ FinalizeEnd \/ SocketClosed \/ Fail
           \/ ClaimToken \/ LinkConnection \/ AcceptSocket \/ Ready \/ Heartbeat \/ Exit \/ LooksDead \/ EndDead
  <2>1. /\ UNCHANGED <<row, handed, told, sender, poll, report>>
        /\ watch' = watch \/ watch' = NoWatch
    BY <1>2 DEF PersistClose, FinalizeRow, FinalizeEnd, SocketClosed, Fail, ClaimToken,
       LinkConnection, AcceptSocket, Ready, Heartbeat, Exit, LooksDead, EndDead
  <2> QED BY <2>1, QuietInv
<1>3. CASE WatchAnswer \/ PollAnswer
  BY <1>3, AnswerInv DEF WatchAnswer, PollAnswer
<1>4. ASSUME NEW c \in Commands, Send(c) \/ InsertTurn(c) \/ Route(c) \/ Insert(c) \/ Push(c)
      PROVE  Inv'
  BY <1>4, SendInv, InsertInv, PushInv
<1>5. ASSUME NEW c \in Commands, NEW to \in {"accepted", "completed"}, Report(c, to) PROVE Inv'
  BY <1>5, ReportInv
<1> QED BY <1>1, <1>2, <1>3, <1>4, <1>5, EvictInv, EndRowsInv, MarkInv, ClaimInv, AskInv, RecordInv,
           ReportAnswerInv DEF DriverNext

\* The invariant holds of every behaviour.
LEMMA Invariance == DriverSpec => []Inv
BY InitInv, NextInv, PTL DEF DriverSpec

\* However the watch, the push and the poll race for a command, the driver gets it once.
THEOREM DeliveredOnce == DriverSpec => []HandedOnce
<1>1. Inv => HandedOnce
  BY DEF Inv, Types, HandInv, Handing, HandedOnce
<1> QED BY <1>1, Invariance, PTL

\* An accepted command does not expire under the driver, and the outcome the driver was
\* told is recorded is not overwritten.
THEOREM ToldStays == DriverSpec => []ToldIsKept
<1>1. Inv => ToldIsKept
  BY DEF Inv, TellInv, Telling, Keeps, ToldIsKept
<1> QED BY <1>1, Invariance, PTL

-----------------------------------------------------------------------------
(* Types.                                                                  *)

\* Numbers have a least one, by the well-foundedness of their order.
LEMMA Least ==
  ASSUME NEW T, T \subseteq Nat, T # {}
  PROVE  \E x \in T : \A y \in T : x <= y
<1>1. IsWellFoundedOn(OpToRel(<, Nat), Nat)
  BY NatLessThanWellFounded
<1>2. PICK x \in T : \A y \in T : <<y, x>> \notin OpToRel(<, Nat)
  BY <1>1, WFMin
<1>3. \A a, b \in Nat : a < b => <<a, b>> \in OpToRel(<, Nat)
  BY DEF OpToRel
<1>4. \A y \in T : ~(y < x)
  BY <1>2, <1>3, Zenon
<1>5. \A y \in T : x <= y
  BY <1>4, SMT
<1> QED BY <1>5

\* What is left of a queue without the first occurrence of an element is a queue.
LEMMA RemoveFirstType ==
  ASSUME NEW S, NEW s \in Seq(S), NEW e
  PROVE  RemoveFirst(s, e) \in Seq(S)
<1> DEFINE I == {i \in 1..Len(s) : s[i] = e}
<1>1. CASE I = {}
  BY <1>1 DEF RemoveFirst
<1>2. CASE I # {}
  <2>1. Min(I) \in 1..Len(s)
    <3>1. I \subseteq Nat
      OBVIOUS
    <3> QED BY <1>2, <3>1, Least DEF Min
  <2>2. RemoveFirst(s, e) = RemoveAt(s, Min(I))
    BY <1>2 DEF RemoveFirst, SelectInSeq
  <2>3. \A i \in 1..Len(s) : RemoveAt(s, i) \in Seq(S)
    BY DEF RemoveAt
  <2> QED BY <2>1, <2>2, <2>3
<1> QED BY <1>1, <1>2

\* A queue that gets a command, at either end, and what a queue gives.
LEMMA QueueForms ==
  ASSUME NEW S
  PROVE  /\ <<>> \in Seq(S)
         /\ \A s \in Seq(S), e \in S :
              Append(s, e) \in Seq(S) /\ Append(s, e) # <<>> /\ <<e>> \o s \in Seq(S)
         /\ \A s \in Seq(S) : s # <<>> => Head(s) \in S /\ Tail(s) \in Seq(S)
<1>1. <<>> \in Seq(S)
  OBVIOUS
<1>2. ASSUME NEW s \in Seq(S), NEW e \in S
      PROVE  Append(s, e) \in Seq(S) /\ Append(s, e) # <<>> /\ <<e>> \o s \in Seq(S)
  <2>1. Append(s, e) \in Seq(S)
    OBVIOUS
  <2>2. Append(s, e) # <<>>
    <3>1. Len(Append(s, e)) = Len(s) + 1 /\ Len(s) \in Nat
      OBVIOUS
    <3>2. Len(<<>>) = 0
      OBVIOUS
    <3> QED BY <3>1, <3>2
  <2>3. <<e>> \o s \in Seq(S)
    OBVIOUS
  <2> QED BY <2>1, <2>2, <2>3
<1>3. ASSUME NEW s \in Seq(S), s # <<>>
      PROVE  Head(s) \in S /\ Tail(s) \in Seq(S)
  BY <1>3
<1> QED BY <1>1, <1>2, <1>3

Objects ==
  [connected : BOOLEAN, terminalized : BOOLEAN, closed : BOOLEAN, queue : Seq(Commands)]

Watches ==
  [pc : {"off", "waiting", "marking", "marked"}, cmd : Holders, ok : BOOLEAN, via : {"watch", "push"}]

Instances == [status : LiveStatuses \cup {"ended"}, linked : BOOLEAN, stale : BOOLEAN]

\* The types that the invariant leaves out; a watch that marks has a command to mark.
ObjectInv ==
  /\ instance \in Instances
  /\ object \in Objects
  /\ socket \in {"none", "open", "closed"}
  /\ process \in {"booting", "claimed", "linked", "up", "gone"}
  /\ order \in Seq(Commands)
  /\ watch \in Watches
  /\ watch.pc \in {"marking", "marked"} => watch.cmd \in Commands
  /\ finalizer \in {"off", "close", "row", "repair", "end"}
  /\ evictions \in 0..MaxEvictions

\* What an object may become at once.
LEMMA ObjectForms ==
  ASSUME ObjectInv
  PROVE  /\ FreshObject \in Objects
         /\ Reused \in Objects
         /\ \A obj \in Objects : Terminalized(obj) \in Objects
         /\ \A obj \in Objects : [obj EXCEPT !.closed = TRUE] \in Objects
BY QueueForms DEF ObjectInv, FreshObject, Reused, Objects, Terminalized

\* A watch that is given up, and one that gets a command.
LEMMA WatchForms ==
         /\ NoWatch \in Watches /\ NoWatch.pc = "off"
         /\ [NoWatch EXCEPT !.pc = "waiting"] \in Watches
         /\ \A c \in Commands : [NoWatch EXCEPT !.pc = "marking", !.cmd = c] \in Watches
         /\ \A w \in Watches, c \in Commands :
              [w EXCEPT !.pc = "marking", !.cmd = c, !.via = "push"] \in Watches
BY DEF NoWatch, Watches, Holders

\* The initial state.
LEMMA ObjectInit == ASSUME DriverInit PROVE ObjectInv
<1>1. object \in Objects /\ order \in Seq(Commands)
  BY QueueForms DEF DriverInit, Objects, FreshObject
<1>2. evictions \in 0..MaxEvictions
  BY DriverAssumption DEF DriverInit
<1> QED BY <1>1, <1>2, WatchForms DEF DriverInit, ObjectInv, Instances, LiveStatuses

\* The object ends, and its socket is noticed to be gone.
LEMMA EndingTypes ==
  ASSUME ObjectInv,
         PersistClose \/ FinalizeRow \/ RepairCommands \/ FinalizeEnd \/ SocketClosed \/ Fail
  PROVE  ObjectInv'
<1> USE ObjectForms, WatchForms
<1>1. CASE PersistClose \/ FinalizeRow
  BY <1>1 DEF PersistClose, FinalizeRow, ObjectInv, Instances
<1>2. CASE RepairCommands
  BY <1>2 DEF RepairCommands, ObjectInv
<1>3. CASE FinalizeEnd
  <2>1. object' \in Objects
    BY <1>3, QueueForms DEF FinalizeEnd, ObjectInv, Objects
  <2> QED BY <1>3, <2>1 DEF FinalizeEnd, ObjectInv
<1>4. CASE SocketClosed
  BY <1>4 DEF SocketClosed, BeginFinalize, ObjectInv
<1>5. CASE Fail
  BY <1>5 DEF Fail, BeginFinalize, ObjectInv
<1> QED BY <1>1, <1>2, <1>3, <1>4, <1>5

\* A counter that has not reached its bound.
LEMMA Counted ==
  ASSUME NEW n \in Nat, NEW e \in 0..n, e < n PROVE e + 1 \in 0..n
OBVIOUS

\* The driver comes and goes.
LEMMA ConnectionTypes ==
  ASSUME ObjectInv,
         \/ ClaimToken \/ LinkConnection \/ AcceptSocket \/ Ready \/ Heartbeat \/ Exit \/ Evict
         \/ LooksDead \/ EndDead
  PROVE  ObjectInv'
<1> USE ObjectForms, WatchForms
<1>1. CASE ClaimToken \/ LinkConnection \/ AcceptSocket
  <2>1. object' \in Objects
    <3>1. FreshObject \in Objects /\ object \in Objects
      BY ObjectForms DEF ObjectInv
    <3> QED BY <1>1, <3>1 DEF ClaimToken, LinkConnection, AcceptSocket, Objects
  <2>2. instance' \in Instances
    BY <1>1 DEF ClaimToken, LinkConnection, AcceptSocket, ObjectInv, Instances, LiveStatuses
  <2> QED BY <1>1, <2>1, <2>2 DEF ClaimToken, LinkConnection, AcceptSocket, ObjectInv
<1>2. CASE Ready \/ Heartbeat \/ LooksDead \/ EndDead
  BY <1>2 DEF Ready, Heartbeat, LooksDead, EndDead, ObjectInv, Instances, LiveStatuses
<1>3. CASE Exit
  BY <1>3 DEF Exit, ObjectInv
<1>4. CASE Evict
  <2>1. object' \in Objects
    BY <1>4 DEF Evict, ObjectInv, Objects
  <2>2. evictions' \in 0..MaxEvictions
    <3>1. evictions' = evictions + 1 /\ evictions < MaxEvictions /\ evictions \in 0..MaxEvictions
      BY <1>4 DEF Evict, ObjectInv
    <3> QED BY <3>1, Counted, DriverAssumption
  <2> QED BY <1>4, <2>1, <2>2 DEF Evict, ObjectInv
<1> QED BY <1>1, <1>2, <1>3, <1>4

\* A command is sent: a push feeds the watch with the head of a queue that is not empty.
LEMMA SendTypes ==
  ASSUME ObjectInv, NEW c \in Commands, Send(c) \/ InsertTurn(c) \/ Route(c) \/ Insert(c) \/ Push(c)
  PROVE  ObjectInv'
<1> USE ObjectForms, WatchForms
<1>1. CASE Send(c)
  BY <1>1 DEF Send, ObjectInv
<1>2. CASE InsertTurn(c) \/ Insert(c)
  <2>1. order' \in Seq(Commands)
    <3>1. order' = Append(order, c) /\ order \in Seq(Commands)
      BY <1>2 DEF InsertTurn, Insert, ObjectInv
    <3> QED BY <3>1, QueueForms
  <2> QED BY <1>2, <2>1 DEF InsertTurn, Insert, ObjectInv
<1>3. CASE Route(c)
  BY <1>3 DEF Route, BeginFinalize, ObjectInv
<1>4. CASE Push(c)
  <2> DEFINE queue == Append(object.queue, c)
  <2>1. object.queue \in Seq(Commands)
    BY DEF ObjectInv, Objects
  <2>2. queue \in Seq(Commands) /\ Head(queue) \in Commands /\ Tail(queue) \in Seq(Commands)
    BY <2>1, QueueForms
  <2>3. \A q \in Seq(Commands) : [object EXCEPT !.queue = q] \in Objects
    BY DEF ObjectInv, Objects
  <2>4. \/ UNCHANGED <<object, watch>>
        \/ /\ watch' = [watch EXCEPT !.pc = "marking", !.cmd = Head(queue), !.via = "push"]
           /\ object' = [object EXCEPT !.queue = Tail(queue)]
        \/ /\ watch' = IF watch.pc = "waiting" THEN NoWatch ELSE watch
           /\ object' = [object EXCEPT !.queue = queue]
    BY <1>4 DEF Push
  <2>5. object' \in Objects
    BY <2>2, <2>3, <2>4 DEF ObjectInv
  <2>6. watch' \in Watches
    BY <2>2, <2>4 DEF ObjectInv
  <2>7. watch'.pc \in {"marking", "marked"} => watch'.cmd \in Commands
    BY <2>2, <2>4 DEF ObjectInv, Watches
  <2> QED BY <1>4, <2>5, <2>6, <2>7 DEF Push, ObjectInv
<1> QED BY <1>1, <1>2, <1>3, <1>4

\* The watch takes the head of the queue, and what it cannot hand over goes back to it.
LEMMA WatchTypes ==
  ASSUME ObjectInv, Watch \/ MarkDelivered \/ WatchAnswer PROVE ObjectInv'
<1> USE WatchForms
<1>1. object.queue \in Seq(Commands)
  BY DEF ObjectInv, Objects
<1>2. \A q \in Seq(Commands) : [object EXCEPT !.queue = q] \in Objects
  BY DEF ObjectInv, Objects
<1>3. CASE Watch
  <2>1. CASE object.queue = <<>>
    BY <1>3, <2>1 DEF Watch, ObjectInv, NoWatch
  <2>2. CASE object.queue # <<>>
    <3>1. Head(object.queue) \in Commands /\ Tail(object.queue) \in Seq(Commands)
      BY <1>1, <2>2, QueueForms
    <3>2. /\ watch' = [NoWatch EXCEPT !.pc = "marking", !.cmd = Head(object.queue)]
          /\ object' = [object EXCEPT !.queue = Tail(object.queue)]
      BY <1>3, <2>2 DEF Watch
    <3>3. watch' \in Watches /\ watch'.cmd \in Commands
      BY <3>1, <3>2 DEF NoWatch
    <3> QED BY <1>2, <1>3, <3>1, <3>2, <3>3 DEF Watch, ObjectInv
  <2> QED BY <2>1, <2>2
<1>4. CASE MarkDelivered
  <2>1. Deliverable(watch.cmd) \in BOOLEAN
    BY DEF Deliverable, ObjectInv, Instances
  <2>2. watch' \in Watches /\ watch'.cmd = watch.cmd /\ watch.pc = "marking"
    BY <1>4, <2>1 DEF MarkDelivered, ObjectInv, Watches
  <2> QED BY <1>4, <2>2 DEF MarkDelivered, ObjectInv
<1>5. CASE WatchAnswer
  <2>1. watch.cmd \in Commands /\ watch' = NoWatch
    BY <1>5 DEF WatchAnswer, ObjectInv
  <2>2. <<watch.cmd>> \o object.queue \in Seq(Commands)
    BY <1>1, <2>1, QueueForms
  <2>3. object' \in Objects
    BY <1>2, <1>5, <2>2 DEF WatchAnswer, ObjectInv
  <2> QED BY <1>5, <2>1, <2>3 DEF WatchAnswer, ObjectInv
<1> QED BY <1>3, <1>4, <1>5

\* The poll removes the command it hands over from the queue.
LEMMA PollTypes == ASSUME ObjectInv, PollAnswer PROVE ObjectInv'
<1>1. object.queue \in Seq(Commands)
  BY DEF ObjectInv, Objects
<1>2. RemoveFirst(object.queue, poll.cmd) \in Seq(Commands)
  BY <1>1, RemoveFirstType
<1>3. \/ object' = object
      \/ object' = [object EXCEPT !.queue = RemoveFirst(object.queue, poll.cmd)]
  BY DEF PollAnswer
<1>4. object' \in Objects
  BY <1>2, <1>3 DEF ObjectInv, Objects
<1> QED BY <1>4 DEF PollAnswer, ObjectInv

\* Every step keeps the types.
LEMMA ObjectNext == ASSUME ObjectInv, [DriverNext]_driverVars PROVE ObjectInv'
<1>1. CASE UNCHANGED driverVars
  BY <1>1 DEF driverVars, ObjectInv
<1>2. CASE \/ Poll \/ Claim \/ Record \/ ReportAnswer \/ ExpireLeases \/ FailAbandoned
           \/ \E c \in Commands : Lapse(c)
           \/ \E c \in Commands, to \in {"accepted", "completed"} : Report(c, to)
  <2>1. UNCHANGED <<instance, object, socket, process, order, watch, finalizer, evictions>>
    BY <1>2 DEF Poll, Claim, Record, ReportAnswer, ExpireLeases, FailAbandoned, Lapse, Report
  <2> QED BY <2>1 DEF ObjectInv
<1>3. CASE PersistClose \/ FinalizeRow \/ RepairCommands \/ FinalizeEnd \/ SocketClosed \/ Fail
  BY <1>3, EndingTypes
<1>4. CASE \/ ClaimToken \/ LinkConnection \/ AcceptSocket \/ Ready \/ Heartbeat \/ Exit \/ Evict \/ LooksDead \/ EndDead
  BY <1>4, ConnectionTypes
<1>5. ASSUME NEW c \in Commands, Send(c) \/ InsertTurn(c) \/ Route(c) \/ Insert(c) \/ Push(c)
      PROVE  ObjectInv'
  BY <1>5, SendTypes
<1> QED BY <1>1, <1>2, <1>3, <1>4, <1>5, WatchTypes, PollTypes DEF DriverNext

\* Every variable has its type, the object's queue too: the watch takes a command from it only
\* where there is one, and what is put back, or left of it, are commands.
THEOREM TypeCorrect == DriverSpec => []DriverTypeOK
<1>1. Inv /\ ObjectInv => DriverTypeOK
  BY DEF Inv, Types, Rows, ObjectInv, Instances, Objects, Watches, DriverTypeOK
<1>2. DriverSpec => []ObjectInv
  BY ObjectInit, ObjectNext, PTL DEF DriverSpec
<1> QED BY <1>1, <1>2, Invariance, PTL
=============================================================================
