------------------------ MODULE EventIngestionProofs ------------------------
(***************************************************************************)
(* The refinement of DriverLog by EventIngestion, for any number of        *)
(* events, connections and faults.                                         *)
(*                                                                         *)
(* A step adds to the log in the driver's order only because of what holds *)
(* over several steps and of several actors.  The event gate lets one push *)
(* work at a time (GateInv), so that numbers allocated for one are not     *)
(* overtaken by another's.  A batch leaves out nothing that precedes it    *)
(* and has no receipt (Batched), and what a push does not write is in the  *)
(* log (Carried, Writing): the filter drops a timely event only for a      *)
(* later one that is stored, so the timely one is (OrderInv), unless that  *)
(* later one is the API's end of the run.  A receipt is for what is        *)
(* stored, until the API settles the run (AckInv, Receiving): a push drops *)
(* its batch only when the run went another way, and before the API        *)
(* settles it the run goes only the way the driver says (RunInv,           *)
(* Deciding).                                                              *)
(***************************************************************************)
EXTENDS EventIngestion, FiniteSetTheorems, TLAPS

Waiting == {"idle", "gated"}
Working == {"transition", "before", "complete", "rest", "answer"}

Pushes == [phase : Waiting \cup Working, batch : SUBSET Events, fresh : SUBSET Events,
           known : SUBSET Events]
Writes == [phase : {"idle", "filter", "allocate", "insert", "done"}, ids : SUBSET SourceIds,
           first : Nat]

TypesInv ==
  /\ ending \in {"completed", "failed"}
  /\ emitted \in Nat /\ sent \in Nat /\ sent <= emitted /\ emitted <= Final
  /\ acked \subseteq Events
  /\ memory \subseteq acked
  /\ connection \in Connections
  /\ push \in [Connections -> Pushes]
  /\ write \in [Writers -> Writes]
  /\ log \in [SourceIds -> Nat]
  /\ cursor \in Nat
  /\ run \in {"running", "completed", "failed", "cancelled"}
  /\ api \in {"idle", "settled", "done"}

-----------------------------------------------------------------------------
(* The gate.                                                               *)

InGate(c) == \E i \in 1 .. Len(gate) : gate[i] = c

\* Connections enter the gate in their order, and leave it so; only the first one works.
GateInv ==
  /\ gate \in Seq(Connections)
  /\ \A i, j \in 1 .. Len(gate) : i < j => gate[i] < gate[j]
  /\ \A i \in 1 .. Len(gate) : gate[i] <= connection
  /\ \A c \in Connections : InGate(c) <=> push[c].phase # "idle"
  /\ \A c \in Connections : push[c].phase \in Working => AtWork(c)

-----------------------------------------------------------------------------
(* A push.                                                                 *)

\* Its batch is what the driver has no receipt for, from the oldest on.
Batched(c) ==
  LET batch == push[c].batch
  IN /\ push[c].phase = "idle" => batch = {}
     /\ \A e \in batch : e <= sent /\ e \notin acked
     /\ \A e \in batch, d \in Events : d < e /\ d \notin acked => d \in batch
     /\ c = connection /\ push[c].phase = "gated" =>
          \A d \in Events : d <= sent /\ d \notin acked => d \in batch

\* What is timely in a batch that has fresh events is stored if it is not fresh.
Carried(c) ==
  /\ push[c].phase \in Waiting => push[c].fresh = {} /\ push[c].known = {}
  /\ push[c].fresh \subseteq push[c].batch
  /\ ~Replaced /\ push[c].fresh # {} =>
       \A e \in (push[c].batch \cap Timely) \ push[c].fresh : IsStored(e)

\* A write is for the fresh events that are not stored yet; Final is kept for last if it completes the run.
Writing(c) ==
  LET p == push[c]
      w == write[c]
  IN /\ p.phase \notin {"before", "rest"} => w = NoWrite
     /\ w.ids \subseteq p.fresh
     /\ w.phase = "done" => \A e \in w.ids : IsStored(e)
     /\ p.phase \in {"before", "complete"} => Final \in p.fresh /\ ending = "completed"
     /\ p.phase \in {"before", "complete"} =>
          \A e \in p.fresh \ {Final} : IsStored(e) \/ e \in w.ids
     /\ p.phase = "rest" => \A e \in p.fresh : IsStored(e) \/ e \in w.ids

\* While the run is the driver's, what a push will acknowledge is stored.
Receiving(c) ==
  api = "idle" =>
    /\ \A e \in push[c].known : IsStored(e)
    /\ push[c].phase = "answer" => \A e \in push[c].fresh : IsStored(e)

\* A push that has yet to start a run that ended carries its end.
Deciding(c) ==
  api = "idle" /\ run # "running" /\ push[c].phase = "transition" /\ 1 \in push[c].fresh =>
    Final \in push[c].fresh

\* The numbers a writer has are its own.
Numbered(w) ==
  write[w].phase = "insert" =>
    /\ write[w].first >= 1
    /\ write[w].first + Cardinality(write[w].ids) <= cursor + 1

\* They come after those of the driver's events.
Latest(c) ==
  write[c].phase = "insert" => \A e \in DriversOwn : log[e] < write[c].first

PushInv(c) ==
  /\ Batched(c) /\ Carried(c) /\ Writing(c) /\ Receiving(c) /\ Deciding(c)
  /\ Numbered(c) /\ Latest(c)

-----------------------------------------------------------------------------
(* The log and the run.                                                    *)

\* What is timely and precedes a stored event is stored, or the driver has a receipt for it.
OrderInv ==
  ~Replaced =>
    \A d \in Events, e \in Timely : e < d /\ IsStored(d) => IsStored(e) \/ e \in acked

NumberInv ==
  /\ \A e \in SourceIds : log[e] <= cursor
  /\ ~Replaced =>
       \A d \in Timely \cap DriversOwn, e \in DriversOwn :
         d < e /\ IsStored(d) /\ IsStored(e) => log[d] < log[e]

AckInv == api = "idle" => \A e \in acked : IsStored(e)

RunInv ==
  /\ run = "running" => api = "idle"
  /\ api = "idle" /\ run # "running" => run = ending /\ sent = Final

ApiInv ==
  /\ write[Api].phase # "idle" => api = "settled"
  /\ write[Api].ids \cap DriversOwn = {}
  /\ Numbered(Api)

RestInv == OrderInv /\ NumberInv /\ AckInv /\ RunInv /\ ApiInv

Inv == TypesInv /\ GateInv /\ RestInv /\ \A c \in Connections : PushInv(c)

-----------------------------------------------------------------------------
(* What steps have in common.                                              *)

\* A step that changes the push of one connection.
OnlyPush(c) == push' \in [Connections -> Pushes] /\ \A d \in Connections \ {c} : push'[d] = push[d]
OnlyWrite(w) == write' \in [Writers -> Writes] /\ \A v \in Writers \ {w} : write'[v] = write[v]

\* The first connection in the gate is the only one that works.
LEMMA OthersWait ==
  ASSUME GateInv, TypesInv, NEW c \in Connections, AtWork(c), NEW d \in Connections, d # c
  PROVE  push[d].phase \in Waiting
BY DEF GateInv, TypesInv, Pushes, AtWork

\* A step of the first one that leaves it in the gate.
LEMMA GateStays ==
  ASSUME GateInv, NEW c \in Connections, AtWork(c), OnlyPush(c), push[c].phase # "idle",
         push'[c].phase # "idle", gate' = gate, connection' = connection
  PROVE  GateInv'
<1>1. \A d \in Connections : push'[d].phase # "idle" <=> push[d].phase # "idle"
  BY DEF OnlyPush
<1>2. \A d \in Connections : push'[d].phase \in Working => d = c \/ push[d].phase \in Working
  BY DEF OnlyPush
<1> QED BY <1>1, <1>2 DEF GateInv, InGate, AtWork

\* The first one leaves the gate.
LEMMA GateLeaves ==
  ASSUME GateInv, NEW c \in Connections, AtWork(c), OnlyPush(c),
         push'[c].phase = "idle", gate' = Tail(gate), connection' = connection
  PROVE  GateInv'
<1>1. /\ gate \in Seq(Connections) /\ gate # <<>> /\ Len(gate) \in Nat \ {0} /\ gate[1] = c
      /\ Len(gate') = Len(gate) - 1 /\ gate' \in Seq(Connections)
      /\ \A i \in 1 .. Len(gate') : gate'[i] = gate[i + 1]
  BY DEF GateInv, AtWork
<1>2. /\ \A i, j \in 1 .. Len(gate') : i < j => gate'[i] < gate'[j]
      /\ \A i \in 1 .. Len(gate') : gate'[i] <= connection'
  BY <1>1 DEF GateInv
<1>3. \A d \in Connections : InGate(d)' <=> InGate(d) /\ d # c
  <2> TAKE d \in Connections
  <2>1. ASSUME InGate(d)' PROVE InGate(d) /\ d # c
    <3>1. PICK i \in 1 .. Len(gate') : gate'[i] = d
      BY <2>1 DEF InGate
    <3>2. i + 1 \in 1 .. Len(gate) /\ gate[i + 1] = d /\ 1 < i + 1 /\ 1 \in 1 .. Len(gate)
      BY <1>1, <3>1
    <3>3. gate[1] < gate[i + 1]
      BY <3>2 DEF GateInv
    <3> QED BY <1>1, <3>2, <3>3 DEF InGate, Connections
  <2>2. ASSUME InGate(d), d # c PROVE InGate(d)'
    <3>1. PICK i \in 1 .. Len(gate) : gate[i] = d
      BY <2>2 DEF InGate
    <3>2. i - 1 \in 1 .. Len(gate') /\ gate'[i - 1] = gate[i]
      BY <1>1, <2>2, <3>1
    <3> QED BY <3>1, <3>2 DEF InGate
  <2> QED BY <2>1, <2>2
<1>4. \A d \in Connections : InGate(d)' <=> push'[d].phase # "idle"
  BY <1>3 DEF GateInv, OnlyPush
<1>5. \A d \in Connections : push'[d].phase \notin Working
  BY DEF GateInv, OnlyPush, AtWork, Working
<1> QED BY <1>1, <1>2, <1>4, <1>5 DEF GateInv

\* The driver's connection enters the gate.
LEMMA GateEntered ==
  ASSUME GateInv, TypesInv, OnlyPush(connection), push[connection].phase = "idle",
         push'[connection].phase = "gated", gate' = Append(gate, connection), connection' = connection
  PROVE  GateInv'
<1>1. /\ gate \in Seq(Connections) /\ connection \in Connections /\ Len(gate) \in Nat
      /\ Len(gate') = Len(gate) + 1 /\ gate' \in Seq(Connections)
      /\ \A i \in 1 .. Len(gate) : gate'[i] = gate[i]
      /\ gate'[Len(gate) + 1] = connection
  BY DEF GateInv, TypesInv
<1>2. \A i \in 1 .. Len(gate) : gate[i] < connection
  <2> TAKE i \in 1 .. Len(gate)
  <2>1. gate[i] # connection
    BY <1>1 DEF GateInv, InGate
  <2>2. gate[i] \in Connections /\ gate[i] <= connection
    BY <1>1 DEF GateInv
  <2>3. gate[i] \in Nat /\ connection \in Nat
    BY <1>1, <2>2 DEF Connections
  <2> QED BY <2>1, <2>2, <2>3
<1>3. \A i, j \in 1 .. Len(gate') : i < j => gate'[i] < gate'[j]
  BY <1>1, <1>2 DEF GateInv
<1>4. \A i \in 1 .. Len(gate') : gate'[i] <= connection'
  BY <1>1, <1>2 DEF GateInv, Connections
<1>5. \A d \in Connections : InGate(d)' <=> InGate(d) \/ d = connection
  <2> TAKE d \in Connections
  <2>1. ASSUME InGate(d) PROVE InGate(d)'
    BY <1>1, <2>1 DEF InGate
  <2>2. ASSUME d = connection PROVE InGate(d)'
    BY <1>1, <2>2 DEF InGate
  <2>3. ASSUME InGate(d)', d # connection PROVE InGate(d)
    BY <1>1, <2>3 DEF InGate
  <2> QED BY <2>1, <2>2, <2>3
<1>6. \A d \in Connections : InGate(d)' <=> push'[d].phase # "idle"
  BY <1>5 DEF GateInv, OnlyPush
<1>7. \A d \in Connections : push'[d].phase \in Working => AtWork(d)'
  <2> SUFFICES ASSUME NEW d \in Connections, push'[d].phase \in Working PROVE AtWork(d)'
    OBVIOUS
  <2>1. d # connection /\ push[d].phase \in Working
    BY DEF OnlyPush, Working
  <2>2. gate # <<>> /\ Head(gate) = d
    BY <2>1 DEF GateInv, AtWork
  <2> QED BY <1>1, <2>2 DEF AtWork
<1> QED BY <1>1, <1>3, <1>4, <1>6, <1>7 DEF GateInv

\* A push that waits is untouched by the steps of others.
LEMMA WaitingKept ==
  ASSUME NEW d \in Connections, PushInv(d), push[d].phase \in Waiting,
         push'[d] = push[d], write'[d] = write[d], UNCHANGED <<sent, acked, connection>>
  PROVE  PushInv(d)'
<1>1. write[d] = NoWrite /\ push[d].fresh = {} /\ push[d].known = {}
  BY DEF PushInv, Carried, Writing, Waiting
<1>2. Batched(d)'
  BY DEF PushInv, Batched
<1>3. Carried(d)' /\ Writing(d)'
  BY <1>1 DEF PushInv, Carried, Writing, Waiting, NoWrite
<1>4. Receiving(d)' /\ Deciding(d)' /\ Numbered(d)' /\ Latest(d)'
  BY <1>1 DEF Receiving, Deciding, Numbered, Latest, Waiting, NoWrite
<1> QED BY <1>2, <1>3, <1>4 DEF PushInv

\* What the log and the run are to the driver is left alone.
LEMMA RestKept ==
  ASSUME RestInv, UNCHANGED <<ending, sent, acked, log, cursor, run, api>>, write'[Api] = write[Api]
  PROVE  RestInv'
BY DEF RestInv, OrderInv, NumberInv, AckInv, RunInv, ApiInv, Numbered, IsStored, DriversOwn, Replaced

\* Once the driver's end of the run is replaced, it is for good.
LEMMA ReplacedStays ==
  ASSUME ending' = ending, api' = "idle" => api = "idle", IsStored(Final) => IsStored(Final)'
  PROVE  Replaced => Replaced'
BY DEF Replaced

\* The start of the run is timely, and is not its end.
LEMMA TimelyEvents == Timely \subseteq Events /\ 1 \in Timely /\ 1 < Final /\ Final \in Events
BY IngestionAssumption DEF Timely, Events
-----------------------------------------------------------------------------
(* Steps of the push at work.                                              *)

\* Such a step keeps the invariant if it keeps it of that push, and of the log and the run.
LEMMA WorkStep ==
  ASSUME Inv, NEW c \in Connections, AtWork(c), push[c].phase # "idle",
         OnlyPush(c), OnlyWrite(c), push'[c].phase # "idle",
         UNCHANGED <<driverVars, gate, memory, api>>,
         log' \in [SourceIds -> Nat], cursor' \in Nat,
         run' \in {"running", "completed", "failed", "cancelled"},
         RestInv', PushInv(c)'
  PROVE  Inv'
<1>1. TypesInv'
  BY DEF Inv, TypesInv, OnlyPush, OnlyWrite, driverVars
<1>2. GateInv'
  BY GateStays DEF Inv, driverVars
<1>3. \A d \in Connections \ {c} : PushInv(d)'
  <2> SUFFICES ASSUME NEW d \in Connections \ {c} PROVE PushInv(d)'
    OBVIOUS
  <2>1. push[d].phase \in Waiting
    BY OthersWait DEF Inv
  <2>2. push'[d] = push[d] /\ write'[d] = write[d]
    BY DEF OnlyPush, OnlyWrite, Writers
  <2> QED BY <2>1, <2>2, WaitingKept DEF Inv, driverVars
<1> QED BY <1>1, <1>2, <1>3 DEF Inv

\* The API's writer is not a connection.
LEMMA ApiWriter == ASSUME NEW c \in Connections PROVE Api # c /\ Api \in Writers /\ c \in Writers
BY IngestionAssumption DEF Api, Connections, Writers

\* Most of them leave the log and the run alone.
LEMMA QuietStep ==
  ASSUME Inv, NEW c \in Connections, AtWork(c), push[c].phase # "idle",
         OnlyPush(c), OnlyWrite(c), push'[c].phase # "idle",
         UNCHANGED <<driverVars, gate, memory, log, cursor, run, api>>, PushInv(c)'
  PROVE  Inv'
<1>1. /\ log' \in [SourceIds -> Nat] /\ cursor' \in Nat
      /\ run' \in {"running", "completed", "failed", "cancelled"}
  BY DEF Inv, TypesInv
<1>2. write'[Api] = write[Api]
  BY ApiWriter DEF OnlyWrite
<1>3. RestInv'
  BY <1>2, RestKept DEF Inv, driverVars
<1> QED BY <1>1, <1>3, WorkStep

\* The push keeps its batch.
LEMMA BatchedKept ==
  ASSUME NEW c \in Connections, Batched(c), push'[c].batch = push[c].batch,
         push'[c].phase \in Working, UNCHANGED <<sent, acked>>
  PROVE  Batched(c)'
BY DEF Batched, Working

\* A push that begins to work finds no write, and no numbers.
LEMMA NoNumbers ==
  ASSUME NEW c \in Connections, write'[c].phase # "insert"
  PROVE  Numbered(c)' /\ Latest(c)'
BY DEF Numbered, Latest

\* An event that is neither new nor in memory is stored.
LEMMA ReadInv == ASSUME Inv, NEW c \in Connections, ReadReceipts(c) PROVE Inv'
<1> DEFINE batch   == push[c].batch
           durable == {e \in batch \ memory : IsStored(e)}
           fresh   == Fresh(batch, durable)
           known   == batch \cap (memory \cup durable)
<1>1. /\ AtWork(c) /\ push[c].phase = "gated" /\ c = connection
      /\ UNCHANGED <<driverVars, gate, memory, write, log, cursor, writable, run, api, faults>>
      /\ push' = [push EXCEPT ![c] = [@ EXCEPT !.fresh = fresh, !.known = known,
                    !.phase = IF fresh = {} THEN "answer" ELSE "transition"]]
  BY DEF ReadReceipts
<1>2. batch \subseteq Events /\ push \in [Connections -> Pushes] /\ memory \subseteq acked
  BY DEF Inv, TypesInv, Pushes
<1>3. Batched(c) /\ Carried(c) /\ Writing(c)
  BY DEF Inv, PushInv
<1>4. batch \cap acked = {} /\ batch \cap memory = {} /\ known = durable
  BY <1>2, <1>3 DEF Batched
<1>5. fresh \subseteq batch /\ durable \subseteq batch
      /\ \A e \in batch : e \in fresh <=> e \notin durable /\ \A d \in durable : e \notin Replays[d]
  BY <1>4 DEF Fresh
<1>6. /\ push'[c].phase = IF fresh = {} THEN "answer" ELSE "transition"
      /\ push'[c].fresh = fresh /\ push'[c].known = known /\ push'[c].batch = batch
  BY <1>1, <1>2 DEF Pushes
<1>7. OnlyPush(c) /\ OnlyWrite(c)
  <2>1. fresh \in SUBSET Events /\ known \in SUBSET Events
    BY <1>2, <1>5
  <2> HIDE DEF fresh, known
  <2>2. push' \in [Connections -> Pushes]
    BY <1>1, <1>2, <2>1 DEF Pushes, Working
  <2>3. write' \in [Writers -> Writes]
    BY <1>1 DEF Inv, TypesInv
  <2> QED BY <1>1, <1>2, <2>2, <2>3 DEF OnlyPush, OnlyWrite
<1> HIDE DEF fresh, durable, known
<1>8. Batched(c)'
  BY <1>1, <1>3, <1>6, BatchedKept DEF driverVars, Working
<1>9. Carried(c)'
  <2>1. ASSUME ~Replaced, NEW e \in (batch \cap Timely) \ fresh PROVE IsStored(e)
    <3>1. CASE e \in durable
      BY <3>1 DEF durable
    <3>2. CASE e \notin durable
      <4>1. PICK d \in durable : e \in Replays[d]
        BY <1>5, <3>2
      <4>2. d \in Events /\ e \in Events /\ IsStored(d) /\ d # e
        BY <1>2, <1>5, <3>2, <4>1 DEF durable
      <4>3. d \notin 1 .. e - 1
        BY <4>1 DEF Timely
      <4>4. e < d
        BY <4>2, <4>3, IngestionAssumption DEF Events
      <4> QED BY <1>4, <2>1, <4>2, <4>4 DEF Inv, RestInv, OrderInv
    <3> QED BY <3>1, <3>2
  <2> QED BY <1>1, <1>5, <1>6, <2>1 DEF Carried, IsStored, Waiting, Replaced, driverVars
<1>10. Writing(c)'
  BY <1>1, <1>3, <1>6 DEF Writing, NoWrite
<1>11. Receiving(c)'
  BY <1>1, <1>4, <1>6 DEF Receiving, IsStored, durable
<1>12. Deciding(c)'
  <2> SUFFICES ASSUME api = "idle", run # "running", 1 \in fresh PROVE Final \in fresh
    BY <1>1, <1>6 DEF Deciding
  <2>1. sent = Final
    BY DEF Inv, RestInv, RunInv
  <2>2. ~IsStored(1) /\ 1 \notin acked /\ 1 \in batch
    BY <1>4, <1>5 DEF durable
  <2>3. ~IsStored(Final)
    BY <2>2, TimelyEvents DEF Inv, RestInv, OrderInv, Replaced
  <2>4. Final \in batch
    <3>1. Final \notin acked
      BY <2>3 DEF Inv, RestInv, AckInv
    <3> QED BY <1>1, <1>3, <2>1, <3>1, TimelyEvents, IngestionAssumption DEF Batched
  <2>5. \A d \in durable : Final \notin Replays[d]
    <3> TAKE d \in durable
    <3>1. Replays[d] \subseteq 2 .. Final - 1
      BY <1>2, <1>5, IngestionAssumption DEF Events
    <3>2. Final \notin 2 .. Final - 1
      BY IngestionAssumption
    <3> QED BY <3>1, <3>2
  <2> QED BY <1>5, <2>3, <2>4, <2>5 DEF durable
<1>13. Numbered(c)' /\ Latest(c)'
  BY <1>1, <1>3, NoNumbers DEF Writing, NoWrite
<1>14. PushInv(c)'
  BY <1>8, <1>9, <1>10, <1>11, <1>12, <1>13 DEF PushInv
<1>15. push[c].phase # "idle" /\ push'[c].phase # "idle"
  BY <1>1, <1>6
<1> QED BY <1>1, <1>7, <1>14, <1>15, QuietStep

\* What becomes of a push and of a write.
LEMMA BecomeShape ==
  ASSUME TypesInv, NEW c \in Connections, NEW phase \in Waiting \cup Working, Become(c, phase)
  PROVE  /\ OnlyPush(c) /\ push'[c].phase = phase
         /\ push'[c].batch = push[c].batch /\ push'[c].fresh = push[c].fresh
         /\ push'[c].known = push[c].known
<1>1. push[c] \in Pushes /\ push \in [Connections -> Pushes]
  BY DEF TypesInv
<1>2. push' = [push EXCEPT ![c].phase = phase]
  BY DEF Become
<1>3. push' \in [Connections -> Pushes]
  BY <1>1, <1>2 DEF Pushes
<1> QED BY <1>1, <1>2, <1>3 DEF OnlyPush, Pushes

\* A write begins with the ids it is given.
LEMMA BeginShape ==
  ASSUME TypesInv, NEW w \in Writers, NEW ids \in SUBSET SourceIds, BeginWrite(w, ids)
  PROVE  OnlyWrite(w) /\ write'[w].phase = "filter" /\ write'[w].ids = ids
BY DEF TypesInv, BeginWrite, OnlyWrite, Writes, NoWrite

\* A write that is over leaves nothing behind.
LEMMA EndShape ==
  ASSUME TypesInv, NEW w \in Writers, write' = [write EXCEPT ![w] = NoWrite]
  PROVE  OnlyWrite(w) /\ write'[w] = NoWrite
BY DEF TypesInv, OnlyWrite, Writes, NoWrite

\* Nobody's write changes.
LEMMA SameWrite ==
  ASSUME TypesInv, NEW w \in Writers, write' = write PROVE OnlyWrite(w)
BY DEF TypesInv, OnlyWrite

\* Events have source ids.
LEMMA FreshIds ==
  ASSUME TypesInv, NEW c \in Connections
  PROVE  push[c].batch \subseteq Events /\ push[c].fresh \subseteq Events /\ Events \subseteq SourceIds
         /\ push[c] \in Pushes /\ write[c] \in Writes
BY ApiWriter, IngestionAssumption DEF TypesInv, Pushes, Writes, Events, SourceIds

\* A step that carries on with the batch: what is left to show is about its write and its answer.
LEMMA CarryOn ==
  ASSUME Inv, NEW c \in Connections, push[c].phase \in Working,
         OnlyPush(c), OnlyWrite(c), push'[c].phase \in Working,
         push'[c].batch = push[c].batch, push'[c].fresh = push[c].fresh,
         push'[c].known = push[c].known, write'[c].phase # "insert",
         UNCHANGED <<driverVars, gate, memory, log, cursor, run, api>>,
         push'[c].phase = "transition" => push[c].phase = "transition",
         push'[c].phase = "answer" => \A e \in push[c].fresh : IsStored(e),
         Writing(c)'
  PROVE  Inv'
<1>1. AtWork(c)
  BY DEF Inv, GateInv
<1>2. Batched(c)'
  BY BatchedKept DEF Inv, PushInv, driverVars, Working
<1>3. Carried(c)'
  BY DEF Inv, PushInv, Carried, Waiting, Working, IsStored, Replaced, driverVars
<1>4. Receiving(c)' /\ Deciding(c)'
  BY DEF Inv, PushInv, Receiving, Deciding, IsStored
<1>5. PushInv(c)'
  BY <1>2, <1>3, <1>4, NoNumbers DEF PushInv
<1> QED BY <1>1, <1>5, QuietStep DEF Working

\* A batch without a transition goes on to write what it has.
LEMMA SkipInv == ASSUME Inv, NEW c \in Connections, SkipTransition(c) PROVE Inv'
<1>1. /\ push[c].phase = "transition" /\ Become(c, "rest") /\ BeginWrite(c, push[c].fresh)
      /\ UNCHANGED <<driverVars, gate, memory, log, cursor, run, api>>
  BY DEF SkipTransition
<1>2. OnlyPush(c) /\ push'[c].phase = "rest"
      /\ push'[c].batch = push[c].batch /\ push'[c].fresh = push[c].fresh
      /\ push'[c].known = push[c].known
  BY <1>1, BecomeShape DEF Inv, Working
<1>3. OnlyWrite(c) /\ write'[c].phase = "filter" /\ write'[c].ids = push[c].fresh
  BY <1>1, BeginShape, FreshIds, ApiWriter DEF Inv
<1>4. Writing(c)'
  BY <1>2, <1>3 DEF Writing
<1> QED BY <1>1, <1>2, <1>3, <1>4, CarryOn DEF Working

\* What precedes the completion is written first.
LEMMA BeforeInv == ASSUME Inv, NEW c \in Connections, WriteBeforeCompletion(c) PROVE Inv'
<1> DEFINE before == push[c].fresh \ {Final}
<1>1. /\ push[c].phase = "transition" /\ Wanted(push[c].fresh) = "completed"
      /\ UNCHANGED <<driverVars, gate, memory, log, cursor, run, api>>
  BY DEF WriteBeforeCompletion
<1>2. Final \in push[c].fresh /\ ending = "completed"
  BY <1>1 DEF Wanted, Inv, TypesInv
<1>3. write[c] = NoWrite
  BY <1>1 DEF Inv, PushInv, Writing
<1>4. CASE before = {}
  <2>1. Become(c, "complete") /\ write' = write
    BY <1>4 DEF WriteBeforeCompletion
  <2>2. OnlyPush(c) /\ push'[c].phase = "complete"
        /\ push'[c].batch = push[c].batch /\ push'[c].fresh = push[c].fresh
        /\ push'[c].known = push[c].known
    BY <2>1, BecomeShape DEF Inv, Working
  <2>3. OnlyWrite(c) /\ write'[c] = NoWrite
    BY <1>3, <2>1, ApiWriter, SameWrite DEF Inv
  <2>4. Writing(c)'
    BY <1>1, <1>2, <1>4, <2>2, <2>3 DEF Writing, driverVars, NoWrite
  <2> QED BY <1>1, <2>2, <2>3, <2>4, CarryOn DEF Working, NoWrite
<1>5. CASE before # {}
  <2>1. Become(c, "before") /\ BeginWrite(c, before)
    BY <1>5 DEF WriteBeforeCompletion
  <2>2. OnlyPush(c) /\ push'[c].phase = "before"
        /\ push'[c].batch = push[c].batch /\ push'[c].fresh = push[c].fresh
        /\ push'[c].known = push[c].known
    BY <2>1, BecomeShape DEF Inv, Working
  <2>3. OnlyWrite(c) /\ write'[c].phase = "filter" /\ write'[c].ids = before
    <3>1. before \in SUBSET SourceIds
      BY FreshIds DEF Inv
    <3> QED BY <2>1, <3>1, BeginShape, ApiWriter DEF Inv
  <2>4. Writing(c)'
    BY <1>1, <1>2, <2>2, <2>3 DEF Writing, driverVars
  <2> QED BY <1>1, <2>2, <2>3, <2>4, CarryOn DEF Working
<1> QED BY <1>4, <1>5

\* It is written, or all that is to be written is.
LEMMA WrittenInv ==
  ASSUME Inv, NEW c \in Connections, WrittenBeforeCompletion(c) \/ RestWritten(c) PROVE Inv'
<1>1. /\ write' = [write EXCEPT ![c] = NoWrite] /\ write[c].phase = "done"
      /\ UNCHANGED <<driverVars, gate, memory, log, cursor, run, api>>
      /\ \/ push[c].phase = "before" /\ Become(c, "complete")
         \/ push[c].phase = "rest" /\ Become(c, "answer")
  BY DEF WrittenBeforeCompletion, RestWritten, Written
<1>2. OnlyPush(c) /\ push'[c].phase = (IF push[c].phase = "before" THEN "complete" ELSE "answer")
      /\ push'[c].batch = push[c].batch /\ push'[c].fresh = push[c].fresh
      /\ push'[c].known = push[c].known
  BY <1>1, BecomeShape DEF Inv, Working
<1>3. OnlyWrite(c) /\ write'[c] = NoWrite
  BY <1>1, EndShape, ApiWriter DEF Inv
<1>4. Writing(c)
  BY DEF Inv, PushInv
<1>5. Writing(c)'
  BY <1>1, <1>2, <1>3, <1>4 DEF Writing, NoWrite, driverVars, IsStored
<1>6. push'[c].phase = "answer" => \A e \in push[c].fresh : IsStored(e)
  BY <1>1, <1>2, <1>4 DEF Writing
<1> QED BY <1>1, <1>2, <1>3, <1>5, <1>6, CarryOn DEF Working, NoWrite

\* A write of its own goes on.
LEMMA FilterInv == ASSUME Inv, NEW c \in Connections, FilterNew(c) PROVE Inv'
<1> DEFINE new == {e \in write[c].ids : ~IsStored(e)}
<1>1. /\ write[c].phase = "filter"
      /\ write' = [write EXCEPT ![c] = [@ EXCEPT !.ids = new,
                     !.phase = IF new = {} THEN "done" ELSE "allocate"]]
      /\ UNCHANGED <<driverVars, push, gate, memory, log, cursor, run, api>>
  BY DEF FilterNew, objectVars
<1>2. c \in Writers /\ write \in [Writers -> Writes] /\ write[c] \in Writes
  BY ApiWriter DEF Inv, TypesInv
<1>3. OnlyWrite(c) /\ write'[c].ids = new /\ write'[c].phase \in {"done", "allocate"}
      /\ (write'[c].phase = "done" => new = {})
  <2>1. new \in SUBSET SourceIds
    BY <1>2 DEF Writes
  <2> HIDE DEF new
  <2> QED BY <1>1, <1>2, <2>1 DEF OnlyWrite, Writes
<1>4. OnlyPush(c)
  BY <1>1 DEF OnlyPush, Inv, TypesInv
<1>5. Writing(c) /\ push[c].phase \in {"before", "rest"}
  BY <1>1 DEF Inv, PushInv, Writing, NoWrite
<1>6. Writing(c)'
  BY <1>1, <1>3, <1>5 DEF Writing, driverVars, IsStored
<1> QED BY <1>1, <1>3, <1>4, <1>5, <1>6, CarryOn DEF Working
\* The run moves, and the batch goes on, unless the run went another way: then the API
\* settled it, for the driver's own end of the run would be in this batch.
LEMMA TransitionInv == ASSUME Inv, NEW c \in Connections, Transition(c) PROVE Inv'
<1> DEFINE fresh  == push[c].fresh
           wanted == Wanted(fresh)
           after  == IF run = "running" THEN wanted ELSE run
           rest   == IF wanted = "completed" THEN {Final} ELSE fresh
<1>1. /\ \/ push[c].phase = "transition" /\ wanted \in {"running", "failed"}
         \/ push[c].phase = "complete"
      /\ run' = after /\ AtWork(c)
      /\ UNCHANGED <<driverVars, gate, memory, log, cursor, api>>
  BY DEF Transition
<1>2. /\ Batched(c) /\ Carried(c) /\ Writing(c) /\ Receiving(c) /\ Deciding(c) /\ write[c] = NoWrite
      /\ TypesInv /\ RestInv /\ RunInv
  BY <1>1 DEF Inv, PushInv, RestInv, Writing
<1>3. /\ Final \in fresh => wanted = ending
      /\ wanted \in {"running", "failed", "completed"}
      /\ wanted # "running" => Final \in fresh
      /\ wanted = "running" => 1 \in fresh /\ push[c].phase = "transition"
      /\ wanted = "completed" <=> push[c].phase = "complete"
  BY <1>1, <1>2 DEF Wanted, Writing, TypesInv
<1>4. run' \in {"running", "completed", "failed", "cancelled"}
  BY <1>1, <1>2, <1>3 DEF TypesInv
<1>5. Final \in fresh => sent = Final
  BY <1>2, IngestionAssumption DEF Batched, Carried, TypesInv
<1>6. RunInv'
  BY <1>1, <1>2, <1>3, <1>5 DEF RunInv, driverVars
<1>7. CASE after = wanted
  <2>1. Become(c, "rest") /\ BeginWrite(c, rest)
    BY <1>7 DEF Transition
  <2>2. OnlyPush(c) /\ push'[c].phase = "rest"
        /\ push'[c].batch = push[c].batch /\ push'[c].fresh = push[c].fresh
        /\ push'[c].known = push[c].known
    BY <1>2, <2>1, BecomeShape DEF Working
  <2>3. rest \in SUBSET SourceIds /\ rest \subseteq fresh
    BY <1>2, <1>3, FreshIds
  <2>4. OnlyWrite(c) /\ write'[c].phase = "filter" /\ write'[c].ids = rest
    BY <1>2, <2>1, <2>3, BeginShape, ApiWriter
  <2>5. \A e \in fresh : IsStored(e) \/ e \in rest
    BY <1>1, <1>2, <1>3 DEF Writing, NoWrite
  <2>6. Writing(c)'
    BY <1>1, <2>2, <2>3, <2>4, <2>5 DEF Writing, IsStored
  <2>7. Batched(c)' /\ Carried(c)'
    BY <1>1, <1>2, <2>2, BatchedKept
       DEF driverVars, Carried, Waiting, Working, IsStored, Replaced
  <2>8. Receiving(c)' /\ Deciding(c)'
    BY <1>1, <1>2, <2>2 DEF Receiving, Deciding, IsStored
  <2>9. PushInv(c)'
    BY <2>4, <2>6, <2>7, <2>8, NoNumbers DEF PushInv
  <2>10. RestInv'
    BY <1>1, <1>2, <1>6, <2>4, ApiWriter
       DEF RestInv, OrderInv, NumberInv, AckInv, ApiInv, Numbered, OnlyWrite, IsStored, DriversOwn,
           Replaced, driverVars
  <2> QED BY <1>1, <1>2, <1>4, <2>2, <2>4, <2>9, <2>10, WorkStep DEF TypesInv
<1>8. CASE after # wanted
  <2>1. Become(c, "answer") /\ write' = write
    BY <1>8 DEF Transition
  <2>2. OnlyPush(c) /\ push'[c].phase = "answer"
        /\ push'[c].batch = push[c].batch /\ push'[c].fresh = push[c].fresh
        /\ push'[c].known = push[c].known
    BY <1>2, <2>1, BecomeShape DEF Working
  <2>3. OnlyWrite(c)
    BY <1>2, <2>1, SameWrite, ApiWriter
  <2>4. api # "idle" /\ run' = run
    BY <1>1, <1>2, <1>3, <1>8 DEF Deciding, RunInv
  <2>5. Writing(c)'
    BY <1>1, <1>2, <2>1, <2>2 DEF Writing, NoWrite
  <2>6. push[c].phase \in {"transition", "complete"} /\ write'[c].phase = "idle"
    BY <1>1, <1>2, <2>1 DEF NoWrite
  <2>7. Batched(c)' /\ Carried(c)'
    BY <1>1, <1>2, <2>2, <2>6, BatchedKept
       DEF driverVars, Carried, Waiting, Working, IsStored, Replaced
  <2>8. Receiving(c)' /\ Deciding(c)'
    BY <1>1, <2>4 DEF Receiving, Deciding
  <2>9. PushInv(c)'
    BY <2>5, <2>6, <2>7, <2>8, NoNumbers DEF PushInv
  <2> QED BY <1>1, <2>2, <2>3, <2>4, <2>6, <2>9, QuietStep
<1> QED BY <1>7, <1>8

-----------------------------------------------------------------------------
(* Numbers.                                                                *)

\* Sets of source ids are finite.
LEMMA CountIds ==
  ASSUME NEW ids \in SUBSET SourceIds
  PROVE  IsFiniteSet(ids) /\ Cardinality(ids) \in Nat
<1>1. IsFiniteSet(SourceIds)
  BY FS_Interval, IngestionAssumption DEF SourceIds
<1>2. IsFiniteSet(ids)
  BY <1>1, FS_Subset
<1> QED BY <1>2, FS_CardinalityType

\* An id is counted behind those before it, and before the end.
LEMMA CountBelow ==
  ASSUME NEW ids \in SUBSET SourceIds, NEW d \in ids, NEW e \in SourceIds, d < e
  PROVE  Cardinality({x \in ids : x < d}) < Cardinality({x \in ids : x < e})
<1> DEFINE S == {x \in ids : x < e}
           T == {x \in ids : x < d}
<1>1. ids \subseteq Nat /\ SourceIds \subseteq Nat
  BY DEF SourceIds
<1>2. T \in SUBSET S
  <2>1. \A x \in Nat : x < d => x < e
    BY <1>1
  <2> QED BY <1>1, <2>1
<1>3. d \in S /\ d \notin T
  <2>1. d \in Nat /\ ~(d < d)
    BY <1>1
  <2> QED BY <2>1
<1>4. S \in SUBSET SourceIds /\ T \in SUBSET SourceIds
  OBVIOUS
<1> HIDE DEF S, T
<1>5. IsFiniteSet(S) /\ Cardinality(S) \in Nat /\ Cardinality(T) \in Nat
  BY <1>4, CountIds
<1>6. Cardinality(T) <= Cardinality(S) /\ (Cardinality(S) = Cardinality(T) => S = T)
  BY <1>2, <1>5, FS_Subset
<1>7. Cardinality(T) < Cardinality(S)
  BY <1>3, <1>5, <1>6
<1> QED BY <1>7 DEF S, T

\* And before the number of ids.
LEMMA CountAll ==
  ASSUME NEW ids \in SUBSET SourceIds, NEW d \in ids
  PROVE  /\ Cardinality({x \in ids : x < d}) \in Nat
         /\ Cardinality({x \in ids : x < d}) < Cardinality(ids)
<1> DEFINE T == {x \in ids : x < d}
<1>1. d \notin T /\ T \in SUBSET ids
  BY DEF SourceIds
<1>2. T \in SUBSET SourceIds
  OBVIOUS
<1> HIDE DEF T
<1>3. IsFiniteSet(ids) /\ Cardinality(ids) \in Nat /\ Cardinality(T) \in Nat
  BY <1>2, CountIds
<1>4. Cardinality(T) <= Cardinality(ids) /\ (Cardinality(ids) = Cardinality(T) => ids = T)
  BY <1>1, <1>3, FS_Subset
<1>5. Cardinality(T) \in Nat /\ Cardinality(T) < Cardinality(ids)
  BY <1>1, <1>3, <1>4
<1> QED BY <1>5 DEF T
\* Numbers are allocated after all that is numbered.
LEMMA AllocateRest ==
  ASSUME Inv, NEW w \in Writers, Allocate(w)
  PROVE  /\ cursor' \in Nat /\ cursor <= cursor'
         /\ OnlyWrite(w) /\ write'[w].ids = write[w].ids /\ write'[w].phase = "insert"
         /\ Numbered(w)' /\ write'[w].first = cursor + 1
         /\ NumberInv'
         /\ \A v \in Writers \ {w} : Numbered(v) => Numbered(v)'
<1> DEFINE ids == write[w].ids
<1>1. /\ cursor' = cursor + Cardinality(ids)
      /\ write' = [write EXCEPT ![w] = [@ EXCEPT !.phase = "insert", !.first = cursor + 1]]
      /\ UNCHANGED <<log, ending, api>>
  BY DEF Allocate, driverVars
<1>2. write \in [Writers -> Writes] /\ write[w] \in Writes /\ cursor \in Nat
      /\ log \in [SourceIds -> Nat]
  BY DEF Inv, TypesInv
<1>3. \A v \in Writers : write[v].ids \in SUBSET SourceIds /\ write[v].first \in Nat
  BY <1>2 DEF Writes
<1>4. \A v \in Writers : Cardinality(write[v].ids) \in Nat
  BY <1>3, CountIds
<1>5. cursor' \in Nat /\ cursor <= cursor'
  BY <1>1, <1>2, <1>4
<1>6. OnlyWrite(w) /\ write'[w].ids = ids /\ write'[w].phase = "insert"
      /\ write'[w].first = cursor + 1
  <2>1. cursor + 1 \in Nat
    BY <1>2
  <2> QED BY <1>1, <1>2, <2>1 DEF OnlyWrite, Writes
<1>7. Numbered(w)'
  BY <1>1, <1>2, <1>4, <1>6 DEF Numbered
<1>8. NumberInv'
  <2>1. \A e \in SourceIds : log[e] \in Nat /\ log[e] <= cursor
    BY <1>2 DEF Inv, RestInv, NumberInv
  <2>2. \A e \in SourceIds : log[e] <= cursor'
    BY <1>2, <1>5, <2>1
  <2> QED BY <1>1, <2>2 DEF Inv, RestInv, NumberInv, DriversOwn, IsStored, Replaced
<1>9. \A v \in Writers \ {w} : Numbered(v) => Numbered(v)'
  BY <1>2, <1>3, <1>4, <1>5, <1>6 DEF Numbered, OnlyWrite
<1> QED BY <1>5, <1>6, <1>7, <1>8, <1>9

\* So do those of a push.
LEMMA AllocateInv == ASSUME Inv, NEW c \in Connections, Allocate(c) PROVE Inv'
<1>1. /\ write[c].phase = "allocate"
      /\ UNCHANGED <<driverVars, push, gate, memory, log, run, api>>
  BY DEF Allocate, objectVars
<1>2. /\ cursor' \in Nat /\ cursor <= cursor'
      /\ OnlyWrite(c) /\ write'[c].ids = write[c].ids /\ write'[c].phase = "insert"
      /\ Numbered(c)' /\ write'[c].first = cursor + 1
      /\ NumberInv' /\ Numbered(Api)'
  BY AllocateRest, ApiWriter DEF Inv, RestInv, ApiInv
<1>3. push[c].phase \in {"before", "rest"} /\ AtWork(c)
  BY <1>1 DEF Inv, PushInv, Writing, NoWrite, GateInv, Working
<1>4. OnlyPush(c)
  BY <1>1 DEF OnlyPush, Inv, TypesInv
<1>5. Latest(c)'
  <2> SUFFICES ASSUME NEW e \in DriversOwn PROVE log[e] < cursor + 1
    BY <1>1, <1>2 DEF Latest, DriversOwn, driverVars
  <2>1. e \in SourceIds
    BY FreshIds, IngestionAssumption DEF DriversOwn, Events, SourceIds
  <2>2. log[e] \in Nat /\ cursor \in Nat /\ log[e] <= cursor
    BY <2>1 DEF Inv, TypesInv, RestInv, NumberInv
  <2> QED BY <2>2
<1>6. Writing(c)'
  BY <1>1, <1>2, <1>3 DEF Inv, PushInv, Writing, driverVars, IsStored
<1>7. Batched(c)' /\ Carried(c)'
  BY <1>1, <1>3, BatchedKept DEF Inv, PushInv, driverVars, Carried, Working, IsStored, Replaced
<1>8. Receiving(c)' /\ Deciding(c)'
  BY <1>1 DEF Inv, PushInv, Receiving, Deciding, IsStored
<1>9. PushInv(c)'
  BY <1>2, <1>5, <1>6, <1>7, <1>8 DEF PushInv
<1>10. RestInv'
  BY <1>1, <1>2, ApiWriter
     DEF Inv, RestInv, OrderInv, AckInv, RunInv, ApiInv, OnlyWrite, IsStored, DriversOwn, Replaced,
         driverVars
<1>11. log' \in [SourceIds -> Nat] /\ run' \in {"running", "completed", "failed", "cancelled"}
  BY <1>1 DEF Inv, TypesInv
<1>12. push[c].phase # "idle" /\ push'[c].phase # "idle"
  BY <1>1, <1>3
<1> QED BY <1>1, <1>2, <1>3, <1>4, <1>9, <1>10, <1>11, <1>12, WorkStep

\* What inserting does to the log: it grows, within the numbers allocated, in the order of the ids.
LEMMA InsertShape ==
  ASSUME Inv, NEW w \in Writers, InsertRows(w)
  PROVE  /\ log' \in [SourceIds -> Nat]
         /\ \A e \in SourceIds : IsStored(e) => log'[e] = log[e]
         /\ \A e \in SourceIds : IsStored(e)' <=> IsStored(e) \/ e \in write[w].ids
         /\ \A e \in SourceIds : log'[e] <= cursor
         /\ \A e \in SourceIds : ~IsStored(e) /\ e \in write[w].ids => write[w].first <= log'[e]
         /\ \A d, e \in write[w].ids :
              d < e /\ ~IsStored(d) /\ ~IsStored(e) => log'[d] < log'[e]
<1> DEFINE ids == write[w].ids
           first == write[w].first
           Number(e) == first + Cardinality({x \in ids : x < e})
<1>1. /\ log' = [e \in SourceIds |-> IF e \in ids /\ ~IsStored(e) THEN Number(e) ELSE log[e]]
      /\ write[w].phase = "insert"
  BY DEF InsertRows
<1>2. /\ ids \in SUBSET SourceIds /\ first \in Nat /\ cursor \in Nat /\ log \in [SourceIds -> Nat]
  BY DEF Inv, TypesInv, Writes
<1>3. first >= 1 /\ first + Cardinality(ids) <= cursor + 1
  BY <1>1 DEF Inv, RestInv, ApiInv, PushInv, Numbered, Writers
<1>4. \A e \in ids : Number(e) \in Nat /\ first <= Number(e) /\ Number(e) <= cursor
  <2> TAKE e \in ids
  <2> DEFINE below == Cardinality({x \in ids : x < e})
  <2>1. below \in Nat /\ below < Cardinality(ids) /\ Cardinality(ids) \in Nat
    BY <1>2, CountAll, CountIds
  <2> HIDE DEF below
  <2>2. first + below \in Nat /\ first <= first + below /\ first + below <= cursor
    BY <1>2, <1>3, <2>1
  <2> QED BY <2>2 DEF below
<1>5. \A d, e \in ids : d < e => Number(d) < Number(e)
  <2> SUFFICES ASSUME NEW d \in ids, NEW e \in ids, d < e PROVE Number(d) < Number(e)
    OBVIOUS
  <2>1. Cardinality({x \in ids : x < d}) < Cardinality({x \in ids : x < e})
    BY <1>2, CountBelow
  <2>2. Cardinality({x \in ids : x < d}) \in Nat /\ Cardinality({x \in ids : x < e}) \in Nat
    BY <1>2, CountAll
  <2> QED BY <1>2, <2>1, <2>2
<1> HIDE DEF Number
<1>6. log' \in [SourceIds -> Nat]
  BY <1>1, <1>2, <1>4
<1>7. \A e \in SourceIds : IsStored(e) => log'[e] = log[e]
  BY <1>1
<1>8. \A e \in ids : ~IsStored(e) => log'[e] = Number(e)
  BY <1>1, <1>2
<1>9. \A e \in SourceIds : e \notin ids => log'[e] = log[e]
  BY <1>1
<1>10. \A e \in SourceIds : IsStored(e)' <=> IsStored(e) \/ e \in ids
  <2>1. \A e \in ids : Number(e) # 0
    BY <1>2, <1>3, <1>4
  <2> QED BY <1>7, <1>8, <1>9, <2>1 DEF IsStored
<1>11. \A e \in SourceIds : log'[e] <= cursor
  <2>1. \A e \in SourceIds : log[e] <= cursor
    BY DEF Inv, RestInv, NumberInv
  <2> QED BY <1>4, <1>7, <1>8, <1>9, <2>1
<1> QED BY <1>2, <1>4, <1>5, <1>6, <1>7, <1>8, <1>10, <1>11
\* The driver's events are source ids.
LEMMA OwnIds == DriversOwn \subseteq Events /\ Events \subseteq SourceIds
BY IngestionAssumption DEF DriversOwn, Events, SourceIds

\* What is timely and precedes an event that a push is writing is stored, or being written, or
\* has a receipt.
LEMMA Preceding ==
  ASSUME Inv, ~Replaced, NEW c \in Connections, write[c].phase = "insert",
         NEW d \in write[c].ids, NEW e \in Timely, e < d, e \notin acked
  PROVE  IsStored(e) \/ e \in write[c].ids
<1>1. Batched(c) /\ Carried(c) /\ Writing(c) /\ push[c].phase \in {"before", "rest"}
  BY DEF Inv, PushInv, Writing, NoWrite
<1>2. d \in push[c].fresh /\ d \in push[c].batch /\ push[c].fresh # {}
  BY <1>1 DEF Writing, Carried
<1>3. e \in push[c].batch /\ e \in Events
  BY <1>1, <1>2, TimelyEvents DEF Batched
<1>4. IsStored(e) \/ e \in push[c].fresh
  BY <1>1, <1>2, <1>3 DEF Carried
<1>5. e # Final
  <2>1. d \in Nat /\ d <= Final /\ e \in Nat
    BY <1>2, <1>3, FreshIds, IngestionAssumption DEF Inv, Events
  <2> QED BY <2>1, IngestionAssumption
<1> QED BY <1>1, <1>4, <1>5 DEF Writing

\* So the rows a push inserts come in the driver's order.
LEMMA InsertInv == ASSUME Inv, NEW c \in Connections, InsertRows(c) PROVE Inv'
<1> DEFINE ids == write[c].ids
<1>1. /\ write[c].phase = "insert" /\ write' = [write EXCEPT ![c].phase = "done"]
      /\ UNCHANGED <<driverVars, push, gate, memory, cursor, run, api>>
  BY DEF InsertRows, objectVars
<1>2. /\ log' \in [SourceIds -> Nat]
      /\ \A e \in SourceIds : IsStored(e) => log'[e] = log[e]
      /\ \A e \in SourceIds : IsStored(e)' <=> IsStored(e) \/ e \in ids
      /\ \A e \in SourceIds : log'[e] <= cursor
      /\ \A e \in SourceIds : ~IsStored(e) /\ e \in ids => write[c].first <= log'[e]
      /\ \A d, e \in ids : d < e /\ ~IsStored(d) /\ ~IsStored(e) => log'[d] < log'[e]
  BY InsertShape, ApiWriter
<1>3. OnlyWrite(c) /\ write'[c].phase = "done" /\ write'[c].ids = ids
  BY <1>1, ApiWriter DEF OnlyWrite, Inv, TypesInv, Writes
<1>4. push[c].phase \in {"before", "rest"} /\ AtWork(c) /\ Writing(c) /\ Latest(c) /\ Batched(c)
      /\ Carried(c) /\ Receiving(c) /\ Deciding(c)
  BY <1>1 DEF Inv, PushInv, Writing, NoWrite, GateInv, Working
<1>5. OnlyPush(c)
  BY <1>1 DEF OnlyPush, Inv, TypesInv
<1>6. ids \subseteq push[c].fresh /\ push[c].fresh \subseteq push[c].batch
      /\ push[c].batch \subseteq Events /\ push[c].known \subseteq Events
      /\ \A e \in ids : e \notin acked
  BY <1>4, FreshIds DEF Writing, Carried, Batched, Inv, Pushes
<1>18. Replaced => Replaced'
  <2>1. Final \in SourceIds
    BY TimelyEvents, OwnIds
  <2> QED BY <1>1, <1>2, <2>1, ReplacedStays DEF driverVars
<1>7. OrderInv'
  <2> SUFFICES ASSUME ~Replaced, NEW d \in Events, NEW e \in Timely, e < d, IsStored(d)',
                      e \notin acked
               PROVE  IsStored(e)'
    BY <1>1, <1>18 DEF OrderInv, driverVars
  <2>1. d \in SourceIds /\ e \in SourceIds
    BY OwnIds, TimelyEvents
  <2>2. CASE IsStored(d)
    BY <1>2, <2>1, <2>2 DEF Inv, RestInv, OrderInv
  <2>3. CASE d \in ids
    BY <1>1, <1>2, <2>1, <2>3, Preceding
  <2> QED BY <1>2, <2>1, <2>2, <2>3
<1>8. NumberInv'
  <2> SUFFICES ASSUME ~Replaced, NEW d \in Timely \cap DriversOwn, NEW e \in DriversOwn, d < e,
                      IsStored(d)', IsStored(e)'
               PROVE  log'[d] < log'[e]
    BY <1>1, <1>2, <1>18 DEF NumberInv, DriversOwn, driverVars
  <2>1. d \in SourceIds /\ e \in SourceIds /\ d \in Events /\ e \in Events
    BY OwnIds
  <2>2. CASE IsStored(d) /\ IsStored(e)
    BY <1>2, <2>1, <2>2 DEF Inv, RestInv, NumberInv
  <2>3. CASE IsStored(d) /\ ~IsStored(e)
    <3>1. log'[d] = log[d] /\ log[d] < write[c].first /\ write[c].first <= log'[e]
      BY <1>1, <1>2, <1>4, <2>1, <2>3 DEF Latest
    <3>2. log'[d] \in Nat /\ log'[e] \in Nat /\ write[c].first \in Nat
      BY <1>2, <2>1, FreshIds DEF Inv, Writes
    <3> QED BY <3>1, <3>2
  <2>4. CASE ~IsStored(d) /\ IsStored(e)
    <3>1. d \in ids
      BY <1>2, <2>1, <2>4
    <3>2. d \in acked
      BY <2>1, <2>4 DEF Inv, RestInv, OrderInv
    <3> QED BY <1>6, <3>1, <3>2
  <2>5. CASE ~IsStored(d) /\ ~IsStored(e)
    BY <1>2, <2>1, <2>5
  <2> QED BY <2>2, <2>3, <2>4, <2>5
<1>9. AckInv'
  <2>1. acked \subseteq SourceIds
    BY OwnIds DEF Inv, TypesInv
  <2> QED BY <1>1, <1>2, <2>1 DEF Inv, RestInv, AckInv, driverVars
<1>10. RestInv'
  BY <1>1, <1>3, <1>7, <1>8, <1>9, ApiWriter
     DEF Inv, RestInv, RunInv, ApiInv, Numbered, OnlyWrite, DriversOwn, driverVars
<1>11. push[c].batch \subseteq SourceIds /\ push[c].known \subseteq SourceIds
       /\ push[c].fresh \subseteq SourceIds
  BY <1>6, OwnIds
<1>12. Writing(c)'
  BY <1>1, <1>2, <1>3, <1>4, <1>6, <1>11 DEF Writing, driverVars
<1>13. Batched(c)'
  BY <1>1, <1>4, BatchedKept DEF driverVars, Working
<1>14. Carried(c)' /\ Receiving(c)' /\ Deciding(c)'
  BY <1>1, <1>2, <1>4, <1>11, <1>18 DEF Carried, Receiving, Deciding
<1>15. PushInv(c)'
  BY <1>3, <1>12, <1>13, <1>14, NoNumbers DEF PushInv
<1>16. cursor' \in Nat /\ run' \in {"running", "completed", "failed", "cancelled"}
  BY <1>1 DEF Inv, TypesInv
<1>17. push[c].phase # "idle" /\ push'[c].phase # "idle"
  BY <1>1, <1>4
<1> QED BY <1>1, <1>2, <1>3, <1>4, <1>5, <1>10, <1>15, <1>16, <1>17, WorkStep

-----------------------------------------------------------------------------
(* Pushes that end, and the driver.                                        *)

\* A connection that pushes nothing.
LEMMA IdlePush ==
  ASSUME NEW c \in Connections, push'[c] = NoPush, write'[c] = NoWrite
  PROVE  PushInv(c)'
<1> USE DEF NoPush, NoWrite
<1>1. Batched(c)' /\ Carried(c)' /\ Writing(c)'
  BY DEF Batched, Carried, Writing, Waiting
<1>2. Receiving(c)' /\ Deciding(c)' /\ Numbered(c)' /\ Latest(c)'
  BY DEF Receiving, Deciding, Numbered, Latest
<1> QED BY <1>1, <1>2 DEF PushInv

\* It stays so whatever others do.
LEMMA IdleKept ==
  ASSUME NEW d \in Connections, PushInv(d), push[d].phase = "idle",
         push'[d] = push[d], write'[d] = write[d]
  PROVE  PushInv(d)'
<1>1. push[d].batch = {} /\ push[d].fresh = {} /\ push[d].known = {} /\ write[d] = NoWrite
  BY DEF PushInv, Batched, Carried, Writing, Waiting
<1>2. Batched(d)' /\ Carried(d)' /\ Writing(d)'
  BY <1>1 DEF Batched, Carried, Writing, NoWrite, Waiting
<1>3. Receiving(d)' /\ Deciding(d)' /\ Numbered(d)' /\ Latest(d)'
  BY <1>1 DEF Receiving, Deciding, Numbered, Latest, NoWrite
<1> QED BY <1>2, <1>3 DEF PushInv

\* When the driver's own connection works, no other push is in the gate.
LEMMA OnlyConnection ==
  ASSUME GateInv, TypesInv, AtWork(connection), NEW d \in Connections, d # connection
  PROVE  push[d].phase = "idle"
<1> SUFFICES ASSUME InGate(d) PROVE FALSE
  BY DEF GateInv
<1>1. PICK i \in 1 .. Len(gate) : gate[i] = d
  BY DEF InGate
<1>2. /\ gate[1] = connection /\ 1 \in 1 .. Len(gate) /\ gate \in Seq(Connections)
  BY <1>1 DEF GateInv, AtWork
<1>3. i # 1 /\ gate[1] < gate[i] /\ gate[i] <= connection
  BY <1>1, <1>2 DEF GateInv
<1>4. d \in Nat /\ connection \in Nat
  BY DEF TypesInv, Connections
<1> QED BY <1>1, <1>2, <1>3, <1>4

\* A push ends at the head of the gate.
LEMMA EndStep ==
  ASSUME Inv, NEW c \in Connections, AtWork(c), EndPush(c),
         OnlyWrite(c), write'[c] = NoWrite,
         UNCHANGED <<ending, emitted, sent, connection, log, cursor, run, api>>,
         acked \subseteq acked', acked' \subseteq Events, memory' \subseteq acked',
         AckInv',
         acked' = acked \/ c = connection
  PROVE  Inv'
<1>1. push' = [push EXCEPT ![c] = NoPush] /\ gate' = Tail(gate)
  BY DEF EndPush
<1>2. NoPush \in Pushes
  BY DEF NoPush, Pushes, Waiting
<1>3. OnlyPush(c) /\ push'[c] = NoPush
  BY <1>1, <1>2 DEF OnlyPush, Inv, TypesInv
<1>4. TypesInv'
  BY <1>3 DEF Inv, TypesInv, OnlyPush, OnlyWrite
<1>5. GateInv'
  BY <1>1, <1>3, GateLeaves DEF Inv, NoPush
<1>6. RestInv'
  <2>1. OrderInv'
    BY DEF Inv, RestInv, OrderInv, IsStored, Replaced
  <2>2. NumberInv' /\ RunInv'
    BY DEF Inv, RestInv, NumberInv, RunInv, IsStored, DriversOwn, Replaced
  <2>3. ApiInv'
    BY ApiWriter DEF Inv, RestInv, ApiInv, Numbered, OnlyWrite, DriversOwn
  <2> QED BY <2>1, <2>2, <2>3 DEF RestInv
<1>7. \A d \in Connections : PushInv(d)'
  <2> TAKE d \in Connections
  <2>1. CASE d = c
    BY <1>3, <2>1, IdlePush
  <2>2. CASE d # c
    <3>1. push'[d] = push[d] /\ write'[d] = write[d] /\ push[d].phase \in Waiting
      BY <1>3, <2>2, OthersWait DEF OnlyPush, OnlyWrite, Writers, Inv
    <3>2. CASE acked' = acked
      BY <3>1, <3>2, WaitingKept DEF Inv
    <3>3. CASE c = connection
      <4>1. push[d].phase = "idle"
        BY <2>2, <3>3, OnlyConnection DEF Inv
      <4> QED BY <3>1, <4>1, IdleKept DEF Inv
    <3> QED BY <3>2, <3>3
  <2> QED BY <2>1, <2>2
<1> QED BY <1>4, <1>5, <1>6, <1>7 DEF Inv
\* It ends without an answer: the connection was replaced, the session is closed, or it failed.
LEMMA DropInv ==
  ASSUME Inv, NEW c \in Connections, Superseded(c) \/ NotWritable(c) \/ FailPush(c) PROVE Inv'
<1>1. Writing(c) /\ (push[c].phase \in Working => AtWork(c)) /\ c \in Writers
  BY ApiWriter DEF Inv, PushInv, GateInv
<1>2. AtWork(c)
  BY <1>1 DEF Superseded, NotWritable, FailPush, Writing, NoWrite, Working
<1>3. write' = [write EXCEPT ![c] = NoWrite] \/ (write' = write /\ write[c] = NoWrite)
  BY <1>1 DEF Superseded, NotWritable, FailPush, Writing
<1>4. OnlyWrite(c) /\ write'[c] = NoWrite
  BY <1>1, <1>3, EndShape, SameWrite DEF Inv
<1>5. EndPush(c) /\ UNCHANGED <<driverVars, memory, log, cursor, run, api>>
  BY DEF Superseded, NotWritable, FailPush
<1>6. AckInv' /\ acked' \subseteq Events /\ memory' \subseteq acked'
  BY <1>5 DEF Inv, TypesInv, RestInv, AckInv, IsStored, driverVars
<1> QED BY <1>2, <1>4, <1>5, <1>6, EndStep DEF driverVars

\* What it acknowledges is stored, if the run is still the driver's.
LEMMA AnswerInv == ASSUME Inv, NEW c \in Connections, Answer(c) PROVE Inv'
<1> DEFINE accepted == push[c].known \cup push[c].fresh
<1>1. /\ push[c].phase = "answer" /\ c = connection /\ EndPush(c)
      /\ memory' = memory \cup accepted /\ acked' = acked \cup accepted
      /\ UNCHANGED <<ending, emitted, sent, connection, write, log, cursor, writable, run, api, faults>>
  BY DEF Answer
<1>2. AtWork(c) /\ write[c] = NoWrite /\ Receiving(c)
  BY <1>1 DEF Inv, GateInv, PushInv, Writing, Working
<1>3. OnlyWrite(c) /\ write'[c] = NoWrite
  BY <1>1, <1>2, SameWrite, ApiWriter DEF Inv
<1>4. accepted \subseteq Events /\ acked \subseteq Events /\ memory \subseteq acked
  BY DEF Inv, TypesInv, Pushes
<1>5. AckInv'
  BY <1>1, <1>2 DEF Inv, RestInv, AckInv, Receiving, IsStored
<1> QED BY <1>1, <1>2, <1>3, <1>4, <1>5, EndStep

\* The driver sends what it has no receipt for.
LEMMA SendInv == ASSUME Inv, Send PROVE Inv'
<1>1. /\ push[connection].phase = "idle" /\ gate' = Append(gate, connection)
      /\ UNCHANGED <<ending, emitted, acked, connection, memory, write, log, cursor, writable,
                     run, api, faults>>
  BY DEF Send
<1>2. PICK last \in Unacked :
        /\ \A e \in Unacked : e <= sent => e <= last
        /\ sent' = IF last > sent THEN last ELSE sent
        /\ push' = [push EXCEPT ![connection] =
                      [NoPush EXCEPT !.phase = "gated", !.batch = {e \in Unacked : e <= last}]]
  BY DEF Send
<1> DEFINE batch == {e \in Unacked : e <= last}
<1>3. Unacked \subseteq Events /\ connection \in Connections
      /\ \A e \in Events : e \in Unacked <=> e <= emitted /\ e \notin acked
  <2>1. emitted \in Nat /\ emitted <= Final /\ acked \subseteq Events /\ connection \in Connections
    BY DEF Inv, TypesInv
  <2>2. \A e \in 1 .. emitted : e \in 1 .. Final
    BY <2>1, IngestionAssumption
  <2>3. \A e \in 1 .. Final : e \in 1 .. emitted <=> e <= emitted
    BY <2>1, IngestionAssumption
  <2> QED BY <2>1, <2>2, <2>3 DEF Unacked, Events
<1>4. /\ last \in Nat /\ last <= emitted /\ last <= Final /\ sent \in Nat /\ emitted \in Nat
      /\ sent <= emitted /\ emitted <= Final /\ Final \in Nat
      /\ \A e \in Events : e \in Nat /\ e <= Final
  BY <1>3, IngestionAssumption DEF Inv, TypesInv, Events
<1>5. sent' \in Nat /\ sent <= sent' /\ last <= sent' /\ sent' <= emitted
  BY <1>2, <1>4
<1>6. batch \in SUBSET Events
  BY <1>3
<1> HIDE DEF batch
<1>7. /\ OnlyPush(connection) /\ push'[connection].phase = "gated"
      /\ push'[connection].batch = batch
      /\ push'[connection].fresh = {} /\ push'[connection].known = {}
  <2>1. push \in [Connections -> Pushes]
    BY DEF Inv, TypesInv
  <2> QED BY <1>2, <1>3, <1>6, <2>1 DEF OnlyPush, Pushes, NoPush, Waiting, batch
<1>8. TypesInv'
  BY <1>1, <1>5, <1>7 DEF Inv, TypesInv, OnlyPush
<1>9. GateInv'
  BY <1>1, <1>7, GateEntered DEF Inv
<1>10. RestInv'
  <2>1. RunInv'
    BY <1>1, <1>4, <1>5 DEF Inv, RestInv, RunInv
  <2> QED BY <1>1, <2>1 DEF Inv, RestInv, OrderInv, NumberInv, AckInv, ApiInv, Numbered, IsStored,
          DriversOwn, Replaced
<1>11. PushInv(connection)'
  <2>1. write[connection] = NoWrite
    BY <1>1, <1>3 DEF Inv, PushInv, Writing
  <2>2. Batched(connection)'
    <3>1. \A e \in batch : e <= sent' /\ e \notin acked
      BY <1>3, <1>4, <1>5 DEF batch
    <3>2. ASSUME NEW e \in batch, NEW d \in Events, d < e, d \notin acked PROVE d \in batch
      <4>1. e \in Events /\ e <= last /\ e \in Nat /\ d \in Nat
        BY <1>3, <1>4 DEF batch
      <4>2. d <= emitted /\ d <= last
        BY <1>4, <3>2, <4>1
      <4> QED BY <1>3, <3>2, <4>2 DEF batch
    <3>3. ASSUME NEW d \in Events, d <= sent', d \notin acked PROVE d \in batch
      <4>1. d \in Unacked
        BY <1>3, <1>4, <1>5, <3>3
      <4>2. d <= last
        BY <1>2, <1>4, <3>3, <4>1
      <4> QED BY <4>1, <4>2 DEF batch
    <3> QED BY <1>1, <1>7, <3>1, <3>2, <3>3 DEF Batched
  <2>3. Carried(connection)' /\ Writing(connection)'
    BY <1>1, <1>7, <2>1 DEF Carried, Writing, NoWrite, Waiting
  <2>4. Receiving(connection)' /\ Deciding(connection)' /\ Numbered(connection)' /\ Latest(connection)'
    BY <1>1, <1>7, <2>1 DEF Receiving, Deciding, Numbered, Latest, NoWrite
  <2> QED BY <2>2, <2>3, <2>4 DEF PushInv
<1>12. \A d \in Connections \ {connection} : PushInv(d)'
  <2> TAKE d \in Connections \ {connection}
  <2>1. push'[d] = push[d] /\ PushInv(d)
    BY <1>7 DEF OnlyPush, Inv
  <2>2. push[d].batch \subseteq Events
    BY FreshIds DEF Inv
  <2>3. Batched(d)'
    BY <1>1, <1>4, <1>5, <2>1, <2>2 DEF PushInv, Batched
  <2>4. Carried(d)' /\ Writing(d)'
    BY <1>1, <2>1 DEF PushInv, Carried, Writing, IsStored, Replaced
  <2>5. Receiving(d)' /\ Deciding(d)' /\ Numbered(d)' /\ Latest(d)'
    BY <1>1, <2>1 DEF PushInv, Receiving, Deciding, Numbered, Latest, IsStored, DriversOwn
  <2> QED BY <2>3, <2>4, <2>5 DEF PushInv
<1>13. \A d \in Connections : PushInv(d)'
  <2> TAKE d \in Connections
  <2>1. CASE d = connection
    BY <1>1, <1>11, <2>1
  <2>2. CASE d # connection
    BY <1>12, <2>2
  <2> QED BY <2>1, <2>2
<1> QED BY <1>8, <1>9, <1>10, <1>13 DEF Inv
\* The driver makes an event, or connects again: what is in the gate is of older connections.
LEMMA DriverInv == ASSUME Inv, Emit \/ Reconnect \/ CloseSession PROVE Inv'
<1>1. UNCHANGED <<ending, sent, acked, push, gate, memory, write, log, cursor, run, api>>
  BY DEF Emit, Reconnect, CloseSession, driverVars, objectVars
<1>2. connection \in Nat /\ connection' \in Connections /\ connection <= connection'
  <2>1. connection \in Connections
    BY DEF Inv, TypesInv
  <2>2. connection \in Nat /\ connection <= MaxConnections /\ connection >= 1
    BY <2>1, IngestionAssumption DEF Connections
  <2>3. connection' = connection \/ (connection' = connection + 1 /\ connection < MaxConnections)
    BY DEF Emit, Reconnect, CloseSession, driverVars
  <2> QED BY <2>1, <2>2, <2>3, IngestionAssumption DEF Connections
<1>3. TypesInv'
  <2>1. emitted' \in Nat /\ sent <= emitted' /\ emitted' <= Final
    BY IngestionAssumption DEF Emit, Reconnect, CloseSession, driverVars, Inv, TypesInv
  <2> QED BY <1>1, <1>2, <2>1 DEF Inv, TypesInv
<1>4. GateInv'
  <2>1. \A i \in 1 .. Len(gate) : gate[i] <= connection'
    <3> TAKE i \in 1 .. Len(gate)
    <3>1. gate[i] \in Connections /\ gate[i] <= connection
      BY DEF Inv, GateInv
    <3>2. gate[i] \in Nat /\ connection' \in Nat
      BY <1>2, <3>1 DEF Connections
    <3> QED BY <1>2, <3>1, <3>2
  <2> QED BY <1>1, <2>1 DEF Inv, GateInv, InGate, AtWork
<1>5. RestInv'
  BY <1>1, RestKept DEF Inv
<1>6. \A d \in Connections : PushInv(d)'
  <2> TAKE d \in Connections
  <2>1. PushInv(d)
    BY DEF Inv
  <2>2. ASSUME d = connection', push[d].phase = "gated" PROVE d = connection
    <3>1. PICK i \in 1 .. Len(gate) : gate[i] = d
      BY <2>2 DEF Inv, GateInv, InGate
    <3>2. d <= connection /\ d \in Nat
      BY <3>1 DEF Inv, GateInv, Connections
    <3> QED BY <1>2, <2>2, <3>2
  <2>3. Batched(d)'
    BY <1>1, <2>1, <2>2 DEF PushInv, Batched
  <2>4. Carried(d)' /\ Writing(d)'
    BY <1>1, <2>1 DEF PushInv, Carried, Writing, IsStored, Replaced
  <2>5. Receiving(d)' /\ Deciding(d)' /\ Numbered(d)' /\ Latest(d)'
    BY <1>1, <2>1 DEF PushInv, Receiving, Deciding, Numbered, Latest, IsStored, DriversOwn
  <2> QED BY <2>3, <2>4, <2>5 DEF PushInv
<1> QED BY <1>3, <1>4, <1>5, <1>6 DEF Inv

\* The object is evicted: no push is left, and the gate is empty.
LEMMA EvictInv == ASSUME Inv, Evict PROVE Inv'
<1>1. /\ connection' = connection + 1 /\ connection < MaxConnections /\ gate' = <<>> /\ memory' = {}
      /\ push' = [c \in Connections |-> NoPush]
      /\ write' = [w \in Writers |-> IF w = Api THEN write[w] ELSE NoWrite]
      /\ UNCHANGED <<ending, emitted, sent, acked, log, cursor, writable, run, api>>
  BY DEF Evict
<1>2. \A c \in Connections : push'[c] = NoPush /\ write'[c] = NoWrite
  BY <1>1, ApiWriter
<1>3. write'[Api] = write[Api]
  BY <1>1 DEF Writers
<1>4. TypesInv'
  <2>1. connection' \in Connections
    <3>1. connection \in Connections
      BY DEF Inv, TypesInv
    <3> QED BY <1>1, <3>1, IngestionAssumption DEF Connections
  <2>2. NoPush \in Pushes /\ NoWrite \in Writes
    BY DEF NoPush, NoWrite, Pushes, Writes, Waiting
  <2>3. push' \in [Connections -> Pushes] /\ write' \in [Writers -> Writes]
    BY <1>1, <2>2 DEF Inv, TypesInv
  <2> QED BY <1>1, <2>1, <2>3 DEF Inv, TypesInv
<1>5. GateInv'
  <2>1. \A c \in Connections : push'[c].phase = "idle"
    BY <1>2 DEF NoPush
  <2>2. Len(gate') = 0 /\ gate' \in Seq(Connections)
    BY <1>1
  <2> QED BY <2>1, <2>2 DEF GateInv, InGate, Working
<1>6. RestInv'
  BY <1>1, <1>3, RestKept DEF Inv
<1>7. \A c \in Connections : PushInv(c)'
  BY <1>2, IdlePush
<1> QED BY <1>4, <1>5, <1>6, <1>7 DEF Inv

-----------------------------------------------------------------------------
(* The API.                                                                *)

\* A step of the API leaves the pushes alone, and the driver's events in the log.
LEMMA ApiStepInv ==
  ASSUME Inv, UNCHANGED <<driverVars, push, gate, memory>>, OnlyWrite(Api),
         log' \in [SourceIds -> Nat], cursor' \in Nat, cursor <= cursor',
         run' \in {"running", "completed", "failed", "cancelled"},
         api' \in {"idle", "settled", "done"},
         \A e \in SourceIds : IsStored(e) => IsStored(e)',
         \A e \in DriversOwn : log'[e] = log[e],
         api' = "idle" => api = "idle" /\ run' = run /\ log' = log,
         NumberInv', RunInv', ApiInv'
  PROVE  Inv'
<1>1. TypesInv'
  BY DEF Inv, TypesInv, OnlyWrite, driverVars
<1>2. GateInv'
  BY DEF Inv, GateInv, InGate, AtWork, driverVars
<1>5. Replaced => Replaced'
  BY TimelyEvents, OwnIds, ReplacedStays DEF driverVars
<1>3. OrderInv' /\ AckInv'
  <2>1. acked \subseteq SourceIds
    BY OwnIds DEF Inv, TypesInv
  <2>2. AckInv'
    BY <2>1 DEF Inv, RestInv, AckInv, driverVars
  <2>3. OrderInv'
    <3> SUFFICES ASSUME ~Replaced', NEW d \in Events, NEW e \in Timely, e < d, IsStored(d)',
                        e \notin acked
                 PROVE  IsStored(e)'
      BY DEF OrderInv, driverVars
    <3>1. IsStored(d)
      <4>1. d \notin DriversOwn => log' = log
        BY DEF IsStored, DriversOwn, Replaced, driverVars
      <4> QED BY <4>1 DEF IsStored
    <3>2. IsStored(e)
      BY <1>5, <3>1 DEF Inv, RestInv, OrderInv
    <3> QED BY <3>2, OwnIds, TimelyEvents
  <2> QED BY <2>2, <2>3
<1>4. \A d \in Connections : PushInv(d)'
  <2> TAKE d \in Connections
  <2>1. PushInv(d) /\ push'[d] = push[d] /\ write'[d] = write[d]
    BY ApiWriter DEF Inv, OnlyWrite
  <2>2. push[d].batch \subseteq SourceIds /\ push[d].fresh \subseteq SourceIds
        /\ push[d].known \subseteq SourceIds /\ write[d].ids \subseteq SourceIds
    BY OwnIds, FreshIds DEF Inv, Pushes, Writes
  <2>3. Batched(d)'
    BY <2>1 DEF PushInv, Batched, driverVars
  <2>4. Carried(d)' /\ Writing(d)'
    BY <1>5, <2>1, <2>2 DEF PushInv, Carried, Writing, driverVars
  <2>5. Receiving(d)' /\ Deciding(d)'
    BY <2>1, <2>2 DEF PushInv, Receiving, Deciding
  <2>6. Latest(d)'
    BY <2>1 DEF PushInv, Latest, DriversOwn, driverVars
  <2>7. Numbered(d)'
    <3>1. Cardinality(write[d].ids) \in Nat /\ write[d].first \in Nat /\ cursor \in Nat
      BY <2>2, CountIds, FreshIds DEF Inv, TypesInv, Writes
    <3> QED BY <2>1, <3>1 DEF PushInv, Numbered
  <2> QED BY <2>3, <2>4, <2>5, <2>6, <2>7 DEF PushInv
<1> QED BY <1>1, <1>2, <1>3, <1>4 DEF Inv, RestInv

\* Its event is not one of the driver's own.
LEMMA ApiEventForeign ==
  ASSUME TypesInv, NEW outcome \in {"failed", "cancelled"}
  PROVE  ApiEvent(outcome) \in SourceIds \ DriversOwn
BY IngestionAssumption DEF TypesInv, ApiEvent, SourceIds, DriversOwn, Events

\* It settles the run, and its execution ends or is lost.
LEMMA SettleInv ==
  ASSUME Inv, (\E outcome \in {"failed", "cancelled"} : SettleRun(outcome)) \/ ApiReturns \/ LoseApi
  PROVE  Inv'
<1>1. /\ UNCHANGED <<driverVars, push, gate, memory, log, cursor>>
      /\ run' \in {"running", "completed", "failed", "cancelled"}
  BY DEF SettleRun, ApiReturns, LoseApi, objectVars, Inv, TypesInv
<1>2. /\ api' \in {"settled", "done"} /\ OnlyWrite(Api)
      /\ write'[Api].ids \cap DriversOwn = {}
      /\ write'[Api].phase # "insert"
      /\ write'[Api].phase # "idle" => api' = "settled"
  <2>1. ASSUME NEW outcome \in {"failed", "cancelled"}, SettleRun(outcome)
        PROVE  /\ api' = "settled" /\ OnlyWrite(Api) /\ write'[Api].phase = "filter"
               /\ write'[Api].ids = {ApiEvent(outcome)}
    <3>1. {ApiEvent(outcome)} \in SUBSET SourceIds
      BY ApiEventForeign DEF Inv
    <3> QED BY <2>1, <3>1, BeginShape DEF SettleRun, Writers, Inv
  <2>2. ASSUME ApiReturns \/ LoseApi
        PROVE  api' = "done" /\ OnlyWrite(Api) /\ write'[Api] = NoWrite
    BY <2>2, EndShape DEF ApiReturns, LoseApi, Writers, Inv
  <2>3. CASE ApiReturns \/ LoseApi
    BY <2>2, <2>3 DEF NoWrite
  <2> QED BY <2>1, <2>3, ApiEventForeign DEF Inv
<1>3. RunInv'
  <2>1. api # "idle" => run # "running"
    BY DEF Inv, RestInv, RunInv
  <2>2. run' # "running"
    BY <2>1 DEF SettleRun, ApiReturns, LoseApi
  <2> QED BY <1>2, <2>2 DEF RunInv
<1>4. NumberInv'
  BY <1>1, <1>2 DEF Inv, RestInv, NumberInv, DriversOwn, IsStored, Replaced, driverVars
<1>5. ApiInv'
  BY <1>1, <1>2 DEF ApiInv, Numbered, DriversOwn, driverVars
<1>6. /\ cursor' \in Nat /\ cursor <= cursor' /\ log' \in [SourceIds -> Nat]
      /\ \A e \in SourceIds : IsStored(e) => IsStored(e)'
  BY <1>1 DEF Inv, TypesInv, IsStored
<1>7. api' \in {"idle", "settled", "done"} /\ api' # "idle"
  BY <1>2
<1> QED BY <1>1, <1>2, <1>3, <1>4, <1>5, <1>6, <1>7, ApiStepInv

\* Its own write goes on, in numbers of its own.
LEMMA ApiWriteInv ==
  ASSUME Inv, FilterNew(Api) \/ Allocate(Api) \/ InsertRows(Api)
  PROVE  Inv'
<1> USE DEF objectVars
<1>1. /\ UNCHANGED <<driverVars, push, gate, memory, run, api>>
      /\ write[Api].phase # "idle" /\ Api \in Writers
  BY DEF FilterNew, Allocate, InsertRows, Writers
<1>2. /\ api = "settled" /\ write[Api].ids \cap DriversOwn = {} /\ write[Api] \in Writes
      /\ write \in [Writers -> Writes] /\ cursor \in Nat
  BY <1>1 DEF Inv, RestInv, ApiInv, TypesInv
<1>3. RunInv' /\ run' \in {"running", "completed", "failed", "cancelled"}
  BY <1>1 DEF Inv, RestInv, RunInv, TypesInv, driverVars
<1>4. CASE FilterNew(Api)
  <2> DEFINE new == {e \in write[Api].ids : ~IsStored(e)}
  <2>1. /\ write' = [write EXCEPT ![Api] = [@ EXCEPT !.ids = new,
                       !.phase = IF new = {} THEN "done" ELSE "allocate"]]
        /\ log' = log /\ cursor' = cursor
    BY <1>4 DEF FilterNew
  <2>2. new \in SUBSET SourceIds /\ new \subseteq write[Api].ids
    BY <1>2 DEF Writes
  <2> HIDE DEF new
  <2>3. OnlyWrite(Api) /\ write'[Api].ids = new /\ write'[Api].phase # "insert"
    BY <1>1, <1>2, <2>1, <2>2 DEF OnlyWrite, Writes
  <2>4. ApiInv' /\ NumberInv'
    BY <1>1, <1>2, <2>1, <2>2, <2>3
       DEF ApiInv, Numbered, Inv, RestInv, NumberInv, DriversOwn, IsStored, Replaced, driverVars
  <2>5. /\ cursor' \in Nat /\ cursor <= cursor' /\ log' \in [SourceIds -> Nat]
        /\ \A e \in SourceIds : IsStored(e) => IsStored(e)'
    BY <2>1 DEF Inv, TypesInv, IsStored
  <2> QED BY <1>1, <1>2, <1>3, <2>1, <2>3, <2>4, <2>5, ApiStepInv
<1>5. CASE Allocate(Api)
  <2>1. /\ cursor' \in Nat /\ cursor <= cursor' /\ OnlyWrite(Api)
        /\ write'[Api].ids = write[Api].ids /\ Numbered(Api)' /\ NumberInv'
    BY <1>1, <1>5, AllocateRest
  <2>2. ApiInv'
    BY <1>1, <1>2, <2>1 DEF ApiInv, DriversOwn, driverVars
  <2>3. /\ log' = log /\ log' \in [SourceIds -> Nat]
        /\ \A e \in SourceIds : IsStored(e) => IsStored(e)'
    BY <1>5 DEF Allocate, Inv, TypesInv, IsStored
  <2> QED BY <1>1, <1>2, <1>3, <2>1, <2>2, <2>3, ApiStepInv
<1>6. CASE InsertRows(Api)
  <2>1. /\ log' \in [SourceIds -> Nat]
        /\ \A e \in SourceIds : IsStored(e) => log'[e] = log[e]
        /\ \A e \in SourceIds : IsStored(e)' <=> IsStored(e) \/ e \in write[Api].ids
        /\ \A e \in SourceIds : log'[e] <= cursor
    BY <1>1, <1>6, InsertShape
  <2>2. cursor' = cursor /\ write' = [write EXCEPT ![Api].phase = "done"]
    BY <1>6 DEF InsertRows
  <2>3. OnlyWrite(Api) /\ write'[Api].phase = "done" /\ write'[Api].ids = write[Api].ids
    BY <1>1, <1>2, <2>2 DEF OnlyWrite, Writes
  <2>4. \A e \in DriversOwn : log'[e] = log[e]
    <3> TAKE e \in DriversOwn
    <3>1. e \in SourceIds /\ e \notin write[Api].ids
      BY <1>2, OwnIds
    <3> QED BY <1>6, <3>1 DEF InsertRows
  <2>5. NumberInv'
    <3>1. Replaced => Replaced'
      BY <1>1, <2>1, TimelyEvents, OwnIds, ReplacedStays DEF driverVars
    <3> QED BY <1>1, <2>1, <2>2, <2>4, <3>1
            DEF NumberInv, Inv, RestInv, DriversOwn, IsStored, driverVars
  <2>6. ApiInv'
    BY <1>1, <1>2, <2>3 DEF ApiInv, Numbered, DriversOwn, driverVars
  <2>7. cursor' \in Nat /\ cursor <= cursor' /\ \A e \in SourceIds : IsStored(e) => IsStored(e)'
    BY <1>2, <2>1, <2>2
  <2> QED BY <1>1, <1>2, <1>3, <2>1, <2>3, <2>4, <2>5, <2>6, <2>7, ApiStepInv
<1> QED BY <1>4, <1>5, <1>6
-----------------------------------------------------------------------------
(* The invariant.                                                          *)

\* The initial state.
LEMMA InitInv == ASSUME Init PROVE Inv
<1>1. NoPush \in Pushes /\ NoWrite \in Writes
  BY DEF NoPush, NoWrite, Pushes, Writes, Waiting
<1>2. TypesInv
  BY <1>1, IngestionAssumption DEF Init, TypesInv, Connections
<1>3. GateInv
  <2>1. Len(gate) = 0 /\ gate \in Seq(Connections)
    BY DEF Init
  <2> QED BY <2>1 DEF Init, GateInv, InGate, NoPush, Working
<1>4. RestInv
  <2>1. \A e \in SourceIds : ~IsStored(e) /\ log[e] = 0
    BY DEF Init, IsStored
  <2>2. OrderInv /\ NumberInv
    BY <2>1, OwnIds, TimelyEvents DEF Init, OrderInv, NumberInv
  <2>3. write[Api] = NoWrite
    BY DEF Init, Writers
  <2>4. ApiInv
    BY <2>3 DEF ApiInv, Numbered, NoWrite
  <2> QED BY <2>2, <2>4 DEF Init, RestInv, AckInv, RunInv
<1>5. ASSUME NEW c \in Connections PROVE PushInv(c)
  <2>1. push[c] = NoPush /\ write[c] = NoWrite
    BY ApiWriter DEF Init
  <2> USE DEF NoPush, NoWrite
  <2>2. Batched(c) /\ Carried(c) /\ Writing(c)
    BY <2>1 DEF Batched, Carried, Writing, Waiting
  <2>3. Receiving(c) /\ Deciding(c) /\ Numbered(c) /\ Latest(c)
    BY <2>1 DEF Receiving, Deciding, Numbered, Latest
  <2> QED BY <2>2, <2>3 DEF PushInv
<1> QED BY <1>2, <1>3, <1>4, <1>5 DEF Inv

\* Every step keeps the invariant.
LEMMA NextInv == ASSUME Inv, [Next]_vars PROVE Inv'
<1>1. CASE UNCHANGED vars
  <2>1. UNCHANGED <<ending, emitted, sent, acked, connection, push, gate, memory, write, log, cursor,
                    run, api>>
    BY <1>1 DEF vars, driverVars, objectVars
  <2>2. TypesInv' /\ GateInv' /\ RestInv'
    BY <2>1, RestKept DEF Inv, TypesInv, GateInv, InGate, AtWork
  <2>3. \A d \in Connections : PushInv(d)'
    BY <2>1 DEF Inv, PushInv, Batched, Carried, Writing, Receiving, Deciding, Numbered, Latest,
       IsStored, DriversOwn, Replaced
  <2> QED BY <2>2, <2>3 DEF Inv
<1>2. ASSUME NEW c \in Connections, PushStep(c) \/ FailPush(c) PROVE Inv'
  BY <1>2, ReadInv, SkipInv, BeforeInv, WrittenInv, TransitionInv, AnswerInv, DropInv, FilterInv,
     AllocateInv, InsertInv DEF PushStep, WriteStep
<1>3. CASE Emit \/ Send \/ Reconnect \/ Evict \/ CloseSession
  BY <1>3, DriverInv, SendInv, EvictInv
<1>4. CASE ApiStep \/ LoseApi \/ \E outcome \in {"failed", "cancelled"} : SettleRun(outcome)
  BY <1>4, SettleInv, ApiWriteInv DEF ApiStep, WriteStep
<1> QED BY <1>1, <1>2, <1>3, <1>4 DEF Next

\* The invariant holds of every behaviour.
LEMMA Invariance == Spec => []Inv
BY InitInv, NextInv, PTL DEF Spec

-----------------------------------------------------------------------------
(* The refinement.                                                         *)

\* The driver's events in the log.
Own == {e \in DriversOwn : IsStored(e)}
Position == [e \in Own |-> log[e]]

\* What the log is to the driver does not change where its events stay as they are.
LEMMA SamePosition ==
  ASSUME ending' = ending, \A e \in DriversOwn : log'[e] = log[e]
  PROVE  Position' = Position
<1>1. DriversOwn' = DriversOwn
  BY DEF DriversOwn
<1>2. Own' = Own
  BY <1>1 DEF Own, IsStored
<1>3. \A e \in Own : log'[e] = log[e]
  BY DEF Own
<1> QED BY <1>2, <1>3 DEF Position

\* Rows that a push inserts extend the log.
LEMMA InsertExtends ==
  ASSUME Inv, Inv', NEW c \in Connections, InsertRows(c)
  PROVE  Log!Extend
<1>1. /\ write[c].phase = "insert" /\ UNCHANGED <<ending, acked, run, api>>
  BY DEF InsertRows, driverVars
<1>2. /\ \A e \in SourceIds : IsStored(e) => log'[e] = log[e]
      /\ \A e \in SourceIds : IsStored(e)' <=> IsStored(e) \/ e \in write[c].ids
      /\ \A e \in SourceIds : ~IsStored(e) /\ e \in write[c].ids => write[c].first <= log'[e]
      /\ log' \in [SourceIds -> Nat]
  BY InsertShape, ApiWriter
<1>3. DriversOwn' = DriversOwn /\ DriversOwn \subseteq SourceIds
  BY <1>1, OwnIds DEF DriversOwn
<1>4. Own \subseteq Own' /\ \A d \in Own : log'[d] = log[d]
  BY <1>2, <1>3 DEF Own
<1>5. \A d \in Own, e \in Own' \ Own : log[d] < log'[e]
  <2> SUFFICES ASSUME NEW d \in Own, NEW e \in Own' \ Own PROVE log[d] < log'[e]
    OBVIOUS
  <2>1. d \in DriversOwn /\ e \in DriversOwn /\ ~IsStored(e) /\ e \in write[c].ids
    BY <1>2, <1>3 DEF Own
  <2>2. log[d] < write[c].first /\ write[c].first <= log'[e]
    BY <1>1, <1>2, <1>3, <2>1 DEF Inv, PushInv, Latest
  <2>3. log[d] \in Nat /\ log'[e] \in Nat /\ write[c].first \in Nat
    BY <1>2, <1>3, <2>1, FreshIds DEF Inv, TypesInv, Writes
  <2> QED BY <2>2, <2>3
<1>6. ~Replaced' => \A d \in Timely \cap Own', e \in Own' : d < e => log'[d] < log'[e]
  BY DEF Inv, RestInv, NumberInv, Own
<1>7. api = "idle" => \A d \in Timely, e \in Own' : d < e => d \in Own'
  <2> SUFFICES ASSUME api' = "idle", NEW d \in Timely, NEW e \in Own', d < e PROVE d \in Own'
    BY <1>1
  <2>1. e \in Events /\ d \in Events /\ e \in DriversOwn /\ IsStored(e)'
    BY <1>3, OwnIds, TimelyEvents DEF Own
  <2>2. d \in DriversOwn
    BY <2>1, IngestionAssumption DEF DriversOwn, Events
  <2>3. IsStored(d)'
    BY <2>1 DEF Inv, RestInv, OrderInv, AckInv, Replaced
  <2> QED BY <1>3, <2>2, <2>3 DEF Own
<1>10. (Replaced => Replaced') /\ (Replaced' => Replaced \/ api' # "idle")
  BY <1>1, <1>2, TimelyEvents, OwnIds DEF Replaced
<1>8. /\ DOMAIN Position = Own /\ DOMAIN Position' = Own'
      /\ \A e \in Own : Position[e] = log[e]
      /\ \A e \in Own' : Position'[e] = log'[e]
  BY DEF Position
<1>9. /\ DOMAIN Position \subseteq DOMAIN Position'
      /\ \A d \in DOMAIN Position : Position'[d] = Position[d]
      /\ \A d \in DOMAIN Position, e \in DOMAIN Position' \ DOMAIN Position : Position[d] < Position'[e]
      /\ Replaced' \/ \A d \in Timely \cap DOMAIN Position', e \in DOMAIN Position' :
                        d < e => Position'[d] < Position'[e]
      /\ api # "idle" \/ \A d \in Timely, e \in DOMAIN Position' : d < e => d \in DOMAIN Position'
  BY <1>4, <1>5, <1>6, <1>7, <1>8
<1> QED BY <1>1, <1>3, <1>9, <1>10
        DEF Log!Extend, Log!Replace, Log!Stored, Log!InDriverOrder, Log!Gapless, Position, Own

\* Rows that the API inserts may replace the driver's end of the run.
LEMMA ApiInsertExtends ==
  ASSUME Inv, Inv', InsertRows(Api)
  PROVE  Log!Extend
<1>1. UNCHANGED <<ending, acked, run, api>> /\ api = "settled" /\ write[Api].phase = "insert"
  BY DEF InsertRows, driverVars, Inv, RestInv, ApiInv
<1>2. \A e \in DriversOwn : log'[e] = log[e]
  BY OwnIds DEF InsertRows, Inv, RestInv, ApiInv
<1>3. Position' = Position /\ DriversOwn' = DriversOwn
  BY <1>1, <1>2, SamePosition DEF DriversOwn
<1>4. DOMAIN Position = Own /\ \A e \in Own : Position[e] = log[e]
  BY DEF Position
<1>5. Own \subseteq DriversOwn /\ \A e \in Own : IsStored(e)' /\ log'[e] = log[e]
  BY <1>2 DEF Own, IsStored
<1>6. ~Replaced' => \A d \in Timely \cap Own, e \in Own : d < e => log[d] < log[e]
  BY <1>3, <1>5 DEF Inv, RestInv, NumberInv
<1>7. Replaced => Replaced'
  BY <1>1, TimelyEvents, OwnIds, InsertShape, ReplacedStays, <1>2 DEF Writers, IsStored
<1> QED BY <1>1, <1>3, <1>4, <1>6, <1>7
        DEF Log!Extend, Log!Replace, Log!Stored, Log!InDriverOrder, Log!Gapless, Position, Own

\* The run completes with all that precedes its completion in the log.
LEMMA CompletionFinishes ==
  ASSUME Inv, NEW c \in Connections, Transition(c), run' = "completed", run # "completed"
  PROVE  Log!Finish
<1>1. /\ push[c].phase \in {"transition", "complete"} /\ run = "running"
      /\ Wanted(push[c].fresh) = "completed" /\ push[c].phase = "complete"
      /\ UNCHANGED <<driverVars, log, api>>
  BY DEF Transition
<1>2. /\ Batched(c) /\ Carried(c) /\ Writing(c) /\ write[c] = NoWrite
      /\ Final \in push[c].fresh /\ ending = "completed" /\ api = "idle"
  BY <1>1 DEF Inv, PushInv, Writing, RestInv, RunInv
<1>3. Timely \ {Final} \subseteq Own
  <2> SUFFICES ASSUME NEW d \in Timely \ {Final} PROVE IsStored(d) /\ d \in DriversOwn
    BY DEF Own
  <2>1. d \in Events /\ d < Final /\ d # Final
    BY TimelyEvents, IngestionAssumption DEF Events
  <2>2. d \in DriversOwn
    BY <1>2, <2>1 DEF DriversOwn
  <2>3. CASE d \in acked
    BY <1>2, <2>2, <2>3 DEF Inv, RestInv, AckInv
  <2>4. CASE d \notin acked
    <3>1. d \in push[c].batch
      BY <1>2, <2>1, <2>4 DEF Batched, Carried
    <3>2. CASE d \in push[c].fresh
      BY <1>1, <1>2, <2>1, <2>2, <3>2 DEF Writing, NoWrite
    <3>3. CASE d \notin push[c].fresh
      BY <1>2, <2>2, <3>1, <3>3 DEF Carried, Replaced
    <3> QED BY <3>2, <3>3
  <2> QED BY <2>2, <2>3, <2>4
<1>4. Position' = Position
  BY <1>1, SamePosition DEF driverVars
<1>5. UNCHANGED <<acked, DriversOwn, Replaced>>
  BY <1>1 DEF driverVars, DriversOwn, Replaced, IsStored
<1> QED BY <1>1, <1>2, <1>3, <1>4, <1>5 DEF Log!Finish, Log!Stored, Position, Own

\* Lost connections, evicted objects, failed statements and the API's own events do not reorder
\* the driver's events, leave a gap, acknowledge what is not stored, or complete a run whose
\* output is not stored, whatever the number of events, connections and faults.
THEOREM LogRefinement == Spec => ImplementsDriverLog
<1>1. Init => Log!LogInit
  <2> SUFFICES ASSUME Init PROVE Log!LogInit
    OBVIOUS
  <2>1. Own = {}
    BY OwnIds DEF Init, Own, IsStored
  <2> QED BY <2>1 DEF Init, Log!LogInit, Log!Stored, Own, Replaced
<1>2. Inv /\ Inv' /\ [Next]_vars => [Log!LogNext]_(Log!logVars)
  <2> SUFFICES ASSUME Inv, Inv', [Next]_vars PROVE Log!LogNext \/ UNCHANGED Log!logVars
    OBVIOUS
  <2>1. ASSUME ending' = ending, acked' = acked, \A e \in DriversOwn : log'[e] = log[e],
               (run' = "completed") = (run = "completed"), (api' # "idle") = (api # "idle"),
               log'[Final] = log[Final]
        PROVE  UNCHANGED Log!logVars
    <3>1. Position' = Position /\ DriversOwn' = DriversOwn
      BY <2>1, SamePosition DEF DriversOwn
    <3>2. Replaced' = Replaced
      BY <2>1 DEF Replaced, IsStored
    <3> QED BY <2>1, <3>1, <3>2 DEF Log!logVars, Position, Own
  <2>2. CASE UNCHANGED vars
    BY <2>1, <2>2 DEF vars, driverVars
  <2>3. CASE Emit \/ Send \/ Reconnect \/ Evict \/ CloseSession
    BY <2>1, <2>3 DEF Emit, Send, Reconnect, Evict, CloseSession, driverVars
  <2>4. CASE ApiReturns \/ LoseApi \/ FilterNew(Api) \/ Allocate(Api)
    <3>1. /\ UNCHANGED <<ending, acked, log, run>>
          /\ api' # "idle" <=> api # "idle"
      BY <2>4 DEF ApiReturns, LoseApi, FilterNew, Allocate, driverVars
    <3> QED BY <2>1, <3>1
  <2>5. CASE InsertRows(Api)
    BY <2>5, ApiInsertExtends DEF Log!LogNext
  <2>6. ASSUME NEW outcome \in {"failed", "cancelled"}, SettleRun(outcome)
        PROVE  Log!Overrule
    <3>1. /\ UNCHANGED <<ending, acked, log>> /\ api' # "idle"
          /\ run # "completed" /\ run' # "completed"
      BY <2>6 DEF SettleRun, driverVars
    <3>2. Position' = Position /\ DriversOwn' = DriversOwn
      BY <3>1, SamePosition DEF DriversOwn
    <3>3. Replaced => Replaced'
      BY <3>1, ReplacedStays DEF IsStored
    <3> QED BY <3>1, <3>2, <3>3 DEF Log!Overrule, Log!Replace, Position, Own
  <2>7. ASSUME NEW c \in Connections,
               \/ FailPush(c) \/ ReadReceipts(c) \/ SkipTransition(c) \/ WriteBeforeCompletion(c)
               \/ WrittenBeforeCompletion(c) \/ RestWritten(c) \/ Superseded(c) \/ NotWritable(c)
               \/ FilterNew(c) \/ Allocate(c)
        PROVE  UNCHANGED Log!logVars
    <3>1. UNCHANGED <<ending, acked, log, run, api>>
      BY <2>7 DEF FailPush, ReadReceipts, SkipTransition, WriteBeforeCompletion,
         WrittenBeforeCompletion, RestWritten, Superseded, NotWritable, FilterNew, Allocate,
         driverVars
    <3> QED BY <2>1, <3>1
  <2>8. ASSUME NEW c \in Connections, InsertRows(c) PROVE Log!LogNext
    BY <2>8, InsertExtends DEF Log!LogNext
  <2>9. ASSUME NEW c \in Connections, Answer(c) PROVE Log!Acknowledge
    <3>1. /\ UNCHANGED <<ending, log, run, api>> /\ acked \subseteq acked'
      BY <2>9 DEF Answer
    <3>2. Position' = Position /\ DriversOwn' = DriversOwn
      BY <3>1, SamePosition DEF DriversOwn
    <3>3. api = "idle" => acked' \cap DriversOwn \subseteq Own
      BY <3>1 DEF Inv, RestInv, AckInv, Own, IsStored
    <3>4. Replaced' = Replaced
      BY <3>1 DEF Replaced, IsStored
    <3> QED BY <3>1, <3>2, <3>3, <3>4 DEF Log!Acknowledge, Log!Stored, Position, Own
  <2>10. ASSUME NEW c \in Connections, Transition(c) PROVE Log!LogNext \/ UNCHANGED Log!logVars
    <3>1. UNCHANGED <<ending, acked, log, api>>
      BY <2>10 DEF Transition, driverVars
    <3>2. CASE run' = "completed" /\ run # "completed"
      BY <2>10, <3>2, CompletionFinishes DEF Log!LogNext
    <3>3. CASE run = "completed" => run' = "completed"
      BY <2>1, <3>1, <3>2, <3>3
    <3>4. run = "completed" => run' = "completed"
      BY <2>10 DEF Transition
    <3> QED BY <3>3, <3>4, <3>2
  <2> QED BY <2>2, <2>3, <2>4, <2>5, <2>6, <2>7, <2>8, <2>9, <2>10
          DEF Next, PushStep, ApiStep, WriteStep, Log!LogNext
<1> QED BY <1>1, <1>2, Invariance, PTL DEF Spec, ImplementsDriverLog, Log!LogSpec
=============================================================================
