-------------------------- MODULE ApiCommandProofs --------------------------
(***************************************************************************)
(* Safety of the command ledger for any consumers, producers and messages, *)
(* and any number of faults and retries: the types, the fencing of stale   *)
(* consumers, and that no queued command is forgotten.                     *)
(*                                                                         *)
(* The inductive invariant adds to the types who holds which message       *)
(* (Held), that only the consumer that claimed last has a row that is      *)
(* running under its message (Fenced), and that a queued command whose     *)
(* mark is, or is about to be, cleared has a message that will be claimed  *)
(* or dead-lettered: one that no consumer is about to acknowledge (Waits). *)
(***************************************************************************)
EXTENDS ApiCommand, TLAPS

Busy(c) == consumer[c].pc # "idle"

ConsumerStates == [pc : {"idle", "claim", "work", "ack", "retry"},
                   msg : Messages \cup {NoMessage}, renews : BOOLEAN, holds : BOOLEAN]

\* A consumer at work has a message of its own, which the queue delivered.
Held ==
  /\ \A c \in Consumers : ~Busy(c) => consumer[c] = IdleConsumer
  /\ \A c \in Consumers : Busy(c) => /\ consumer[c].msg \in Messages
                                     /\ message[consumer[c].msg].at = "delivered"
  /\ \A c, d \in Consumers : Busy(c) /\ Busy(d) /\ consumer[c].msg = consumer[d].msg => c = d

\* Whoever works under the row's claim was the last to claim it.
Fenced == \A c \in Consumers : consumer[c].pc = "work" /\ Owns(c) => consumer[c].holds

\* Nobody has sent anything for a command that is not there.
NothingSent == command.status = "absent" => \A p \in Producers : producer[p] = "idle"

\* The message will be claimed, unless it is dead-lettered.
Waiting(m) ==
  \/ message[m].at \in {"queue", "dead"}
  \/ \E c \in Consumers : consumer[c].msg = m /\ consumer[c].pc \in {"claim", "retry"}

Unmarked == ~command.undelivered \/ \E p \in Producers : producer[p] = "clear"

Waits ==
  command.status = "queued" /\ resets = 0 /\ Unmarked => \E m \in Messages : Waiting(m)

Inv == CommandTypeOK /\ Held /\ Fenced /\ NothingSent /\ Waits

-----------------------------------------------------------------------------
\* The initial state.
LEMMA InitInv == ASSUME CommandInit PROVE Inv
<1> USE CommandAssumption DEF CommandInit, IdleConsumer
<1>1. CommandTypeOK
  BY DEF CommandTypeOK, Ends
<1>2. Held /\ Fenced /\ NothingSent /\ Waits
  BY DEF Held, Busy, Fenced, NothingSent, Waits
<1> QED BY <1>1, <1>2 DEF Inv

-----------------------------------------------------------------------------
(* Steps of producers.                                                     *)

\* A step that touches no consumer keeps Held and Fenced if it keeps what is delivered
\* and the claim.
LEMMA ConsumersUntouched ==
  ASSUME Held, Fenced, UNCHANGED consumer,
         \A m \in Messages : message[m].at = "delivered" => message'[m].at = "delivered",
         command'.status = "running" =>
           command.status = "running" /\ command'.owner = command.owner
  PROVE  Held' /\ Fenced'
BY DEF Held, Busy, Fenced, Owns

\* A producer goes on to another step; the others stay as they are.
LEMMA ProducerType ==
  ASSUME CommandTypeOK, NEW p \in Producers, NEW pc \in {"idle", "reset", "send", "clear", "mark"},
         Go(p, pc)
  PROVE  /\ producer' \in [Producers -> {"idle", "reset", "send", "clear", "mark"}]
         /\ producer'[p] = pc
         /\ \A q \in Producers \ {p} : producer'[q] = producer[q]
BY DEF CommandTypeOK, Go

\* A command as it is admitted, or reset.
LEMMA QueuedType ==
  /\ Queued \in [status : {"absent", "queued", "running"} \cup Ends, undelivered : BOOLEAN,
                 owner : Messages \cup {NoMessage}, lease : {"none", "live", "lapsed"}]
  /\ Queued.status = "queued" /\ Queued.undelivered
  /\ Queued.owner = NoMessage /\ Queued.lease = "none"
BY DEF Queued, Ends

\* Admission: the row is marked, so that no message is needed yet.
LEMMA AdmitInv == ASSUME Inv, NEW p \in Producers, Admit(p) PROVE Inv'
<1> USE DEF Inv, Admit
<1>1. CommandTypeOK'
  BY ProducerType, QueuedType DEF CommandTypeOK
<1>2. Held' /\ Fenced'
  BY ConsumersUntouched, QueuedType
<1>3. NothingSent'
  BY QueuedType DEF NothingSent
<1>4. Waits'
  BY ProducerType, QueuedType DEF Waits, Unmarked, NothingSent
<1> QED BY <1>1, <1>2, <1>3, <1>4

\* A producer that found the row undelivered changes only itself.
LEMMA ResendInv == ASSUME Inv, NEW p \in Producers, Resend(p) PROVE Inv'
<1> USE DEF Inv, Resend
<1>1. CommandTypeOK'
  BY ProducerType DEF CommandTypeOK
<1>2. Held' /\ Fenced'
  BY ConsumersUntouched
<1>3. NothingSent'
  BY DEF NothingSent
<1>4. Waits'
  BY ProducerType DEF Waits, Unmarked, Waiting
<1> QED BY <1>1, <1>2, <1>3, <1>4

\* A command that ended is not queued.
LEMMA AdmitEndedInv == ASSUME Inv, NEW p \in Producers, AdmitEnded(p) PROVE Inv'
<1> USE DEF Inv, AdmitEnded
<1>1. CommandTypeOK'
  BY ProducerType DEF CommandTypeOK
<1>2. Held' /\ Fenced'
  BY ConsumersUntouched
<1>3. NothingSent'
  BY DEF NothingSent, Ends
<1>4. Waits'
  BY DEF Waits, Ends
<1> QED BY <1>1, <1>2, <1>3, <1>4

\* A reset leaves a marked row, and is counted.
LEMMA ResetInv == ASSUME Inv, NEW p \in Producers, Reset(p) PROVE Inv'
<1> USE DEF Inv, Reset
<1>1. CommandTypeOK'
  BY ProducerType, QueuedType DEF CommandTypeOK
<1>2. Held' /\ Fenced'
  BY ConsumersUntouched, QueuedType
<1>3. NothingSent'
  BY QueuedType DEF NothingSent
<1>4. Waits'
  BY ProducerType DEF Waits, Unmarked, Waiting, CommandTypeOK
<1> QED BY <1>1, <1>2, <1>3, <1>4

\* A message that is put in the queue.
LEMMA EnqueuedType ==
  ASSUME CommandTypeOK, NEW m \in Messages, Fresh(m), message' = Enqueued(m)
  PROVE  /\ message' \in [Messages -> [at : {"none", "queue", "delivered", "dead"},
                                      retries : 0..MaxRetries]]
         /\ message'[m].at = "queue"
         /\ \A n \in Messages \ {m} : message'[n] = message[n]
         /\ message[m].at = "none"
BY CommandAssumption DEF CommandTypeOK, Fresh, Enqueued

\* A message that was sent waits.
LEMMA SendInv == ASSUME Inv, NEW p \in Producers, Send(p) PROVE Inv'
<1> USE DEF Inv, Send
<1> PICK m \in Messages : Fresh(m) /\ message' = Enqueued(m)
  OBVIOUS
<1>1. CommandTypeOK'
  BY ProducerType, EnqueuedType DEF CommandTypeOK
<1>2. Held' /\ Fenced'
  BY ConsumersUntouched, EnqueuedType
<1>3. NothingSent'
  BY DEF NothingSent
<1>4. Waits'
  BY EnqueuedType DEF Waits, Waiting
<1> QED BY <1>1, <1>2, <1>3, <1>4

\* A send seen to fail may still have brought a message, and the mark is set next.
LEMMA SendFailsInv == ASSUME Inv, NEW p \in Producers, SendFails(p) PROVE Inv'
<1> USE DEF Inv, SendFails
<1>1. faults' \in 0..MaxFaults
  BY CommandAssumption DEF Fault, CommandTypeOK
<1>2. NothingSent'
  BY DEF NothingSent
<1>3. CASE UNCHANGED message
  <2>1. CommandTypeOK'
    BY <1>1, <1>3, ProducerType DEF CommandTypeOK
  <2>2. Held' /\ Fenced'
    BY <1>3, ConsumersUntouched
  <2>3. Waits'
    BY <1>3, ProducerType DEF Waits, Unmarked, Waiting
  <2> QED BY <1>2, <2>1, <2>2, <2>3
<1>4. CASE \E m \in Messages : Fresh(m) /\ message' = Enqueued(m)
  <2> PICK m \in Messages : Fresh(m) /\ message' = Enqueued(m)
    BY <1>4
  <2>1. CommandTypeOK'
    BY <1>1, ProducerType, EnqueuedType DEF CommandTypeOK
  <2>2. Held' /\ Fenced'
    BY ConsumersUntouched, EnqueuedType
  <2>3. Waits'
    BY EnqueuedType DEF Waits, Waiting
  <2> QED BY <1>2, <2>1, <2>2, <2>3
<1> QED BY <1>3, <1>4

\* The mark of a queued command is set.
LEMMA MarkInv == ASSUME Inv, NEW p \in Producers, Mark(p) PROVE Inv'
<1> USE DEF Inv, Mark
<1>1. CommandTypeOK'
  BY ProducerType DEF CommandTypeOK
<1>2. Held' /\ Fenced'
  BY ConsumersUntouched DEF CommandTypeOK
<1>3. NothingSent'
  BY ProducerType DEF NothingSent, CommandTypeOK
<1>4. Waits'
  BY ProducerType DEF Waits, Unmarked, Waiting, CommandTypeOK
<1> QED BY <1>1, <1>2, <1>3, <1>4

\* The mark goes, and a message of this producer's, or of another's, will be claimed.
LEMMA ClearInv == ASSUME Inv, NEW p \in Producers, Clear(p) PROVE Inv'
<1> USE DEF Inv, Clear
<1>1. CommandTypeOK'
  BY ProducerType DEF CommandTypeOK
<1>2. Held' /\ Fenced'
  BY ConsumersUntouched DEF CommandTypeOK
<1>3. NothingSent'
  BY ProducerType DEF NothingSent, CommandTypeOK
<1>4. Waits'
  BY ProducerType DEF Waits, Unmarked, Waiting, CommandTypeOK
<1> QED BY <1>1, <1>2, <1>3, <1>4

\* A lost producer leaves the row as it is.
LEMMA LoseProducerInv == ASSUME Inv, NEW p \in Producers, LoseProducer(p) PROVE Inv'
<1> USE DEF Inv, LoseProducer
<1>1. CommandTypeOK'
  BY ProducerType, CommandAssumption DEF CommandTypeOK, Fault
<1>2. Held' /\ Fenced'
  BY ConsumersUntouched
<1>3. NothingSent'
  BY DEF NothingSent
<1>4. Waits'
  BY ProducerType DEF Waits, Unmarked, Waiting
<1> QED BY <1>1, <1>2, <1>3, <1>4

-----------------------------------------------------------------------------
(* Steps of the queue and of consumers.                                    *)

\* A step of one consumer.
LEMMA ConsumerType ==
  ASSUME CommandTypeOK, NEW c \in Consumers,
         NEW pc \in {"idle", "claim", "work", "ack", "retry"},
         consumer' = [consumer EXCEPT ![c].pc = pc]
  PROVE  /\ consumer' \in [Consumers -> [pc : {"idle", "claim", "work", "ack", "retry"},
                                         msg : Messages \cup {NoMessage},
                                         renews : BOOLEAN, holds : BOOLEAN]]
         /\ consumer'[c].pc = pc /\ consumer'[c].msg = consumer[c].msg
         /\ consumer'[c].holds = consumer[c].holds
         /\ \A d \in Consumers \ {c} : consumer'[d] = consumer[d]
BY DEF CommandTypeOK

\* A delivered message waits for its consumer to claim.
LEMMA DeliverInv ==
  ASSUME Inv, NEW c \in Consumers, NEW m \in Messages, Deliver(c, m) PROVE Inv'
<1> USE DEF Inv, Deliver
<1>1. /\ consumer'[c].pc = "claim" /\ consumer'[c].msg = m
      /\ \A d \in Consumers \ {c} : consumer'[d] = consumer[d]
      /\ message'[m].at = "delivered"
      /\ \A n \in Messages \ {m} : message'[n] = message[n]
  BY DEF CommandTypeOK
<1>2. CommandTypeOK'
  <2>1. message' \in [Messages -> [at : {"none", "queue", "delivered", "dead"},
                                  retries : 0..MaxRetries]]
    BY DEF CommandTypeOK
  <2>2. [IdleConsumer EXCEPT !.pc = "claim", !.msg = m] \in ConsumerStates
    BY DEF IdleConsumer, ConsumerStates
  <2>3. consumer' \in [Consumers -> ConsumerStates]
    BY <2>2 DEF CommandTypeOK, ConsumerStates
  <2> QED BY <2>1, <2>3 DEF CommandTypeOK, ConsumerStates
<1>3. Held'
  BY <1>1 DEF Held, Busy
<1>4. Fenced' /\ NothingSent'
  BY <1>1 DEF Fenced, Owns, NothingSent
<1>5. Waits'
  BY <1>1 DEF Waits, Waiting, Unmarked
<1> QED BY <1>2, <1>3, <1>4, <1>5

\* An idle consumer holds nothing.
LEMMA NothingToHold == [IdleConsumer EXCEPT !.holds = FALSE] = IdleConsumer
<1>1. IdleConsumer.holds = FALSE
  BY DEF IdleConsumer
<1>2. [IdleConsumer EXCEPT !.holds = IdleConsumer.holds] = IdleConsumer
  BY DEF IdleConsumer
<1> QED BY <1>1, <1>2

\* A claim that succeeds ends every earlier hold; one that fails finds no queued command.
LEMMA ClaimInv == ASSUME Inv, NEW c \in Consumers, Claim(c) PROVE Inv'
<1> USE DEF Inv, Claim
<1>0. consumer[c].msg \in Messages
  BY DEF Held, Busy
<1>1. CASE Claimable
  <2>1. /\ command' = [command EXCEPT !.status = "running", !.owner = consumer[c].msg,
                                      !.lease = "live"]
        /\ consumer' = [other \in Consumers |->
             IF other = c THEN [consumer[c] EXCEPT !.pc = "work", !.renews = TRUE, !.holds = TRUE]
                          ELSE [consumer[other] EXCEPT !.holds = FALSE]]
    BY <1>1
  <2>2. command'.status = "running" /\ command'.owner = consumer[c].msg
    BY <2>1 DEF CommandTypeOK
  <2>3. /\ consumer'[c].pc = "work" /\ consumer'[c].msg = consumer[c].msg /\ consumer'[c].holds
        /\ \A d \in Consumers \ {c} : /\ consumer'[d].pc = consumer[d].pc
                                      /\ consumer'[d].msg = consumer[d].msg
                                      /\ consumer'[d] = [consumer[d] EXCEPT !.holds = FALSE]
    <3>1. \A d \in Consumers : consumer[d] \in ConsumerStates
      BY DEF CommandTypeOK, ConsumerStates
    <3>2. /\ consumer'[c] = [consumer[c] EXCEPT !.pc = "work", !.renews = TRUE, !.holds = TRUE]
          /\ \A d \in Consumers \ {c} : consumer'[d] = [consumer[d] EXCEPT !.holds = FALSE]
      BY <2>1
    <3> QED BY <3>1, <3>2 DEF ConsumerStates
  <2>4. CommandTypeOK'
    <3>1. [consumer[c] EXCEPT !.pc = "work", !.renews = TRUE, !.holds = TRUE] \in ConsumerStates
      BY DEF CommandTypeOK, ConsumerStates
    <3>2. ASSUME NEW d \in Consumers PROVE [consumer[d] EXCEPT !.holds = FALSE] \in ConsumerStates
      <4>1. consumer[d] \in ConsumerStates
        BY DEF CommandTypeOK, ConsumerStates
      <4> QED BY <4>1 DEF ConsumerStates
    <3>3. consumer' \in [Consumers -> ConsumerStates]
      BY <2>1, <3>1, <3>2
    <3>4. /\ command' \in [status : {"absent", "queued", "running"} \cup Ends,
                           undelivered : BOOLEAN, owner : Messages \cup {NoMessage},
                           lease : {"none", "live", "lapsed"}]
          /\ command'.owner # NoMessage /\ command'.lease # "none"
      BY <1>0, <2>1, CommandAssumption DEF CommandTypeOK
    <3> QED BY <2>2, <3>3, <3>4 DEF CommandTypeOK, ConsumerStates
  <2>5. Held'
    <3>1. ASSUME NEW d \in Consumers, ~Busy(d)' PROVE consumer'[d] = IdleConsumer
      <4>1. d # c
        BY <2>3, <3>1 DEF Busy
      <4>2. ~Busy(d)
        BY <2>3, <3>1, <4>1 DEF Busy
      <4>3. consumer[d] = IdleConsumer
        BY <4>2 DEF Held
      <4> QED BY <2>3, <4>1, <4>3, NothingToHold
    <3>2. \A d \in Consumers : consumer'[d].msg = consumer[d].msg /\ (Busy(d)' <=> Busy(d))
      BY <2>3 DEF Busy
    <3> QED BY <3>1, <3>2 DEF Held
  <2>6. Fenced'
    BY <2>2, <2>3 DEF Fenced, Owns, Held, Busy
  <2>7. NothingSent' /\ Waits'
    BY <2>2 DEF NothingSent, Waits
  <2> QED BY <2>4, <2>5, <2>6, <2>7
<1>2. CASE ~Claimable
  <2>1. consumer' = [consumer EXCEPT ![c].pc = "ack"] /\ command' = command
    BY <1>2
  <2>2. CommandTypeOK'
    BY <2>1, ConsumerType DEF CommandTypeOK
  <2>3. Held' /\ Fenced'
    BY <2>1, ConsumerType DEF Held, Busy, Fenced, Owns
  <2>4. NothingSent' /\ Waits'
    BY <1>2, <2>1 DEF NothingSent, Waits, Claimable
  <2> QED BY <2>2, <2>3, <2>4
<1> QED BY <1>1, <1>2

\* A renewal changes the lease of the own claim, or stops.
LEMMA RenewInv == ASSUME Inv, NEW c \in Consumers, Renew(c) PROVE Inv'
<1> USE DEF Inv, Renew
<1>1. CASE Owns(c)
  <2>1. command' = [command EXCEPT !.lease = "live"] /\ UNCHANGED consumer
    BY <1>1
  <2>2. CommandTypeOK'
    BY <1>1, <2>1 DEF CommandTypeOK, Owns
  <2>3. Held' /\ Fenced'
    BY <2>1, ConsumersUntouched DEF CommandTypeOK
  <2>4. NothingSent' /\ Waits'
    BY <1>1, <2>1 DEF NothingSent, Waits, Owns, CommandTypeOK
  <2> QED BY <2>2, <2>3, <2>4
<1>2. CASE ~Owns(c)
  <2>1. consumer' = [consumer EXCEPT ![c].renews = FALSE] /\ command' = command
    BY <1>2
  <2>2. \A d \in Consumers : /\ consumer'[d].pc = consumer[d].pc
                            /\ consumer'[d].msg = consumer[d].msg
                            /\ consumer'[d].holds = consumer[d].holds
                            /\ d # c => consumer'[d] = consumer[d]
    BY <2>1 DEF CommandTypeOK
  <2>3. CommandTypeOK'
    <3>1. consumer' \in [Consumers -> ConsumerStates]
      BY <2>1 DEF CommandTypeOK, ConsumerStates
    <3> QED BY <2>1, <3>1 DEF CommandTypeOK, ConsumerStates
  <2>4. Held' /\ Fenced'
    BY <2>1, <2>2 DEF Held, Busy, Fenced, Owns
  <2>5. NothingSent' /\ Waits'
    BY <2>1, <2>2 DEF NothingSent, Waits, Waiting, Unmarked
  <2> QED BY <2>3, <2>4, <2>5
<1> QED BY <1>1, <1>2

\* Only a running command has a lease.
LEMMA LeaseLapsesInv == ASSUME Inv, LeaseLapses PROVE Inv'
<1> USE DEF Inv, LeaseLapses
<1>1. CommandTypeOK'
  BY DEF CommandTypeOK
<1>2. Held' /\ Fenced'
  BY ConsumersUntouched DEF CommandTypeOK
<1>3. NothingSent' /\ Waits'
  BY DEF NothingSent, Waits, CommandTypeOK
<1> QED BY <1>1, <1>2, <1>3

\* Work that ends without the claim changes nothing; with it, a command that is queued
\* again has this consumer's message, which the queue gets back.
LEMMA WorkEndsInv ==
  ASSUME Inv, NEW c \in Consumers, NEW status, NEW next,
         \/ status \in Ends /\ next = "ack"
         \/ status = "queued" /\ next = "retry",
         WorkEnds(c, status, next)
  PROVE  Inv'
<1> USE DEF Inv, WorkEnds
<1>0. consumer[c].msg \in Messages
  BY DEF Held, Busy
<1>1. consumer' = [consumer EXCEPT ![c].pc = next] /\ next \in {"ack", "retry"}
  OBVIOUS
<1>2. Held'
  BY <1>1, ConsumerType DEF Held, Busy
<1>3. CASE Owns(c)
  <2>1. command' = [status |-> status, undelivered |-> FALSE, owner |-> NoMessage,
                    lease |-> "none"]
    BY <1>3
  <2>2. CommandTypeOK'
    BY <1>1, <2>1, ConsumerType, CommandAssumption DEF CommandTypeOK, Ends
  <2>3. Fenced' /\ NothingSent'
    BY <2>1 DEF Fenced, Owns, NothingSent, Ends
  <2>4. CASE next = "ack"
    BY <2>1, <2>2, <2>3, <2>4, <1>2 DEF Waits, Ends
  <2>5. CASE next = "retry"
    <3>1. consumer'[c].pc = "retry" /\ consumer'[c].msg = consumer[c].msg
      BY <1>1, <2>5, ConsumerType
    <3>2. Waiting(consumer[c].msg)'
      BY <3>1 DEF Waiting
    <3> QED BY <1>0, <1>2, <2>2, <2>3, <3>2 DEF Waits
  <2> QED BY <1>1, <2>4, <2>5
<1>4. CASE ~Owns(c)
  <2>1. command' = command
    BY <1>4
  <2>2. CommandTypeOK'
    BY <1>1, <2>1, ConsumerType DEF CommandTypeOK
  <2>3. Fenced' /\ NothingSent'
    BY <1>1, <2>1, ConsumerType DEF Fenced, Owns, NothingSent
  <2>4. Waits'
    BY <1>0, <1>1, <2>1, ConsumerType DEF Waits, Waiting, Unmarked
  <2> QED BY <1>2, <2>2, <2>3, <2>4
<1> QED BY <1>3, <1>4

\* A consumer that gives its message back, wherever the message goes.
LEMMA IdleAgain ==
  ASSUME Inv, NEW c \in Consumers, Busy(c), consumer' = [consumer EXCEPT ![c] = IdleConsumer],
         UNCHANGED command,
         \A m \in Messages \ {consumer[c].msg} : message'[m] = message[m]
  PROVE  /\ consumer' \in [Consumers -> [pc : {"idle", "claim", "work", "ack", "retry"},
                                         msg : Messages \cup {NoMessage},
                                         renews : BOOLEAN, holds : BOOLEAN]]
         /\ Held' /\ Fenced'
<1> USE DEF Inv
<1>1. /\ consumer'[c] = IdleConsumer
      /\ \A d \in Consumers \ {c} : consumer'[d] = consumer[d]
  BY DEF CommandTypeOK
<1>2. consumer' \in [Consumers -> [pc : {"idle", "claim", "work", "ack", "retry"},
                                  msg : Messages \cup {NoMessage},
                                  renews : BOOLEAN, holds : BOOLEAN]]
  BY DEF CommandTypeOK, IdleConsumer
<1>3. Held'
  <2>1. ~Busy(c)' /\ \A d \in Consumers \ {c} : Busy(d)' <=> Busy(d)
    BY <1>1 DEF Busy, IdleConsumer
  <2>2. \A d \in Consumers : Busy(d)' => consumer[d].msg # consumer[c].msg
    BY <2>1 DEF Held
  <2> QED BY <1>1, <2>1, <2>2 DEF Held
<1>4. Fenced'
  BY <1>1 DEF Fenced, Owns, IdleConsumer
<1> QED BY <1>2, <1>3, <1>4

\* Only a message no queued command waits for is acknowledged.
LEMMA AckInv == ASSUME Inv, NEW c \in Consumers, Ack(c) PROVE Inv'
<1> USE DEF Inv, Ack
<1> DEFINE m == consumer[c].msg
<1>0. m \in Messages /\ Busy(c) /\ message[m].at = "delivered"
  BY DEF Held, Busy
<1>1. /\ message'[m].at = "none"
      /\ \A n \in Messages \ {m} : message'[n] = message[n]
  BY <1>0 DEF CommandTypeOK
<1>2. Held' /\ Fenced'
  BY <1>0, <1>1, IdleAgain
<1>3. CommandTypeOK'
  <2>1. message' \in [Messages -> [at : {"none", "queue", "delivered", "dead"},
                                  retries : 0..MaxRetries]]
    BY <1>0 DEF CommandTypeOK
  <2>2. consumer' \in [Consumers -> ConsumerStates]
    BY <1>0, <1>1, IdleAgain DEF ConsumerStates
  <2> QED BY <2>1, <2>2 DEF CommandTypeOK, ConsumerStates
<1>4. ~Waiting(m)
  BY <1>0 DEF Waiting, Held, Busy
<1>5. \A n \in Messages : Waiting(n) => Waiting(n)'
  BY <1>0, <1>1, <1>4 DEF Waiting, CommandTypeOK
<1>6. NothingSent' /\ Waits'
  BY <1>5 DEF NothingSent, Waits, Unmarked
<1> QED BY <1>2, <1>3, <1>6

\* A message that is returned waits.
LEMMA ReturnedInv ==
  ASSUME Inv, NEW c \in Consumers, Busy(c), message' = Returned(consumer[c].msg),
         consumer' = [consumer EXCEPT ![c] = IdleConsumer], faults' \in 0..MaxFaults,
         UNCHANGED <<command, producer, resets>>
  PROVE  Inv'
<1> USE DEF Inv
<1> DEFINE m == consumer[c].msg
<1>0. m \in Messages
  BY DEF Held
<1>1. /\ message' \in [Messages -> [at : {"none", "queue", "delivered", "dead"},
                                    retries : 0..MaxRetries]]
      /\ message'[m].at \in {"queue", "dead"}
      /\ \A n \in Messages \ {m} : message'[n] = message[n]
  BY <1>0, CommandAssumption DEF CommandTypeOK, Returned
<1>2. Held' /\ Fenced'
  BY <1>1, IdleAgain
<1>3. CommandTypeOK'
  BY <1>1, IdleAgain DEF CommandTypeOK
<1>4. \A n \in Messages : Waiting(n) => Waiting(n)'
  BY <1>0, <1>1 DEF Waiting, CommandTypeOK
<1>5. NothingSent' /\ Waits'
  BY <1>4 DEF NothingSent, Waits, Unmarked
<1> QED BY <1>2, <1>3, <1>5

\* A consumer that retries returns its message.
LEMMA RetryInv == ASSUME Inv, NEW c \in Consumers, Retry(c) PROVE Inv'
BY ReturnedInv DEF Retry, Busy, Inv, CommandTypeOK

\* So does one that is lost.
LEMMA LoseConsumerInv == ASSUME Inv, NEW c \in Consumers, LoseConsumer(c) PROVE Inv'
<1>1. faults' \in 0..MaxFaults
  BY CommandAssumption DEF LoseConsumer, Fault, Inv, CommandTypeOK
<1> QED BY <1>1, ReturnedInv DEF LoseConsumer, Busy

\* A dead-lettered command is not queued.
LEMMA DeadLetterInv == ASSUME Inv, NEW m \in Messages, DeadLetter(m) PROVE Inv'
<1> USE DEF Inv, DeadLetter
<1>1. \A n \in Messages : message[n].at = "delivered" => message'[n].at = "delivered"
  BY DEF CommandTypeOK
<1>2. CommandTypeOK'
  BY DEF CommandTypeOK, Ends
<1>3. Held' /\ Fenced'
  BY <1>1, ConsumersUntouched
<1>4. NothingSent' /\ Waits'
  BY DEF NothingSent, Waits
<1> QED BY <1>2, <1>3, <1>4

-----------------------------------------------------------------------------
(* The invariant, and what follows from it.                                *)

\* Inv is inductive.
LEMMA NextInv == ASSUME Inv, [CommandNext]_commandVars PROVE Inv'
<1>1. CASE UNCHANGED commandVars
  BY <1>1 DEF commandVars, Inv, CommandTypeOK, Held, Busy, Fenced, Owns, NothingSent, Waits,
              Waiting, Unmarked
<1>2. ASSUME NEW p \in Producers, Admit(p) \/ AdmitEnded(p) PROVE Inv'
  BY <1>2, AdmitInv, AdmitEndedInv
<1>3. ASSUME NEW p \in Producers, Resend(p) \/ ProducerStep(p) \/ SendFails(p) \/ LoseProducer(p)
      PROVE  Inv'
  BY <1>3, ResendInv, ResetInv, SendInv, MarkInv, ClearInv, SendFailsInv, LoseProducerInv
     DEF ProducerStep
<1>4. ASSUME NEW c \in Consumers, WorkStep(c) PROVE Inv'
  BY <1>4, WorkEndsInv DEF WorkStep, Succeed, FailFinally, Release, Ends
<1>5. ASSUME NEW c \in Consumers, ConsumerStep(c) \/ Renew(c) \/ LoseConsumer(c) PROVE Inv'
  BY <1>4, <1>5, ClaimInv, AckInv, RetryInv, RenewInv, LoseConsumerInv DEF ConsumerStep
<1>6. ASSUME NEW c \in Consumers, NEW m \in Messages, Deliver(c, m) PROVE Inv'
  BY <1>6, DeliverInv
<1>7. ASSUME NEW m \in Messages, DeadLetter(m) PROVE Inv'
  BY <1>7, DeadLetterInv
<1>8. CASE LeaseLapses
  BY <1>8, LeaseLapsesInv
<1> QED BY <1>1, <1>2, <1>3, <1>5, <1>6, <1>7, <1>8 DEF CommandNext

\* Inv holds in every reachable state.
THEOREM Invariance == CommandSpec => []Inv
BY InitInv, NextInv, PTL DEF CommandSpec

\* The ledger row, the messages and the executions keep their types, and the row is owned
\* and leased exactly while it runs (api-command-ledger.ts).
THEOREM TypeCorrect == CommandSpec => []CommandTypeOK
<1>1. Inv => CommandTypeOK
  BY DEF Inv
<1> QED BY <1>1, Invariance, PTL

\* No queued command is forgotten: the redrive, a message or a producer will bring it to
\* a consumer, whatever failed before (api-command-admission.service.ts).
THEOREM NeverForgotten == CommandSpec => []QueuedIsDeliverable
<1>1. Inv => QueuedIsDeliverable
  <2> SUFFICES ASSUME Inv, command.status = "queued", resets = 0, ~command.undelivered
               PROVE  \E m \in Messages : message[m].at # "none"
    BY DEF QueuedIsDeliverable
  <2> PICK m \in Messages : Waiting(m)
    BY DEF Inv, Waits, Unmarked
  <2> QED BY DEF Waiting, Inv, Held, Busy
<1> QED BY <1>1, Invariance, PTL

\* A consumer whose claim was taken over never changes the row (api-command-ledger.ts).
THEOREM Fencing == CommandSpec => FencedWrites
<1>1. ASSUME Inv, [CommandNext]_commandVars
      PROVE  [\A c \in Consumers : WorkStep(c) /\ ~consumer[c].holds
                => UNCHANGED command]_commandVars
  BY <1>1 DEF Inv, Fenced, WorkStep, Succeed, FailFinally, Release, WorkEnds
<1> QED BY <1>1, Invariance, PTL DEF CommandSpec, FencedWrites
=============================================================================
