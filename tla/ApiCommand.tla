----------------------------- MODULE ApiCommand -----------------------------
(***************************************************************************)
(* One command of the API Worker's durable command ledger, from admission  *)
(* to its end.                                                             *)
(*                                                                         *)
(* command is a row of D1.  Producers insert it, then send a queue message *)
(* that names it; the row stays marked undelivered until a send was seen   *)
(* to succeed, and the scheduled redrive sends again for marked rows, so   *)
(* several messages may name the command.  A consumer claims the row under *)
(* its message's id, for a lease it renews while it works.                 *)
(*                                                                         *)
(* Abstracted: the command's kind, payload and errors, which only decide   *)
(* how the work ends; time, so that a lease may lapse at any moment.       *)
(* Definitions X_Y are plausible faulty forms of X, which the              *)
(* specification does not use.                                             *)
(***************************************************************************)
EXTENDS Naturals

CONSTANTS
  Consumers,     \* queue-consumer executions
  Producers,     \* executions that admit the command or redrive it
  Redriver,      \* the scheduled one of them
  Messages,      \* ids of messages that are in flight together
  NoMessage,
  MaxRetries,    \* deliveries of a message after its first, before it is dead-lettered
  MaxFaults,     \* lost executions and failed sends or writes
  MaxResets      \* times an admission resets the command after it ended

ASSUME CommandAssumption ==
  /\ Redriver \in Producers
  /\ NoMessage \notin Messages
  /\ MaxRetries \in Nat
  /\ MaxFaults \in Nat
  /\ MaxResets \in Nat

VARIABLES
  command,       \* the ledger row
  message,       \* message id -> where the message is, and how often it was retried
  consumer,      \* consumer -> the message it processes, and how far it is
  producer,      \* producer -> what it does next
  faults,        \* faults so far
  resets         \* times the command was reset

commandVars == <<command, message, consumer, producer, faults, resets>>

Ends == {"succeeded", "failed", "dead_lettered"}

\* holds: nobody claimed the command since this consumer did (history).
IdleConsumer == [pc |-> "idle", msg |-> NoMessage, renews |-> FALSE, holds |-> FALSE]

Fault == faults < MaxFaults /\ faults' = faults + 1

-----------------------------------------------------------------------------
(* Producers.                                                              *)

Queued_Sent == [status |-> "queued", undelivered |-> FALSE, owner |-> NoMessage, lease |-> "none"]
Queued == [status |-> "queued", undelivered |-> TRUE, owner |-> NoMessage, lease |-> "none"]

Go(p, pc) == producer' = [producer EXCEPT ![p] = pc]

Admit(p) ==
  /\ producer[p] = "idle"
  /\ command.status = "absent"
  /\ command' = Queued
  /\ Go(p, "send")
  /\ UNCHANGED <<message, consumer, faults, resets>>

\* A repeated admission, or the scheduled redrive, finds the row undelivered.
Resend(p) ==
  /\ producer[p] = "idle"
  /\ command.status = "queued"
  /\ command.undelivered
  /\ Go(p, "send")
  /\ UNCHANGED <<command, message, consumer, faults, resets>>

\* An admission with retryTerminal finds that the command ended, then resets it.
AdmitEnded(p) ==
  /\ producer[p] = "idle"
  /\ resets < MaxResets
  /\ command.status \in Ends
  /\ Go(p, "reset")
  /\ UNCHANGED <<command, message, consumer, faults, resets>>

Reset(p) ==
  /\ producer[p] = "reset"
  /\ IF command.status \in Ends
     THEN command' = Queued /\ resets' = resets + 1
     ELSE UNCHANGED <<command, resets>>
  /\ Go(p, "send")
  /\ UNCHANGED <<message, consumer, faults>>

\* An id no message in flight, claim or consumer refers to.
Fresh(m) ==
  /\ message[m].at = "none"
  /\ command.owner # m
  /\ \A c \in Consumers : consumer[c].msg # m

Enqueued(m) == [message EXCEPT ![m] = [at |-> "queue", retries |-> 0]]

Send(p) ==
  /\ producer[p] = "send"
  /\ \E m \in Messages : Fresh(m) /\ message' = Enqueued(m)
  /\ Go(p, "clear")
  /\ UNCHANGED <<command, consumer, faults, resets>>

\* The producer sees the send fail, though the queue may have taken the message.
SendFails(p) ==
  /\ producer[p] = "send"
  /\ Fault
  /\ \/ UNCHANGED message
     \/ \E m \in Messages : Fresh(m) /\ message' = Enqueued(m)
  /\ Go(p, "mark")
  /\ UNCHANGED <<command, consumer, resets>>

Mark(p) ==
  /\ producer[p] = "mark"
  /\ command' = [command EXCEPT !.undelivered = @ \/ command.status = "queued"]
  /\ Go(p, "idle")
  /\ UNCHANGED <<message, consumer, faults, resets>>

Clear(p) ==
  /\ producer[p] = "clear"
  /\ command' = [command EXCEPT !.undelivered = @ /\ command.status # "queued"]
  /\ Go(p, "idle")
  /\ UNCHANGED <<message, consumer, faults, resets>>

\* Lost before the send, or before or during the write that follows it.
LoseProducer(p) ==
  /\ producer[p] # "idle"
  /\ Fault
  /\ Go(p, "idle")
  /\ UNCHANGED <<command, message, consumer, resets>>

-----------------------------------------------------------------------------
(* Consumers.                                                              *)

Deliver(c, m) ==
  /\ consumer[c] = IdleConsumer
  /\ message[m].at = "queue"
  /\ message' = [message EXCEPT ![m].at = "delivered"]
  /\ consumer' = [consumer EXCEPT ![c] = [@ EXCEPT !.pc = "claim", !.msg = m]]
  /\ UNCHANGED <<command, producer, faults, resets>>

Claimable ==
  \/ command.status = "queued"
  \/ command.status = "running" /\ command.lease = "lapsed"

Claim(c) ==
  /\ consumer[c].pc = "claim"
  /\ IF Claimable
     THEN /\ command' = [command EXCEPT !.status = "running", !.owner = consumer[c].msg,
                                        !.lease = "live"]
          /\ consumer' = [other \in Consumers |->
               IF other = c THEN [consumer[c] EXCEPT !.pc = "work", !.renews = TRUE, !.holds = TRUE]
                            ELSE [consumer[other] EXCEPT !.holds = FALSE]]
     ELSE /\ consumer' = [consumer EXCEPT ![c].pc = "ack"]
          /\ UNCHANGED command
  /\ UNCHANGED <<message, producer, faults, resets>>

\* The guard of every write of a claim: the row is running under this message's id.
Owns_Unchecked(c) == command.status = "running"
Owns(c) == command.status = "running" /\ command.owner = consumer[c].msg

\* Work goes on when a renewal finds the claim lost; only the renewals stop.
Renew(c) ==
  /\ consumer[c].pc = "work"
  /\ consumer[c].renews
  /\ IF Owns(c)
     THEN command' = [command EXCEPT !.lease = "live"] /\ UNCHANGED consumer
     ELSE consumer' = [consumer EXCEPT ![c].renews = FALSE] /\ UNCHANGED command
  /\ UNCHANGED <<message, producer, faults, resets>>

LeaseLapses ==
  /\ command.lease = "live"
  /\ command' = [command EXCEPT !.lease = "lapsed"]
  /\ UNCHANGED <<message, consumer, producer, faults, resets>>

\* The work ended: one guarded write, then the message is acknowledged or retried.
WorkEnds_KeepsOwner(c, status, next) ==
  /\ consumer[c].pc = "work"
  /\ command' = IF Owns(c) THEN [command EXCEPT !.status = status, !.undelivered = FALSE]
                           ELSE command
  /\ consumer' = [consumer EXCEPT ![c].pc = next]
  /\ UNCHANGED <<message, producer, faults, resets>>
WorkEnds(c, status, next) ==
  /\ consumer[c].pc = "work"
  /\ command' = IF Owns(c)
                THEN [status |-> status, undelivered |-> FALSE, owner |-> NoMessage, lease |-> "none"]
                ELSE command
  /\ consumer' = [consumer EXCEPT ![c].pc = next]
  /\ UNCHANGED <<message, producer, faults, resets>>

Succeed(c) == WorkEnds(c, "succeeded", "ack")
FailFinally(c) == WorkEnds(c, "failed", "ack")
Release_Acks(c) == WorkEnds(c, "queued", "ack")
Release(c) == WorkEnds(c, "queued", "retry")

Ack(c) ==
  /\ consumer[c].pc = "ack"
  /\ message' = [message EXCEPT ![consumer[c].msg].at = "none"]
  /\ consumer' = [consumer EXCEPT ![c] = IdleConsumer]
  /\ UNCHANGED <<command, producer, faults, resets>>

\* The queue delivers the message again, or moves it to the dead-letter queue.
Returned(m) ==
  [message EXCEPT ![m] = IF @.retries < MaxRetries
                         THEN [at |-> "queue", retries |-> @.retries + 1]
                         ELSE [at |-> "dead", retries |-> 0]]

Retry(c) ==
  /\ consumer[c].pc = "retry"
  /\ message' = Returned(consumer[c].msg)
  /\ consumer' = [consumer EXCEPT ![c] = IdleConsumer]
  /\ UNCHANGED <<command, producer, faults, resets>>

LoseConsumer(c) ==
  /\ consumer[c].pc # "idle"
  /\ Fault
  /\ message' = Returned(consumer[c].msg)
  /\ consumer' = [consumer EXCEPT ![c] = IdleConsumer]
  /\ UNCHANGED <<command, producer, resets>>

\* The dead-letter consumer marks the row, whatever became of the command.
DeadLetter(m) ==
  /\ message[m].at = "dead"
  /\ message' = [message EXCEPT ![m].at = "none"]
  /\ command' = [status |-> "dead_lettered", undelivered |-> FALSE,
                 owner |-> NoMessage, lease |-> "none"]
  /\ UNCHANGED <<consumer, producer, faults, resets>>

-----------------------------------------------------------------------------
CommandInit ==
  /\ command = [status |-> "absent", undelivered |-> FALSE, owner |-> NoMessage, lease |-> "none"]
  /\ message = [m \in Messages |-> [at |-> "none", retries |-> 0]]
  /\ consumer = [c \in Consumers |-> IdleConsumer]
  /\ producer = [p \in Producers |-> "idle"]
  /\ faults = 0
  /\ resets = 0

ProducerStep(p) == Reset(p) \/ Send(p) \/ Mark(p) \/ Clear(p)

WorkStep(c) == Succeed(c) \/ FailFinally(c) \/ Release(c)

ConsumerStep(c) == Claim(c) \/ WorkStep(c) \/ Ack(c) \/ Retry(c)

CommandNext ==
  \/ \E p \in Producers \ {Redriver} : Admit(p) \/ AdmitEnded(p)
  \/ \E p \in Producers :
       Resend(p) \/ ProducerStep(p) \/ SendFails(p) \/ LoseProducer(p)
  \/ \E c \in Consumers : ConsumerStep(c) \/ Renew(c) \/ LoseConsumer(c)
  \/ \E c \in Consumers, m \in Messages : Deliver(c, m)
  \/ \E m \in Messages : DeadLetter(m)
  \/ LeaseLapses

CommandSpec == CommandInit /\ [][CommandNext]_commandVars

\* Executions that are not lost go on, the redrive is scheduled every minute, and the
\* queue delivers its messages.  No admission need ever come.
CommandFairness ==
  /\ \A p \in Producers : WF_commandVars(ProducerStep(p))
  /\ WF_commandVars(Resend(Redriver))
  /\ \A c \in Consumers : WF_commandVars(ConsumerStep(c))
  /\ \A m \in Messages : /\ SF_commandVars(\E c \in Consumers : Deliver(c, m))
                         /\ WF_commandVars(DeadLetter(m))

CommandFairSpec == CommandSpec /\ CommandFairness

-----------------------------------------------------------------------------
(* Properties.                                                             *)

\* Every variable has its type, and a row is owned and leased exactly while it runs.
CommandTypeOK ==
  /\ command \in [status : {"absent", "queued", "running"} \cup Ends, undelivered : BOOLEAN,
                  owner : Messages \cup {NoMessage}, lease : {"none", "live", "lapsed"}]
  /\ message \in [Messages -> [at : {"none", "queue", "delivered", "dead"}, retries : 0..MaxRetries]]
  /\ consumer \in [Consumers -> [pc : {"idle", "claim", "work", "ack", "retry"},
                                 msg : Messages \cup {NoMessage},
                                 renews : BOOLEAN, holds : BOOLEAN]]
  /\ producer \in [Producers -> {"idle", "reset", "send", "clear", "mark"}]
  /\ faults \in 0..MaxFaults
  /\ resets \in Nat
  /\ command.status = "running" <=> command.owner # NoMessage
  /\ command.status = "running" <=> command.lease # "none"

\* A consumer that works on after another one took its claim over changes nothing
\* any more, however its work ends.
FencedWrites ==
  [][\A c \in Consumers : WorkStep(c) /\ ~consumer[c].holds => UNCHANGED command]_commandVars

\* A queued command is never forgotten, whatever sends fail and executions are lost:
\* it is marked for the redrive, or a message names it, or somebody is about to send
\* one.  A reset is excepted: a producer that is late to note the first send may clear
\* the mark of the command that was reset meanwhile.
QueuedIsDeliverable ==
  (command.status = "queued" /\ resets = 0) =>
    \/ command.undelivered
    \/ \E m \in Messages : message[m].at # "none"
    \/ \E p \in Producers : producer[p] \in {"send", "mark"}

\* Without faults an admitted command ends, however many messages name it, whichever
\* leases lapse under their consumers, and when it was reset.
FaultlessCommandEnds ==
  command.status \in {"queued", "running"} ~> (command.status \in Ends \/ faults > 0)
=============================================================================
