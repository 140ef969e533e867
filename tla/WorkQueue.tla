------------------------------ MODULE WorkQueue ------------------------------
(***************************************************************************)
(* The SQS queue between ingest and agent, and its dead-letter queue, as   *)
(* infra/storage.tf configures them.  A message is visible, in flight      *)
(* under a visibility timeout, deleted, or moved to the dead-letter queue  *)
(* once it has been received maxReceiveCount times without being deleted.  *)
(***************************************************************************)
EXTENDS IncidentStore

CONSTANTS Message,            \* bound: ids of the messages a behaviour may use
          maxReceiveCount

ASSUME QueueAssumption == maxReceiveCount \in Nat

VARIABLE work

MessageState == {"unused", "visible", "inflight", "deleted", "dead"}

QueueTypeOK ==
  work \in [Message -> [incident : Incident \cup {NoIncident},
                        state    : MessageState,
                        receives : Nat]]

QueueInit == work = [m \in Message |-> [incident |-> NoIncident, state |-> "unused",
                                        receives |-> 0]]

\* send_message puts a message about incident i on the queue.
Send(i) ==
  \E m \in Message :
     /\ work[m].state = "unused"
     /\ work' = [work EXCEPT ![m] = [incident |-> i, state |-> "visible", receives |-> 0]]

\* A poller takes a message; it is hidden until it is settled.
Receive(m, next) ==
  /\ work[m].state = "visible"
  /\ work[m].receives < maxReceiveCount
  /\ work' = [work EXCEPT ![m].state = next, ![m].receives = @ + 1]

\* The handler returned without listing the message: Lambda deletes it.
Ack(m) == work' = [work EXCEPT ![m].state = "deleted"]

\* The handler listed it in batchItemFailures, or died: the visibility timeout,
\* which outlasts every invocation, makes it visible again.
Nack(m) == work' = [work EXCEPT ![m].state = "visible"]

\* Mutant: one receive too many is allowed for before the redrive.
RedriveLate(m) ==
  /\ work[m].state = "visible"
  /\ work[m].receives > maxReceiveCount
  /\ work' = [work EXCEPT ![m].state = "dead"]
  /\ NoFault

\* The redrive policy.
Redrive(m) ==
  /\ work[m].state = "visible"
  /\ work[m].receives >= maxReceiveCount
  /\ work' = [work EXCEPT ![m].state = "dead"]
  /\ NoFault

\* At-least-once delivery, and the SDK sending again after a lost reply.
Duplicate(m) ==
  /\ Fault
  /\ work[m].state \in {"visible", "inflight", "deleted"}
  /\ Send(work[m].incident)

QueueVisible(i) == \E m \in Message : work[m].incident = i /\ work[m].state \in {"visible", "inflight"}

QueueDead(i) == \E m \in Message : work[m].incident = i /\ work[m].state = "dead"
=============================================================================
