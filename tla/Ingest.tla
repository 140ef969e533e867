------------------------------- MODULE Ingest -------------------------------
(***************************************************************************)
(* ingest/handler.py: alarm notification -> incident -> work item.         *)
(*                                                                         *)
(* SNS invokes the function asynchronously with one notification.  When    *)
(* the handler raises or dies the notification is delivered again, up to   *)
(* MaxDeliveries times.                                                    *)
(***************************************************************************)
EXTENDS WorkQueue

CONSTANTS
  Notification,   \* what CloudWatch may publish: [name, state, at, id]
  IngestWorker,   \* concurrent invocations
  Instant,        \* times of day an undated notification may be handled at
  Slug,           \* alarm name -> the name without its prefix and suffix
  NoName, NoTime, \* a payload without AlarmName / a readable StateChangeTime
  NoNotification,
  DEDUP_WINDOW_SECONDS,
  MaxDeliveries

\* build_incident_id
build_incident_id(name, at) ==
  <<Slug[name], (at \div DEDUP_WINDOW_SECONDS) * DEDUP_WINDOW_SECONDS>>

ASSUME IngestAssumption ==
  /\ DEDUP_WINDOW_SECONDS \in Nat \ {0}
  /\ MaxDeliveries \in Nat
  /\ NoNotification \notin Notification
  /\ \A n \in Notification :
       n.name # NoName =>
         \A at \in IF n.at = NoTime THEN Instant ELSE {n.at} :
            build_incident_id(n.name, at) \in Incident

VARIABLES topic,    \* per notification: where its delivery stands
          ingest    \* per worker: control state, notification, incident

ingestVars == <<topic, ingest>>

TopicState == {"unpublished", "pending", "delivering", "consumed", "suppressed", "dropped"}

IngestIdle == [pc |-> "idle", note |-> NoNotification, incident |-> NoIncident]

IngestTypeOK ==
  /\ topic \in [Notification -> [state : TopicState, deliveries : Nat]]
  /\ ingest \in [IngestWorker -> [pc : {"idle", "send", "suppress"},
                                  note : Notification \cup {NoNotification},
                                  incident : Incident \cup {NoIncident}]]

IngestInit ==
  /\ topic = [n \in Notification |-> [state |-> "unpublished", deliveries |-> 0]]
  /\ ingest = [w \in IngestWorker |-> IngestIdle]

-----------------------------------------------------------------------------
\* CloudWatch publishes an alarm transition.
Publish(n) ==
  /\ topic[n].state = "unpublished"
  /\ topic' = [topic EXCEPT ![n].state = "pending"]
  /\ NoFault
  /\ UNCHANGED <<storeVars, work, ingest>>

\* SNS is at-least-once: a notification already dealt with arrives again.
Republish(n) ==
  /\ Fault
  /\ topic[n].state \in {"consumed", "suppressed"}
  /\ topic[n].deliveries < MaxDeliveries
  /\ topic' = [topic EXCEPT ![n].state = "pending"]
  /\ UNCHANGED <<storeVars, work, ingest>>

\* The invocation for n failed: deliver again, or give up.
AfterFailure(n) == IF topic[n].deliveries < MaxDeliveries THEN "pending" ELSE "dropped"

Started(n, state) == [state |-> state, deliveries |-> topic[n].deliveries + 1]

StartedFailure(n) == IF topic[n].deliveries + 1 < MaxDeliveries THEN "pending" ELSE "dropped"

Deliverable(w, n) == /\ topic[n].state = "pending"
                     /\ topic[n].deliveries < MaxDeliveries
                     /\ ingest[w].pc = "idle"

\* Not JSON, not an alarm, or not a transition into ALARM: ignored.
IngestIgnore(w, n) ==
  /\ Deliverable(w, n)
  /\ n.name = NoName \/ n.state # "ALARM"
  /\ topic' = [topic EXCEPT ![n] = Started(n, "consumed")]
  /\ NoFault
  /\ UNCHANGED <<storeVars, work, ingest>>

\* _handle_record up to create_incident.
IngestCreate(w, n) ==
  /\ Deliverable(w, n)
  /\ n.name # NoName /\ n.state = "ALARM"
  /\ \E at \in (IF n.at = NoTime THEN Instant ELSE {n.at}), out \in Outcome :
       LET i == build_incident_id(n.name, at)
           goto(pc) == /\ topic' = [topic EXCEPT ![n] = Started(n, "delivering")]
                       /\ ingest' = [ingest EXCEPT ![w] = [pc |-> pc, note |-> n,
                                                            incident |-> i]]
       IN /\ Create(i, out)
          /\ \/ out = "ok" /\ goto("send")
             \/ out = "refused" /\ goto("suppress")
             \/ /\ out = "error"
                /\ topic' = [topic EXCEPT ![n] = Started(n, StartedFailure(n))]
                /\ UNCHANGED ingest
  /\ UNCHANGED work

\* The invocation ends, leaving its notification in this state.
IngestEnd(w, state) ==
  /\ topic' = [topic EXCEPT ![ingest[w].note].state = state]
  /\ ingest' = [ingest EXCEPT ![w] = IngestIdle]

\* except DuplicateIncident: record_suppression.
IngestSuppress(w) ==
  /\ ingest[w].pc = "suppress"
  /\ \E out \in Outcome :
       /\ Suppress(ingest[w].incident, out)
       /\ IngestEnd(w, IF out = "ok" THEN "suppressed" ELSE AfterFailure(ingest[w].note))
  /\ UNCHANGED work

\* Mutant: a failed send is swallowed instead of raised.
IngestSendSwallows(w) ==
  /\ ingest[w].pc = "send"
  /\ \/ Send(ingest[w].incident) /\ NoFault
     \/ Fault /\ UNCHANGED work
  /\ IngestEnd(w, "consumed")
  /\ UNCHANGED storeVars

\* sqs.send_message, which may fail before or after the message is queued.
IngestSend(w) ==
  /\ ingest[w].pc = "send"
  /\ \/ /\ Send(ingest[w].incident)
        /\ IngestEnd(w, "consumed")
        /\ NoFault
     \/ /\ UNCHANGED work \/ Send(ingest[w].incident)
        /\ IngestEnd(w, AfterFailure(ingest[w].note))
        /\ Fault
  /\ UNCHANGED storeVars

\* The invocation dies between two calls.
IngestCrash(w) ==
  /\ ingest[w].pc # "idle"
  /\ Fault
  /\ IngestEnd(w, AfterFailure(ingest[w].note))
  /\ UNCHANGED <<storeVars, work>>

IngestStep == \E w \in IngestWorker :
                 \/ \E n \in Notification : IngestIgnore(w, n) \/ IngestCreate(w, n)
                 \/ IngestSuppress(w)
                 \/ IngestSend(w)

IngestNext == \/ IngestStep
              \/ \E n \in Notification : Publish(n) \/ Republish(n)
              \/ \E w \in IngestWorker : IngestCrash(w)
=============================================================================
