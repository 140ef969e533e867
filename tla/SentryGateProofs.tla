-------------------------- MODULE SentryGateProofs --------------------------
(***************************************************************************)
(* Type correctness of Sentry and the human gate, proved for every number  *)
(* of incidents, workers, messages, operators, events and faults, with or  *)
(* without stale reads.  Types alone are not inductive: they need to know  *)
(* that whoever is busy refers to something that exists (Refs).  On them   *)
(* rests the invariant IInv, from which HumanGate, ExecutedMeansDone and   *)
(* WorksFromApprovedRca follow.                                            *)
(*                                                                         *)
(* The argument follows the trail of an approval.  Once an item carries    *)
(* an operator's name, no step changes the name or the RCA (TrailKept);    *)
(* so a copy that says APPROVED, however old, names what is still there,   *)
(* and so does what an executor read from it.                              *)
(*                                                                         *)
(* What one step may do to the table (TableSteps) then shows that a        *)
(* decision stands and that the pipeline implements TriageContract.        *)
(***************************************************************************)
EXTENDS Sentry, TLAPS

TypeRefs == TypeOK /\ Refs

\* The types and references of each component, as one conjunct each.
QueueOK    == QueueTypeOK /\ QueueRefs
IngestOK   == IngestTypeOK /\ IngestRefs
AgentOK    == AgentTypeOK /\ AgentRefs
EventsOK   == ExecutorTypeOK /\ EventRefs /\ ExecutorRefs

USE DEF FaultsTypeOK

-----------------------------------------------------------------------------
(* The store *)

\* A transition leaves the table alone or moves one item along a legal edge.
LEMMA TransitionMoves ==
  ASSUME NEW i, NEW to, NEW item, NEW out, Transition(i, to, item, out)
  PROVE  /\ replica' = replica
         /\ table' = table \/ Move(i, to, item)
         /\ NoFault \/ Fault
         /\ out = "ok" => Move(i, to, item)
BY DEF Transition

LEMMA FaultType ==
  ASSUME FaultsTypeOK, NoFault \/ Fault
  PROVE  FaultsTypeOK'
BY FaultsAssumption DEF NoFault, Fault

LEMMA TransitionType ==
  ASSUME TypeOK, NEW i \in Incident, NEW to \in Status, NEW item \in Item, NEW out,
         Transition(i, to, item, out)
  PROVE  FaultsTypeOK' /\ StoreTypeOK'
<1>1. StoreTypeOK'
  <2>1. [item EXCEPT !.status = to] \in Item BY DEF Item
  <2>. QED BY <2>1, TransitionMoves DEF TypeOK, StoreTypeOK, Move
<1>2. FaultsTypeOK' BY TransitionMoves, FaultType DEF TypeOK
<1>. QED BY <1>1, <1>2

LEMMA CreateType ==
  ASSUME TypeOK, NEW i \in Incident, NEW out, Create(i, out)
  PROVE  FaultsTypeOK' /\ StoreTypeOK'
<1>1. NewItem \in Item BY DEF NewItem, Missing, Item, Status, NoResult, Result
<1>2. StoreTypeOK' BY <1>1 DEF Create, TypeOK, StoreTypeOK
<1>3. FaultsTypeOK' BY FaultType DEF TypeOK, Create
<1>. QED BY <1>2, <1>3

LEMMA SuppressType ==
  ASSUME TypeOK, NEW i \in Incident, NEW out, Suppress(i, out)
  PROVE  FaultsTypeOK' /\ StoreTypeOK'
<1>1. StoreTypeOK' BY DEF Suppress, TypeOK, StoreTypeOK, Item
<1>2. FaultsTypeOK' BY FaultType DEF TypeOK, Suppress
<1>. QED BY <1>1, <1>2

-----------------------------------------------------------------------------
(* The queue *)

\* What every operation of the queue keeps: its types and references, and that
\* a message once used stays used.
QueueKept == /\ QueueOK'
             /\ \A m \in Message : work[m].state # "unused" => work'[m].state # "unused"

LEMMA SendKeeps ==
  ASSUME QueueOK, NEW i \in Incident, Send(i)
  PROVE  QueueKept
BY DEF QueueOK, QueueKept, QueueTypeOK, QueueRefs, Send, MessageState

LEMMA ReceiveKeeps ==
  ASSUME QueueOK, NEW m \in Message, NEW next \in {"inflight", "deleted"}, Receive(m, next)
  PROVE  QueueKept /\ work[m].state # "unused"
BY DEF QueueOK, QueueKept, QueueTypeOK, QueueRefs, Receive, MessageState

LEMMA SettleKeeps ==
  ASSUME QueueOK, NEW m \in Message, work[m].state # "unused",
         Ack(m) \/ Nack(m) \/ Redrive(m)
  PROVE  QueueKept
BY DEF QueueOK, QueueKept, QueueTypeOK, QueueRefs, Ack, Nack, Redrive, MessageState

LEMMA DuplicateKeeps ==
  ASSUME QueueOK, NEW m \in Message, Duplicate(m)
  PROVE  QueueKept
<1>1. work[m].incident \in Incident BY DEF Duplicate, QueueOK, QueueRefs
<1>. QED BY <1>1, SendKeeps DEF Duplicate

\* A worker that is not stepping keeps its message.
LEMMA AgentKept ==
  ASSUME AgentOK, QueueKept, UNCHANGED agentVars
  PROVE  AgentOK'
BY DEF AgentOK, AgentTypeOK, AgentRefs, QueueKept, agentVars

-----------------------------------------------------------------------------
(* Types and references: ingest *)

LEMMA IngestEndType ==
  ASSUME IngestOK, NEW w \in IngestWorker, NEW state \in TopicState,
         ingest[w].pc # "idle", IngestEnd(w, state)
  PROVE  IngestOK'
BY DEF IngestOK, IngestTypeOK, IngestRefs, IngestEnd, IngestIdle

LEMMA IngestPreservesTypes ==
  ASSUME TypeRefs, IngestNext, UNCHANGED <<agentVars, executorVars, gate>>
  PROVE  TypeRefs'
<1>. USE DEF TypeRefs, TypeOK, Refs
<1>1. IngestOK /\ QueueOK /\ AgentOK /\ EventsOK
  BY DEF IngestOK, QueueOK, AgentOK, EventsOK
<1>2. SUFFICES FaultsTypeOK' /\ StoreTypeOK' /\ IngestOK' /\ QueueKept
  <2>1. AgentOK' BY <1>1, AgentKept
  <2>2. EventsOK' /\ ApprovalTypeOK'
    BY <1>1 DEF EventsOK, ExecutorTypeOK, EventRefs, ExecutorRefs, executorVars, ApprovalTypeOK
  <2>. QED BY <1>2, <2>1, <2>2 DEF IngestOK, QueueOK, QueueKept, AgentOK, EventsOK
<1>3. UNCHANGED work => QueueKept
  BY <1>1 DEF QueueKept, QueueOK, QueueTypeOK, QueueRefs
<1>4. UNCHANGED storeVars => StoreTypeOK'
  BY DEF StoreTypeOK, storeVars
<1>5. ASSUME NEW n \in Notification, Publish(n) \/ Republish(n)
      PROVE  FaultsTypeOK' /\ StoreTypeOK' /\ IngestOK' /\ QueueKept
  <2>1. IngestOK'
    BY <1>5, <1>1 DEF Publish, Republish, IngestOK, IngestTypeOK, IngestRefs, TopicState
  <2>2. FaultsTypeOK' BY <1>5, FaultType DEF Publish, Republish
  <2>. QED BY <1>3, <1>4, <1>5, <2>1, <2>2 DEF Publish, Republish
<1>6. ASSUME NEW w \in IngestWorker, NEW n \in Notification, IngestIgnore(w, n)
      PROVE  FaultsTypeOK' /\ StoreTypeOK' /\ IngestOK' /\ QueueKept
  <2>1. IngestOK'
    BY <1>6, <1>1 DEF IngestIgnore, Started, IngestOK, IngestTypeOK, IngestRefs, TopicState
  <2>2. FaultsTypeOK' BY <1>6, FaultType DEF IngestIgnore
  <2>. QED BY <1>3, <1>4, <1>6, <2>1, <2>2 DEF IngestIgnore
<1>7. ASSUME NEW w \in IngestWorker, NEW n \in Notification, IngestCreate(w, n)
      PROVE  FaultsTypeOK' /\ StoreTypeOK' /\ IngestOK' /\ QueueKept
  <2>1. PICK at \in (IF n.at = NoTime THEN Instant ELSE {n.at}), out \in Outcome :
          LET i == build_incident_id(n.name, at)
          IN /\ Create(i, out)
             /\ \/ \E pc \in {"send", "suppress"} :
                      /\ topic' = [topic EXCEPT ![n] = Started(n, "delivering")]
                      /\ ingest' = [ingest EXCEPT ![w] = [pc |-> pc, note |-> n,
                                                           incident |-> i]]
                \/ /\ topic' = [topic EXCEPT ![n] = Started(n, StartedFailure(n))]
                   /\ UNCHANGED ingest
    BY <1>7 DEF IngestCreate
  <2>2. build_incident_id(n.name, at) \in Incident
    BY <1>7, <2>1, IngestAssumption DEF IngestCreate
  <2>3. FaultsTypeOK' /\ StoreTypeOK' BY <2>1, <2>2, CreateType
  <2>4. /\ Started(n, "delivering") \in [state : TopicState, deliveries : Nat]
        /\ Started(n, StartedFailure(n)) \in [state : TopicState, deliveries : Nat]
    BY DEF Started, StartedFailure, IngestTypeOK, TopicState
  <2>5. topic' \in [Notification -> [state : TopicState, deliveries : Nat]]
    BY <2>1, <2>4 DEF IngestTypeOK
  <2>6. ASSUME ingest' = ingest PROVE IngestOK'
    BY <1>1, <2>5, <2>6 DEF IngestOK, IngestTypeOK, IngestRefs
  <2>7. ASSUME NEW pc \in {"send", "suppress"},
               ingest' = [ingest EXCEPT ![w] = [pc |-> pc, note |-> n,
                            incident |-> build_incident_id(n.name, at)]]
        PROVE  IngestOK'
    BY <1>1, <2>2, <2>5, <2>7 DEF IngestOK, IngestTypeOK, IngestRefs
  <2>8. IngestOK' BY <2>1, <2>6, <2>7
  <2>. QED BY <1>3, <1>7, <2>3, <2>8 DEF IngestCreate
<1>8. ASSUME NEW w \in IngestWorker, ingest[w].pc # "idle" PROVE AfterFailure(ingest[w].note) \in TopicState
  BY DEF AfterFailure, TopicState
<1>9. ASSUME NEW w \in IngestWorker, IngestSuppress(w)
      PROVE  FaultsTypeOK' /\ StoreTypeOK' /\ IngestOK' /\ QueueKept
  <2>1. PICK out \in Outcome :
          /\ Suppress(ingest[w].incident, out)
          /\ IngestEnd(w, IF out = "ok" THEN "suppressed" ELSE AfterFailure(ingest[w].note))
    BY <1>9 DEF IngestSuppress
  <2>2. ingest[w].pc # "idle" /\ ingest[w].incident \in Incident
    BY <1>9 DEF IngestSuppress, IngestRefs
  <2>3. FaultsTypeOK' /\ StoreTypeOK' BY <2>1, <2>2, SuppressType
  <2>4. IngestOK' BY <1>1, <1>8, <2>1, <2>2, IngestEndType DEF TopicState
  <2>. QED BY <1>3, <1>9, <2>3, <2>4 DEF IngestSuppress
<1>10. ASSUME NEW w \in IngestWorker, IngestSend(w) \/ IngestCrash(w)
       PROVE  FaultsTypeOK' /\ StoreTypeOK' /\ IngestOK' /\ QueueKept
  <2>1. ingest[w].pc # "idle" BY <1>10 DEF IngestSend, IngestCrash
  <2>2. ingest[w].incident \in Incident BY <2>1 DEF IngestRefs
  <2>3. QueueKept BY <1>1, <1>3, <1>10, <2>2, SendKeeps DEF IngestSend, IngestCrash
  <2>4. IngestOK'
    BY <1>1, <1>8, <1>10, <2>1, IngestEndType DEF IngestSend, IngestCrash, TopicState
  <2>5. FaultsTypeOK' BY <1>10, FaultType DEF IngestSend, IngestCrash
  <2>. QED BY <1>4, <1>10, <2>3, <2>4, <2>5 DEF IngestSend, IngestCrash
<1>. QED BY <1>5, <1>6, <1>7, <1>9, <1>10 DEF IngestNext, IngestStep

-----------------------------------------------------------------------------
(* Types and references: the agent *)

LEMMA RouteType == ASSUME NEW r \in Rca PROVE Route(r) \in Status
BY DEF Route, Status

LEMMA AgentPreservesTypes ==
  ASSUME TypeRefs, AgentNext, UNCHANGED <<ingestVars, executorVars, gate>>
  PROVE  TypeRefs'
<1>. USE DEF TypeRefs, TypeOK, Refs
<1>1. IngestOK /\ QueueOK /\ AgentOK /\ EventsOK
  BY DEF IngestOK, QueueOK, AgentOK, EventsOK
<1>2. SUFFICES FaultsTypeOK' /\ StoreTypeOK' /\ AgentOK' /\ QueueKept
  <2>1. IngestOK' BY <1>1 DEF IngestOK, IngestTypeOK, IngestRefs, ingestVars
  <2>2. EventsOK' /\ ApprovalTypeOK'
    BY <1>1 DEF EventsOK, ExecutorTypeOK, EventRefs, ExecutorRefs, executorVars, ApprovalTypeOK
  <2>. QED BY <1>2, <2>1, <2>2 DEF IngestOK, QueueOK, QueueKept, AgentOK, EventsOK
<1>3. UNCHANGED work => QueueKept
  BY <1>1 DEF QueueKept, QueueOK, QueueTypeOK, QueueRefs
<1>4. UNCHANGED storeVars => StoreTypeOK'
  BY DEF StoreTypeOK, storeVars
\* A worker that goes idle, or on with the message it holds.
<1>5. ASSUME QueueKept, NEW w \in AgentWorker, UNCHANGED runs,
             AgentIdles(w)
      PROVE  AgentOK'
  BY <1>1, <1>5 DEF AgentIdles, AgentIdle, AgentOK, AgentTypeOK, AgentRefs, QueueKept
<1>6. ASSUME NEW w \in AgentWorker, agent[w].pc # "idle"
      PROVE  /\ agent[w].msg \in Message
             /\ work[agent[w].msg].state # "unused"
             /\ Held(w) \in Incident
             /\ table[Held(w)] \in Item
  BY <1>6 DEF AgentRefs, QueueRefs, Held, StoreTypeOK
<1>7. ASSUME NEW w \in AgentWorker, NEW m \in Message, AgentSkip(w, m)
      PROVE  FaultsTypeOK' /\ StoreTypeOK' /\ AgentOK' /\ QueueKept
  <2>1. QueueKept BY <1>1, <1>7, ReceiveKeeps DEF AgentSkip
  <2>2. AgentOK' BY <1>1, <1>7, <2>1, AgentKept DEF AgentSkip
  <2>. QED BY <1>4, <1>7, <2>1, <2>2, FaultType DEF AgentSkip
<1>8. ASSUME NEW w \in AgentWorker, NEW m \in Message, AgentReceive(w, m)
      PROVE  FaultsTypeOK' /\ StoreTypeOK' /\ AgentOK' /\ QueueKept
  <2>1. QueueKept /\ work[m].state # "unused" BY <1>1, <1>8, ReceiveKeeps DEF AgentReceive
  <2>2. AgentOK'
    BY <1>1, <1>8, <2>1 DEF AgentReceive, AgentOK, AgentTypeOK, AgentRefs, QueueKept
  <2>. QED BY <1>4, <1>8, <2>1, <2>2, FaultType DEF AgentReceive
<1>9. ASSUME NEW w \in AgentWorker, AgentClaim(w)
      PROVE  FaultsTypeOK' /\ StoreTypeOK' /\ AgentOK' /\ QueueKept
  <2>1. PICK out \in Outcome :
          /\ Transition(Held(w), "INVESTIGATING", table[Held(w)], out)
          /\ \/ /\ agent' = [agent EXCEPT ![w].pc = "run"]
                /\ runs' = [runs EXCEPT ![Held(w)] = @ + 1]
                /\ UNCHANGED work
             \/ Nack(agent[w].msg) /\ AgentIdles(w) /\ UNCHANGED runs
    BY <1>9 DEF AgentClaim
  <2>2. agent[w].pc # "idle" BY <1>9 DEF AgentClaim
  <2>3. FaultsTypeOK' /\ StoreTypeOK'
    BY <1>6, <2>1, <2>2, TransitionType DEF Status
  <2>4. QueueKept BY <1>1, <1>3, <1>6, <2>1, <2>2, SettleKeeps
  <2>5. CASE Nack(agent[w].msg) /\ AgentIdles(w) /\ UNCHANGED runs
    BY <1>5, <2>3, <2>4, <2>5
  <2>6. CASE /\ agent' = [agent EXCEPT ![w].pc = "run"]
             /\ runs' = [runs EXCEPT ![Held(w)] = @ + 1]
             /\ UNCHANGED work
    <3>1. AgentOK'
      BY <1>1, <1>6, <2>2, <2>4, <2>6 DEF AgentOK, AgentTypeOK, AgentRefs, QueueKept
    <3>. QED BY <2>3, <2>4, <3>1
  <2>. QED BY <2>1, <2>5, <2>6
<1>10. ASSUME NEW w \in AgentWorker, NEW r \in Rca, AgentConclude(w, r)
       PROVE  FaultsTypeOK' /\ StoreTypeOK' /\ AgentOK' /\ QueueKept
  <2>1. PICK out \in Outcome :
          /\ Transition(Held(w), Route(r), [table[Held(w)] EXCEPT !.rca = r], out)
          /\ Ack(agent[w].msg) \/ Nack(agent[w].msg)
    BY <1>10 DEF AgentConclude
  <2>2. agent[w].pc # "idle" BY <1>10 DEF AgentConclude
  <2>3. [table[Held(w)] EXCEPT !.rca = r] \in Item BY <1>6, <2>2 DEF Item
  <2>4. FaultsTypeOK' /\ StoreTypeOK'
    BY <1>6, <2>1, <2>2, <2>3, RouteType, TransitionType
  <2>5. QueueKept BY <1>1, <1>6, <2>1, <2>2, SettleKeeps
  <2>. QED BY <1>5, <1>10, <2>4, <2>5 DEF AgentConclude
<1>11. ASSUME NEW w \in AgentWorker, NEW failure \in RunFailure, AgentFail(w, failure)
       PROVE  FaultsTypeOK' /\ StoreTypeOK' /\ AgentOK' /\ QueueKept
  <2>1. PICK out \in Outcome, to \in {"FAILED", "ESCALATED"} :
          /\ Transition(Held(w), to, table[Held(w)], out)
          /\ Ack(agent[w].msg) \/ Nack(agent[w].msg)
    BY <1>11 DEF AgentFail
  <2>2. agent[w].pc # "idle" BY <1>11 DEF AgentFail
  <2>3. FaultsTypeOK' /\ StoreTypeOK'
    BY <1>6, <2>1, <2>2, TransitionType DEF Status
  <2>4. QueueKept BY <1>1, <1>6, <2>1, <2>2, SettleKeeps
  <2>. QED BY <1>5, <1>11, <2>3, <2>4 DEF AgentFail
<1>12. ASSUME NEW w \in AgentWorker, AgentCrash(w)
       PROVE  FaultsTypeOK' /\ StoreTypeOK' /\ AgentOK' /\ QueueKept
  <2>1. QueueKept BY <1>1, <1>6, <1>12, SettleKeeps DEF AgentCrash
  <2>. QED BY <1>4, <1>5, <1>12, <2>1, FaultType DEF AgentCrash
<1>13. ASSUME QueueStep
       PROVE  FaultsTypeOK' /\ StoreTypeOK' /\ AgentOK' /\ QueueKept
  <2>1. PICK m \in Message : Redrive(m) \/ Duplicate(m) BY <1>13 DEF QueueStep
  <2>2. QueueKept BY <1>1, <2>1, SettleKeeps, DuplicateKeeps DEF Redrive
  <2>3. FaultsTypeOK' BY <2>1, FaultType DEF Redrive, Duplicate
  <2>. QED BY <1>1, <1>4, <1>13, <2>2, <2>3, AgentKept DEF QueueStep
<1>. QED BY <1>7, <1>8, <1>9, <1>10, <1>11, <1>12, <1>13 DEF AgentNext, AgentStep

-----------------------------------------------------------------------------
(* Types and references: the approval gate *)

LEMMA IncomingType ==
  ASSUME EventsOK, NEW i \in Incident, Incoming(i), UNCHANGED <<exec, targetVars, effects>>
  PROVE  EventsOK'
BY DEF EventsOK, ExecutorTypeOK, EventRefs, ExecutorRefs, Incoming, targetVars, EventState

LEMMA ApprovalPreservesTypes ==
  ASSUME TypeRefs, ApprovalNext, UNCHANGED <<work, ingestVars, agentVars>>
  PROVE  TypeRefs'
<1>. USE DEF TypeRefs, TypeOK, Refs
<1>1. SUFFICES FaultsTypeOK' /\ StoreTypeOK' /\ EventsOK' /\ ApprovalTypeOK'
  BY <1>1 DEF EventsOK, IngestTypeOK, IngestRefs, AgentTypeOK, AgentRefs, QueueTypeOK,
              QueueRefs, ingestVars, agentVars
<1>2. EventsOK BY DEF EventsOK
<1>3. UNCHANGED executorVars => EventsOK'
  BY <1>2 DEF executorVars, EventsOK, ExecutorTypeOK, EventRefs, ExecutorRefs
<1>4. UNCHANGED storeVars => StoreTypeOK'
  BY DEF StoreTypeOK, storeVars
<1>5. ASSUME NEW a \in Actor, NEW i \in Incident, Approve(a, i)
      PROVE  FaultsTypeOK' /\ StoreTypeOK' /\ EventsOK' /\ ApprovalTypeOK'
  <2>1. [table[i] EXCEPT !.approved_by = a] \in Item BY DEF StoreTypeOK, Item
  <2>2. FaultsTypeOK' /\ StoreTypeOK' BY <1>5, <2>1, TransitionType DEF Approve, Status
  <2>3. ApprovalTypeOK' BY <1>5 DEF Approve, ApprovalTypeOK
  <2>. QED BY <1>3, <1>5, <2>2, <2>3 DEF Approve
<1>6. ASSUME NEW a \in Actor, NEW i \in Incident, Reject(a, i)
      PROVE  FaultsTypeOK' /\ StoreTypeOK' /\ EventsOK' /\ ApprovalTypeOK'
  <2>1. [table[i] EXCEPT !.rejected_by = a] \in Item BY DEF StoreTypeOK, Item
  <2>2. FaultsTypeOK' /\ StoreTypeOK' BY <1>6, <2>1, TransitionType DEF Reject, Status
  <2>. QED BY <1>3, <1>6, <2>2 DEF Reject, ApprovalTypeOK
<1>7. ASSUME NEW a \in Actor, Invoke(a)
      PROVE  FaultsTypeOK' /\ StoreTypeOK' /\ EventsOK' /\ ApprovalTypeOK'
  <2>1. EventsOK' BY <1>2, <1>7, IncomingType DEF Invoke, ApprovalTypeOK
  <2>2. ApprovalTypeOK' BY <1>7 DEF Invoke, ApprovalTypeOK
  <2>. QED BY <1>4, <1>7, <2>1, <2>2, FaultType DEF Invoke
<1>8. ASSUME NEW a \in Actor, ApprovalCrash(a)
      PROVE  FaultsTypeOK' /\ StoreTypeOK' /\ EventsOK' /\ ApprovalTypeOK'
  BY <1>3, <1>4, <1>8, FaultType DEF ApprovalCrash, ApprovalTypeOK
<1>. QED BY <1>5, <1>6, <1>7, <1>8 DEF ApprovalNext, Decision

-----------------------------------------------------------------------------
(* Types and references: the executor *)

\* What execute() does next is one of the calls it has, on a resource it may touch.
LEMMA NextCallType ==
  ASSUME NEW item \in Item
  PROVE  /\ NextCall(item) \in {"alias", "flag", "record", "fail"}
         /\ NextCall(item) = "alias" => item.rca \in Rca /\ item.rca.target \in Function
         /\ NextCall(item) = "flag" => item.rca \in Rca /\ item.rca.target \in Flag
<1>1. item.rca = NoRca \/ item.rca \in Rca BY DEF Item
<1>2. NoRca \notin Rca BY StoreAssumption
<1>3. NoTarget \notin Function \cup Flag BY ExecutorAssumption
<1>. QED BY <1>1, <1>2, <1>3 DEF NextCall, Remedy

\* An invocation that ends releases its worker and keeps its event in use.
LEMMA ExecutorEndsType ==
  ASSUME EventsOK, NEW w \in ExecutorWorker, exec[w].pc # "idle",
         ExecutorReturns(w) \/ ExecutorRaises(w), NoEffect
  PROVE  EventsOK'
<1>. USE DEF EventsOK, ExecutorTypeOK, EventRefs, ExecutorRefs
<1>1. exec[w].event \in Event /\ events[exec[w].event].state # "unused" OBVIOUS
<1>2. PICK state \in {"done", "pending", "dropped"} :
        events' = [events EXCEPT ![exec[w].event].state = state]
  BY DEF ExecutorReturns, ExecutorRaises
<1>3. exec' = [exec EXCEPT ![w] = ExecutorIdle] BY DEF ExecutorReturns, ExecutorRaises
<1>4. NoResult \in Result BY DEF NoResult, Result
<1>5. /\ events' \in [Event -> [incident : Incident \cup {NoIncident},
                                 state : EventState, attempts : Nat]]
      /\ EventRefs'
      /\ \A e \in Event : events[e].state # "unused" => events'[e].state # "unused"
  BY <1>1, <1>2 DEF EventState
<1>6. exec' \in [ExecutorWorker -> Invocation] /\ ExecutorRefs'
  BY <1>3, <1>4, <1>5 DEF ExecutorIdle, Invocation
<1>. QED BY <1>5, <1>6 DEF NoEffect, targetVars

\* One that goes on keeps its event, and only what it may touch.
LEMMA ContinueType ==
  ASSUME EventsOK, NEW w \in ExecutorWorker, exec[w].pc # "idle",
         NEW x \in Invocation, exec' = [exec EXCEPT ![w] = x], x.event = exec[w].event,
         x.pc \in {"shift", "record", "fail"},
         x.pc = "shift" => x.rca.target \in Function /\ x.result.to # 0,
         UNCHANGED events,
         published' = published, alias' \in [Function -> Nat \ {0}],
         flag' \in [Flag -> BOOLEAN], effects' \in [Incident -> Nat]
  PROVE  EventsOK'
<1>. USE DEF EventsOK, ExecutorTypeOK, EventRefs, ExecutorRefs
<1>1. exec' \in [ExecutorWorker -> Invocation] OBVIOUS
<1>2. ExecutorRefs' OBVIOUS
<1>. QED BY <1>1, <1>2

LEMMA GotoType ==
  ASSUME EventsOK, NEW w \in ExecutorWorker, exec[w].pc # "idle",
         NEW pc \in {"record", "fail"}, Goto(w, pc), UNCHANGED events,
         published' = published, alias' \in [Function -> Nat \ {0}],
         flag' \in [Flag -> BOOLEAN], effects' \in [Incident -> Nat]
  PROVE  EventsOK'
<1>1. exec[w] \in Invocation BY DEF EventsOK, ExecutorTypeOK
<1>2. [exec[w] EXCEPT !.pc = pc] \in Invocation BY <1>1 DEF Invocation
<1>. QED BY <1>1, <1>2, ContinueType DEF Goto, Invocation

LEMMA ExecutorPreservesTypes ==
  ASSUME TypeRefs, ExecutorNext, UNCHANGED <<work, ingestVars, agentVars, gate>>
  PROVE  TypeRefs'
<1>. USE DEF TypeRefs, TypeOK, Refs
<1>1. SUFFICES FaultsTypeOK' /\ StoreTypeOK' /\ EventsOK'
  BY <1>1 DEF EventsOK, IngestTypeOK, IngestRefs, AgentTypeOK, AgentRefs, QueueTypeOK,
              QueueRefs, ingestVars, agentVars, ApprovalTypeOK
<1>2. EventsOK BY DEF EventsOK
<1>3. UNCHANGED storeVars => StoreTypeOK'
  BY DEF StoreTypeOK, storeVars
<1>4. ASSUME NEW w \in ExecutorWorker, exec[w].pc # "idle"
      PROVE  /\ exec[w].event \in Event
             /\ Working(w) \in Incident
             /\ table[Working(w)] \in Item
             /\ effects[Working(w)] + 1 \in Nat
  BY <1>4 DEF ExecutorRefs, EventRefs, Working, StoreTypeOK, ExecutorTypeOK
<1>5. ASSUME NEW w \in ExecutorWorker, NEW e \in Event, ExecutorSkip(w, e)
      PROVE  FaultsTypeOK' /\ StoreTypeOK' /\ EventsOK'
  <2>1. EventsOK'
    BY <1>2, <1>5 DEF ExecutorSkip, Deliver, EventsOK, ExecutorTypeOK, EventRefs,
                      ExecutorRefs, EventState, targetVars
  <2>. QED BY <1>3, <1>5, <2>1, FaultType DEF ExecutorSkip
<1>6. ASSUME NEW w \in ExecutorWorker, NEW e \in Event, ExecutorReceive(w, e)
      PROVE  FaultsTypeOK' /\ StoreTypeOK' /\ EventsOK'
  <2>1. PICK item \in Reads(events[e].incident) :
          exec' = [exec EXCEPT ![w] = [pc |-> NextCall(item), event |-> e, rca |-> item.rca,
                                       result |-> [NoResult EXCEPT !.action = "none"]]]
    BY <1>6 DEF ExecutorReceive
  <2>2. item \in Item
    BY <1>6, <2>1 DEF ExecutorReceive, Deliver, Reads, EventRefs, StoreTypeOK
  <2>3. item.rca \in Rca \cup {NoRca} BY <2>2 DEF Item
  <2>4. /\ [NoResult EXCEPT !.action = "none"] \in Result
        /\ [NoResult EXCEPT !.action = "none"].to = 0
    BY DEF NoResult, Result, Remediation
  <2>5. events' = [events EXCEPT ![e].state = "running", ![e].attempts = @ + 1]
    BY <1>6 DEF ExecutorReceive, Deliver
  <2>6. EventsOK'
    BY <1>2, <1>6, <2>1, <2>2, <2>3, <2>4, <2>5, NextCallType
    DEF ExecutorReceive, EventsOK, ExecutorTypeOK, EventRefs, ExecutorRefs, EventState, targetVars
  <2>. QED BY <1>3, <1>6, <2>6, FaultType DEF ExecutorReceive
<1>7. ASSUME NEW w \in ExecutorWorker, ExecutorReadAlias(w)
      PROVE  FaultsTypeOK' /\ StoreTypeOK' /\ EventsOK'
  <2>1. exec[w].pc # "idle" /\ alias[exec[w].rca.target] \in Nat \ {0}
    BY <1>7 DEF ExecutorReadAlias, ExecutorRefs, ExecutorTypeOK
  <2>2. EventsOK'
    <3>. DEFINE current == alias[exec[w].rca.target]
                result == [action |-> "alias_rollback", from |-> current, to |-> current - 1]
    <3>1. CASE Goto(w, "fail")
      BY <1>2, <1>7, <2>1, <3>1, GotoType DEF ExecutorReadAlias, targetVars, ExecutorTypeOK
    <3>2. CASE /\ current > 1
               /\ exec' = [exec EXCEPT ![w].pc = "shift", ![w].result = result]
      <4>1. result \in Result /\ result.to # 0 BY <2>1, <3>2 DEF Result, Remediation
      <4>2. exec[w] \in Invocation /\ exec[w].rca.target \in Function
        BY <1>7 DEF ExecutorReadAlias, ExecutorTypeOK, ExecutorRefs
      <4>3. [exec[w] EXCEPT !.pc = "shift", !.result = result] \in Invocation
        BY <4>1, <4>2 DEF Invocation
      <4>4. exec' = [exec EXCEPT ![w] = [exec[w] EXCEPT !.pc = "shift", !.result = result]]
        BY <3>2, <4>2 DEF ExecutorTypeOK
      <4>. HIDE DEF result
      <4>. QED
        BY <1>2, <1>7, <2>1, <4>1, <4>2, <4>3, <4>4, ContinueType
        DEF ExecutorReadAlias, targetVars, ExecutorTypeOK, Invocation
    <3>. QED BY <1>7, <3>1, <3>2 DEF ExecutorReadAlias
  <2>. QED BY <1>3, <1>7, <2>2, FaultType DEF ExecutorReadAlias
<1>8. ASSUME NEW w \in ExecutorWorker, ExecutorShift(w)
      PROVE  FaultsTypeOK' /\ StoreTypeOK' /\ EventsOK'
  <2>1. exec[w].pc # "idle" BY <1>8 DEF ExecutorShift
  <2>2. exec[w].rca.target \in Function /\ exec[w].result.to \in Nat \ {0}
    <3>1. exec[w].result \in Result BY DEF ExecutorTypeOK, Invocation
    <3>. QED BY <1>8, <3>1 DEF ExecutorShift, ExecutorRefs, Result
  <2>3. /\ published' = published
        /\ alias' \in [Function -> Nat \ {0}]
        /\ flag' \in [Flag -> BOOLEAN]
        /\ effects' \in [Incident -> Nat]
    BY <1>4, <1>8, <2>1, <2>2 DEF ExecutorShift, Effect, NoEffect, targetVars, ExecutorTypeOK
  <2>4. EventsOK'
    BY <1>2, <1>8, <2>1, <2>3, GotoType DEF ExecutorShift
  <2>. QED BY <1>3, <1>8, <2>4, FaultType DEF ExecutorShift
<1>9. ASSUME NEW w \in ExecutorWorker, ExecutorDisableFlag(w)
      PROVE  FaultsTypeOK' /\ StoreTypeOK' /\ EventsOK'
  <2>1. exec[w].pc # "idle" BY <1>9 DEF ExecutorDisableFlag
  <2>2. /\ published' = published
        /\ alias' \in [Function -> Nat \ {0}]
        /\ flag' \in [Flag -> BOOLEAN]
        /\ effects' \in [Incident -> Nat]
    BY <1>4, <1>9, <2>1 DEF ExecutorDisableFlag, Effect, NoEffect, targetVars, ExecutorTypeOK
  <2>3. ASSUME exec' = [exec EXCEPT ![w].pc = "record", ![w].result.action = "feature_flag"]
        PROVE  EventsOK'
    <3>. DEFINE x == [exec[w] EXCEPT !.pc = "record", !.result.action = "feature_flag"]
    <3>1. exec[w] \in Invocation BY DEF ExecutorTypeOK
    <3>2. [exec[w].result EXCEPT !.action = "feature_flag"] \in Result
      BY <3>1 DEF Invocation, Result, Remediation
    <3>3. x \in Invocation /\ x.event = exec[w].event /\ x.pc = "record"
      BY <3>1, <3>2 DEF Invocation
    <3>4. exec' = [exec EXCEPT ![w] = x] BY <2>3 DEF ExecutorTypeOK
    <3>. HIDE DEF x
    <3>. QED BY <1>2, <1>9, <2>1, <2>2, <3>3, <3>4, ContinueType DEF ExecutorDisableFlag
  <2>4. ASSUME Goto(w, "fail") PROVE EventsOK'
    BY <1>2, <1>9, <2>1, <2>2, <2>4, GotoType DEF ExecutorDisableFlag
  <2>5. FaultsTypeOK' /\ StoreTypeOK' BY <1>3, <1>9, FaultType DEF ExecutorDisableFlag
  <2>. QED BY <1>9, <2>3, <2>4, <2>5 DEF ExecutorDisableFlag
<1>10. ASSUME NEW w \in ExecutorWorker, ExecutorRecord(w)
       PROVE  FaultsTypeOK' /\ StoreTypeOK' /\ EventsOK'
  <2>1. PICK out \in Outcome :
          /\ Transition(Working(w), "EXECUTED",
                        [table[Working(w)] EXCEPT !.execution_result = exec[w].result], out)
          /\ ExecutorReturns(w) \/ ExecutorRaises(w) \/ (Goto(w, "fail") /\ UNCHANGED events)
    BY <1>10 DEF ExecutorRecord
  <2>2. exec[w].pc # "idle" BY <1>10 DEF ExecutorRecord
  <2>3. [table[Working(w)] EXCEPT !.execution_result = exec[w].result] \in Item
    <3>1. exec[w].result \in Result BY DEF ExecutorTypeOK, Invocation
    <3>. QED BY <1>4, <2>2, <3>1 DEF Item
  <2>4. FaultsTypeOK' /\ StoreTypeOK' BY <1>4, <2>1, <2>2, <2>3, TransitionType DEF Status
  <2>5. NoEffect BY <1>10 DEF ExecutorRecord, NoEffect
  <2>6. EventsOK'
    <3>1. CASE ExecutorReturns(w) \/ ExecutorRaises(w)
      BY <1>2, <2>2, <2>5, <3>1, ExecutorEndsType
    <3>2. CASE Goto(w, "fail") /\ UNCHANGED events
      BY <1>2, <2>2, <2>5, <3>2, GotoType DEF NoEffect, targetVars, ExecutorTypeOK
    <3>. QED BY <2>1, <3>1, <3>2
  <2>. QED BY <2>4, <2>6
<1>11. ASSUME NEW w \in ExecutorWorker, ExecutorFail(w)
       PROVE  FaultsTypeOK' /\ StoreTypeOK' /\ EventsOK'
  <2>1. exec[w].pc # "idle" /\ NoEffect BY <1>11 DEF ExecutorFail, NoEffect
  <2>2. FaultsTypeOK' /\ StoreTypeOK'
    BY <1>4, <1>11, <2>1, TransitionType DEF ExecutorFail, Status
  <2>. QED BY <1>2, <1>11, <2>1, <2>2, ExecutorEndsType DEF ExecutorFail
<1>12. ASSUME NEW w \in ExecutorWorker, ExecutorCrash(w)
       PROVE  FaultsTypeOK' /\ StoreTypeOK' /\ EventsOK'
  BY <1>2, <1>3, <1>12, ExecutorEndsType, FaultType DEF ExecutorCrash, NoEffect
<1>13. ASSUME NEW e \in Event, DuplicateEvent(e)
       PROVE  FaultsTypeOK' /\ StoreTypeOK' /\ EventsOK'
  <2>1. events[e].incident \in Incident BY <1>13 DEF DuplicateEvent, EventRefs
  <2>. QED BY <1>2, <1>3, <1>13, <2>1, IncomingType, FaultType DEF DuplicateEvent
<1>14. ASSUME NEW f \in Function, Deploy(f)
       PROVE  FaultsTypeOK' /\ StoreTypeOK' /\ EventsOK'
  <2>1. EventsOK'
    BY <1>2, <1>14 DEF Deploy, EventsOK, ExecutorTypeOK, EventRefs, ExecutorRefs
  <2>. QED BY <1>3, <1>14, <2>1, FaultType DEF Deploy
<1>. QED BY <1>5, <1>6, <1>7, <1>8, <1>9, <1>10, <1>11, <1>12, <1>13, <1>14
         DEF ExecutorNext, ExecutorStep

-----------------------------------------------------------------------------
(* Types and references: the specification *)

LEMMA InitTypes == Init => TypeRefs
<1>. SUFFICES ASSUME Init PROVE TypeRefs OBVIOUS
<1>. USE DEF Init, TypeRefs, TypeOK, Refs
<1>1. Missing \in Item BY DEF Missing, Item, NoResult, Result
<1>2. FaultsTypeOK /\ StoreTypeOK BY <1>1, FaultsAssumption DEF StoreInit, StoreTypeOK
<1>3. QueueTypeOK /\ QueueRefs BY DEF QueueInit, QueueTypeOK, QueueRefs, MessageState
<1>4. IngestTypeOK /\ IngestRefs
  BY DEF IngestInit, IngestTypeOK, IngestRefs, IngestIdle, TopicState
<1>5. AgentTypeOK /\ AgentRefs BY DEF AgentInit, AgentTypeOK, AgentRefs, AgentIdle
<1>6. /\ published \in [Function -> Nat \ {0}] /\ alias \in [Function -> Nat \ {0}]
      /\ flag \in [Flag -> BOOLEAN]
  <2>1. InitialVersions \subseteq Nat \ {0} BY ExecutorAssumption
  <2>. QED BY <2>1 DEF ExecutorInit
<1>7. ExecutorTypeOK /\ EventRefs /\ ExecutorRefs
  <2>1. NoResult \in Result BY DEF NoResult, Result
  <2>2. ExecutorIdle \in Invocation BY <2>1 DEF ExecutorIdle, Invocation
  <2>3. exec \in [ExecutorWorker -> Invocation] /\ ExecutorRefs
    BY <2>2 DEF ExecutorInit, ExecutorRefs, ExecutorIdle
  <2>. QED BY <1>6, <2>3 DEF ExecutorInit, ExecutorTypeOK, EventRefs, EventState
<1>8. ApprovalTypeOK BY DEF ApprovalInit, ApprovalTypeOK
<1>. QED BY <1>2, <1>3, <1>4, <1>5, <1>7, <1>8

LEMMA NextTypes == TypeRefs /\ [Next]_vars => TypeRefs'
<1>. SUFFICES ASSUME TypeRefs, [Next]_vars PROVE TypeRefs' OBVIOUS
<1>1. CASE Replication
  <2>1. PICK i \in Incident : Propagate(i) BY <1>1 DEF Replication
  <2>2. StoreTypeOK' BY <2>1 DEF Propagate, StoreTypeOK, TypeRefs, TypeOK
  <2>. QED
    BY <1>1, <2>2
    DEF Replication, TypeRefs, TypeOK, Refs, ingestVars, agentVars, executorVars,
        QueueTypeOK, QueueRefs, IngestTypeOK, IngestRefs, AgentTypeOK, AgentRefs,
        ExecutorTypeOK, EventRefs, ExecutorRefs, ApprovalTypeOK
<1>2. CASE UNCHANGED vars
  BY <1>2
  DEF vars, TypeRefs, TypeOK, Refs, StoreTypeOK,
      QueueTypeOK, QueueRefs, IngestTypeOK, IngestRefs, AgentTypeOK, AgentRefs,
      ExecutorTypeOK, EventRefs, ExecutorRefs, ApprovalTypeOK
<1>. QED
  BY <1>1, <1>2, IngestPreservesTypes, AgentPreservesTypes, ApprovalPreservesTypes,
     ExecutorPreservesTypes DEF Next

\* Every variable keeps its type, and no invocation, message or event refers to
\* something that does not exist, for any number of them.
THEOREM TypesAndReferences == Spec => [](TypeOK /\ Refs)
<1>1. Spec => []TypeRefs BY InitTypes, NextTypes, PTL DEF Spec
<1>. QED BY <1>1, PTL DEF TypeRefs

-----------------------------------------------------------------------------
(* The trail of an approval *)

HIDE DEF FaultsTypeOK

TrailKept ==
  \A i \in Incident : table[i].approved_by \in Actor =>
     /\ table'[i].approved_by = table[i].approved_by
     /\ table'[i].rca = table[i].rca

-----------------------------------------------------------------------------
(* The store *)

LEMMA Edges ==
  /\ LegalFrom("INVESTIGATING") = {"NEW"}
  /\ LegalFrom("PENDING_APPROVAL") = {"INVESTIGATING"}
  /\ LegalFrom("ESCALATED") = {"INVESTIGATING"}
  /\ LegalFrom("INFORMATIONAL") = {"INVESTIGATING"}
  /\ LegalFrom("APPROVED") = {"PENDING_APPROVAL"}
  /\ LegalFrom("REJECTED") = {"PENDING_APPROVAL"}
  /\ LegalFrom("EXECUTED") = {"APPROVED"}
  /\ LegalFrom("FAILED") = {"NEW", "INVESTIGATING", "APPROVED"}
BY DEF LegalFrom, Status, ALLOWED_TRANSITIONS

\* A write of one item keeps the table consistent if the new item is, and if it
\* leaves an approval alone.
LEMMA WriteKeeps ==
  ASSUME TypeRefs, TableConsistent, UNCHANGED <<replica, effects>>,
         NEW i \in Incident, NEW item, table' = [table EXCEPT ![i] = item],
         ItemConsistent(item),
         table[i].approved_by \in Actor =>
            item.approved_by = table[i].approved_by /\ item.rca = table[i].rca,
         item.status = "EXECUTED" =>
            effects[i] > 0 /\ item.execution_result.action = item.rca.remediation
  PROVE  TableConsistent' /\ TrailKept
<1>. USE DEF TypeRefs, TypeOK, StoreTypeOK
<1>1. table'[i] = item /\ \A j \in Incident : j # i => table'[j] = table[j] OBVIOUS
<1>2. TrailKept BY <1>1 DEF TrailKept
<1>3. \A j \in Incident : ItemConsistent(table'[j]) BY <1>1 DEF TableConsistent
<1>4. \A j \in Incident : replica[j].status = "APPROVED" =>
        table'[j].approved_by \in Actor /\ table'[j].rca = replica[j].rca
  BY <1>2 DEF TrailKept, TableConsistent, ApprovedFor
<1>5. \A j \in Incident : effects[j] > 0 => table'[j].approved_by \in Actor
  BY <1>2 DEF TrailKept, TableConsistent
<1>6. \A j \in Incident : table'[j].status = "EXECUTED" =>
        effects[j] > 0 /\ table'[j].execution_result.action = table'[j].rca.remediation
  BY <1>1 DEF TableConsistent
<1>. QED
  BY <1>2, <1>3, <1>4, <1>5, <1>6 DEF TableConsistent, ItemConsistent, ApprovedFor

LEMMA NoWriteKeeps ==
  ASSUME TableConsistent, UNCHANGED <<table, replica, effects>>
  PROVE  TableConsistent' /\ TrailKept
BY DEF TableConsistent, ItemConsistent, ApprovedFor, TrailKept

LEMMA TransitionKeeps ==
  ASSUME TypeRefs, TableConsistent, UNCHANGED effects,
         NEW i \in Incident, NEW to \in Status, NEW item \in Item, NEW out,
         Transition(i, to, item, out),
         table[i].status \in LegalFrom(to) =>
            /\ ItemConsistent([item EXCEPT !.status = to])
            /\ table[i].approved_by \in Actor =>
                 item.approved_by = table[i].approved_by /\ item.rca = table[i].rca
            /\ to = "EXECUTED" =>
                 effects[i] > 0 /\ item.execution_result.action = item.rca.remediation
  PROVE  TableConsistent' /\ TrailKept
<1>1. replica' = replica /\ (table' = table \/ Move(i, to, item)) BY TransitionMoves
<1>2. CASE table' = table BY <1>1, <1>2, NoWriteKeeps
<1>3. CASE Move(i, to, item)
  <2>. DEFINE new == [item EXCEPT !.status = to]
  <2>1. /\ new.status = to /\ new.rca = item.rca /\ new.approved_by = item.approved_by
        /\ new.execution_result = item.execution_result
    BY DEF Item
  <2>2. table[i].status \in LegalFrom(to) /\ table' = [table EXCEPT ![i] = new]
    BY <1>3 DEF Move
  <2>. HIDE DEF new
  <2>. QED BY <1>1, <2>1, <2>2, WriteKeeps DEF new
<1>. QED BY <1>1, <1>2, <1>3

\* A claim, an escalation or a failure: only the status changes.
LEMMA PlainTransitionKeeps ==
  ASSUME TypeRefs, TableConsistent, UNCHANGED effects,
         NEW i \in Incident, NEW to \in {"INVESTIGATING", "ESCALATED", "FAILED"}, NEW out,
         Transition(i, to, table[i], out)
  PROVE  TableConsistent' /\ TrailKept
<1>1. table[i] \in Item /\ ItemConsistent(table[i])
  BY DEF TypeRefs, TypeOK, StoreTypeOK, TableConsistent
<1>. DEFINE item == table[i]
            new  == [item EXCEPT !.status = to]
<1>2. /\ new.status = to /\ new.rca = item.rca
      /\ new.approved_by = item.approved_by /\ new.rejected_by = item.rejected_by
  BY <1>1 DEF Item
<1>3. item.status \in LegalFrom(to) =>
        /\ item.rejected_by \notin Actor
        /\ to # "FAILED" => item.approved_by \notin Actor
  BY <1>1, Edges DEF ItemConsistent
<1>4. item.status \in LegalFrom(to) => ItemConsistent(new)
  <2>. HIDE DEF new
  <2>. QED BY <1>1, <1>2, <1>3 DEF ItemConsistent
<1>. QED BY <1>1, <1>4, TransitionKeeps DEF Status

LEMMA CreateKeeps ==
  ASSUME TypeRefs, TableConsistent, UNCHANGED effects, NEW i \in Incident, NEW out,
         Create(i, out)
  PROVE  TableConsistent' /\ TrailKept
<1>1. CASE UNCHANGED table BY <1>1, NoWriteKeeps DEF Create
<1>2. CASE table[i].status = "MISSING" /\ table' = [table EXCEPT ![i] = NewItem]
  <2>1. ItemConsistent(NewItem) /\ NewItem.status = "NEW"
    BY StoreAssumption DEF NewItem, Missing, ItemConsistent
  <2>2. table[i].approved_by \notin Actor BY <1>2 DEF TableConsistent, ItemConsistent
  <2>. QED BY <1>2, <2>1, <2>2, WriteKeeps DEF Create
<1>. QED BY <1>1, <1>2 DEF Create

LEMMA SuppressKeeps ==
  ASSUME TypeRefs, TableConsistent, UNCHANGED effects, NEW i \in Incident, NEW out,
         Suppress(i, out)
  PROVE  TableConsistent' /\ TrailKept
<1>1. CASE UNCHANGED table BY <1>1, NoWriteKeeps DEF Suppress
<1>2. ASSUME NEW n, table' = [table EXCEPT ![i] = [table[i] EXCEPT !.suppressed_count = n]]
      PROVE  TableConsistent' /\ TrailKept
  <2>. DEFINE item == [table[i] EXCEPT !.suppressed_count = n]
  <2>1. /\ item.status = table[i].status /\ item.rca = table[i].rca
        /\ item.approved_by = table[i].approved_by /\ item.rejected_by = table[i].rejected_by
        /\ item.execution_result = table[i].execution_result
    BY DEF TypeRefs, TypeOK, StoreTypeOK, Item
  <2>2. table' = [table EXCEPT ![i] = item] BY <1>2
  <2>. HIDE DEF item
  <2>3. ItemConsistent(item) BY <2>1 DEF TableConsistent, ItemConsistent
  <2>4. item.status = "EXECUTED" =>
          effects[i] > 0 /\ item.execution_result.action = item.rca.remediation
    BY <2>1 DEF TableConsistent
  <2>5. UNCHANGED <<replica, effects>> BY DEF Suppress
  <2>. QED BY <2>1, <2>2, <2>3, <2>4, <2>5, WriteKeeps
<1>. QED BY <1>1, <1>2 DEF Suppress, TypeRefs, TypeOK, StoreTypeOK

-----------------------------------------------------------------------------
(* The executor's authority outlives what others do *)

EventsKept ==
  \A e \in Event : events[e].state # "unused" => events'[e].incident = events[e].incident

\* What ExecutorAuthorised says of one worker.
Authorised(w) ==
  /\ exec[w].pc \in {"alias", "shift", "flag", "record"} => ApprovedFor(Working(w), exec[w].rca)
  /\ exec[w].pc \in {"alias", "shift"} => exec[w].rca.remediation = "alias_rollback"
  /\ exec[w].pc = "shift" => exec[w].result.action = "alias_rollback"
  /\ exec[w].pc = "flag" => exec[w].rca.remediation = "feature_flag"
  /\ exec[w].pc = "record" => /\ effects[Working(w)] > 0
                              /\ exec[w].result.action = exec[w].rca.remediation

LEMMA WorkerKept ==
  ASSUME TypeRefs, TrailKept, EventsKept, NEW w \in ExecutorWorker, Authorised(w),
         exec'[w] = exec[w],
         \A i \in Incident : effects[i] > 0 => effects'[i] > 0
  PROVE  Authorised(w)'
<1>1. exec[w].pc # "idle" => Working(w) \in Incident /\ Working(w)' = Working(w)
  BY DEF TypeRefs, Refs, EventRefs, ExecutorRefs, EventsKept, Working
<1>2. exec[w].pc \in {"alias", "shift", "flag", "record"} =>
        ApprovedFor(Working(w), exec[w].rca)'
  BY <1>1 DEF Authorised, ApprovedFor, TrailKept
<1>. QED BY <1>1, <1>2 DEF Authorised

LEMMA AuthorityKept ==
  ASSUME TypeRefs, ExecutorAuthorised, TrailKept, EventsKept, UNCHANGED <<exec, effects>>
  PROVE  ExecutorAuthorised'
<1>1. \A w \in ExecutorWorker : Authorised(w) BY DEF ExecutorAuthorised, Authorised
<1>2. \A w \in ExecutorWorker : Authorised(w)' BY <1>1, WorkerKept
<1>. QED BY <1>2 DEF ExecutorAuthorised, Authorised

LEMMA SameEventsKept == UNCHANGED events => EventsKept
BY DEF EventsKept

-----------------------------------------------------------------------------
(* The steps of ingest, agent and approval gate *)

LEMMA IngestKeepsGate ==
  ASSUME TypeRefs, TableConsistent, IngestNext, UNCHANGED <<agentVars, executorVars, gate>>
  PROVE  TableConsistent' /\ TrailKept
<1>1. UNCHANGED effects BY DEF executorVars
<1>2. ASSUME NEW n \in Notification, Publish(n) \/ Republish(n)
      PROVE  TableConsistent' /\ TrailKept
  BY <1>1, <1>2, NoWriteKeeps DEF Publish, Republish, storeVars
<1>3. ASSUME NEW w \in IngestWorker, NEW n \in Notification, IngestIgnore(w, n)
      PROVE  TableConsistent' /\ TrailKept
  BY <1>1, <1>3, NoWriteKeeps DEF IngestIgnore, storeVars
<1>4. ASSUME NEW w \in IngestWorker, NEW n \in Notification, IngestCreate(w, n)
      PROVE  TableConsistent' /\ TrailKept
  <2>1. PICK at \in (IF n.at = NoTime THEN Instant ELSE {n.at}), out \in Outcome :
          Create(build_incident_id(n.name, at), out)
    BY <1>4 DEF IngestCreate
  <2>2. build_incident_id(n.name, at) \in Incident
    BY <1>4, <2>1, IngestAssumption DEF IngestCreate
  <2>. QED BY <1>1, <2>1, <2>2, CreateKeeps
<1>5. ASSUME NEW w \in IngestWorker, IngestSuppress(w)
      PROVE  TableConsistent' /\ TrailKept
  <2>1. ingest[w].incident \in Incident
    BY <1>5 DEF IngestSuppress, TypeRefs, Refs, IngestRefs
  <2>. QED BY <1>1, <1>5, <2>1, SuppressKeeps DEF IngestSuppress
<1>6. ASSUME NEW w \in IngestWorker, IngestSend(w) \/ IngestCrash(w)
      PROVE  TableConsistent' /\ TrailKept
  BY <1>1, <1>6, NoWriteKeeps DEF IngestSend, IngestCrash, storeVars
<1>. QED BY <1>2, <1>3, <1>4, <1>5, <1>6 DEF IngestNext, IngestStep

LEMMA AgentKeepsGate ==
  ASSUME TypeRefs, TableConsistent, AgentNext, UNCHANGED <<ingestVars, executorVars, gate>>
  PROVE  TableConsistent' /\ TrailKept
<1>1. UNCHANGED effects BY DEF executorVars
<1>2. ASSUME NEW w \in AgentWorker, agent[w].pc # "idle"
      PROVE  /\ Held(w) \in Incident /\ table[Held(w)] \in Item
             /\ ItemConsistent(table[Held(w)])
  BY <1>2 DEF TypeRefs, TypeOK, StoreTypeOK, Refs, AgentRefs, QueueRefs, Held, TableConsistent
<1>3. ASSUME NEW w \in AgentWorker, agent[w].pc # "idle",
             NEW to \in {"INVESTIGATING", "ESCALATED", "FAILED"}, NEW out,
             Transition(Held(w), to, table[Held(w)], out)
      PROVE  TableConsistent' /\ TrailKept
  BY <1>1, <1>2, <1>3, PlainTransitionKeeps
<1>4. ASSUME NEW w \in AgentWorker, NEW m \in Message, AgentSkip(w, m) \/ AgentReceive(w, m)
      PROVE  TableConsistent' /\ TrailKept
  BY <1>1, <1>4, NoWriteKeeps DEF AgentSkip, AgentReceive, storeVars
<1>5. ASSUME NEW w \in AgentWorker, AgentClaim(w)
      PROVE  TableConsistent' /\ TrailKept
  BY <1>3, <1>5 DEF AgentClaim
<1>6. ASSUME NEW w \in AgentWorker, NEW r \in Rca, AgentConclude(w, r)
      PROVE  TableConsistent' /\ TrailKept
  <2>. DEFINE item == [table[Held(w)] EXCEPT !.rca = r]
              to   == Route(r)
              new  == [item EXCEPT !.status = to]
  <2>1. agent[w].pc # "idle" BY <1>6 DEF AgentConclude
  <2>2. PICK out : Transition(Held(w), to, item, out) BY <1>6 DEF AgentConclude
  <2>3. /\ item \in Item
        /\ new.status = to /\ new.rca = r
        /\ new.approved_by = table[Held(w)].approved_by
        /\ new.rejected_by = table[Held(w)].rejected_by
    BY <1>2, <2>1 DEF Item
  <2>4. /\ to \in {"ESCALATED", "INFORMATIONAL", "PENDING_APPROVAL"}
        /\ to = "PENDING_APPROVAL" => Proposal(r)
    BY DEF Route, Proposal
  <2>5. table[Held(w)].status \in LegalFrom(to) =>
          table[Held(w)].approved_by \notin Actor /\ table[Held(w)].rejected_by \notin Actor
    BY <1>2, <2>1, <2>4, Edges DEF ItemConsistent
  <2>6. table[Held(w)].status \in LegalFrom(to) => ItemConsistent(new)
    <3>. HIDE DEF new, to, item
    <3>. QED BY <2>3, <2>4, <2>5 DEF ItemConsistent
  <2>7. to \in Status BY <2>4 DEF Status
  <2>. HIDE DEF to, item
  <2>. QED BY <1>1, <1>2, <2>1, <2>2, <2>3, <2>4, <2>5, <2>6, <2>7, TransitionKeeps
<1>7. ASSUME NEW w \in AgentWorker, NEW failure \in RunFailure, AgentFail(w, failure)
      PROVE  TableConsistent' /\ TrailKept
  BY <1>3, <1>7 DEF AgentFail
<1>8. ASSUME (\E w \in AgentWorker : AgentCrash(w)) \/ QueueStep
      PROVE  TableConsistent' /\ TrailKept
  BY <1>1, <1>8, NoWriteKeeps DEF AgentCrash, QueueStep, storeVars
<1>. QED BY <1>4, <1>5, <1>6, <1>7, <1>8 DEF AgentNext, AgentStep

LEMMA ApprovalKeepsGate ==
  ASSUME TypeRefs, TableConsistent, ApprovalNext, UNCHANGED <<work, ingestVars, agentVars>>
  PROVE  TableConsistent' /\ TrailKept /\ EventsKept /\ UNCHANGED <<exec, effects>>
<1>1. UNCHANGED <<exec, effects>>
  BY DEF ApprovalNext, Decision, Approve, Reject, Invoke, ApprovalCrash, executorVars
<1>2. EventsKept
  BY DEF ApprovalNext, Decision, Approve, Reject, Invoke, ApprovalCrash, executorVars,
         EventsKept, Incoming, TypeRefs, TypeOK, ExecutorTypeOK
\* Only an item that awaits a decision is moved.
<1>3. ASSUME NEW i \in Incident, table[i].status = "PENDING_APPROVAL"
      PROVE  /\ Proposal(table[i].rca)
             /\ table[i].approved_by \notin Actor
             /\ table[i].rejected_by = Nobody
  <2>1. ItemConsistent(table[i]) /\ table[i] \in Item
    BY DEF TableConsistent, TypeRefs, TypeOK, StoreTypeOK
  <2>. QED BY <1>3, <2>1 DEF ItemConsistent, Item
<1>4. ASSUME NEW a \in Actor, NEW i \in Incident, Approve(a, i)
      PROVE  TableConsistent' /\ TrailKept
  <2>. DEFINE item == [table[i] EXCEPT !.approved_by = a]
              new  == [item EXCEPT !.status = "APPROVED"]
  <2>1. PICK out : Transition(i, "APPROVED", item, out) BY <1>4 DEF Approve
  <2>2. /\ item \in Item
        /\ new.status = "APPROVED" /\ new.rca = table[i].rca /\ new.approved_by = a
        /\ new.rejected_by = table[i].rejected_by
    BY DEF TypeRefs, TypeOK, StoreTypeOK, Item
  <2>. HIDE DEF new
  <2>3. table[i].status = "PENDING_APPROVAL" => ItemConsistent(new)
    BY <1>3, <2>2, StoreAssumption DEF ItemConsistent
  <2>. HIDE DEF item
  <2>. QED BY <1>1, <1>3, <2>1, <2>2, <2>3, Edges, TransitionKeeps DEF Status, new
<1>5. ASSUME NEW a \in Actor, NEW i \in Incident, Reject(a, i)
      PROVE  TableConsistent' /\ TrailKept
  <2>. DEFINE item == [table[i] EXCEPT !.rejected_by = a]
              new  == [item EXCEPT !.status = "REJECTED"]
  <2>1. PICK out : Transition(i, "REJECTED", item, out) BY <1>5 DEF Reject
  <2>2. /\ item \in Item
        /\ new.status = "REJECTED" /\ new.rca = table[i].rca /\ new.rejected_by = a
        /\ new.approved_by = table[i].approved_by
    BY DEF TypeRefs, TypeOK, StoreTypeOK, Item
  <2>. HIDE DEF new
  <2>3. table[i].status = "PENDING_APPROVAL" => ItemConsistent(new)
    BY <1>3, <2>2 DEF ItemConsistent
  <2>. HIDE DEF item
  <2>. QED BY <1>1, <1>3, <2>1, <2>2, <2>3, Edges, TransitionKeeps DEF Status, new
<1>6. ASSUME NEW a \in Actor, Invoke(a) \/ ApprovalCrash(a)
      PROVE  TableConsistent' /\ TrailKept
  BY <1>1, <1>6, NoWriteKeeps DEF Invoke, ApprovalCrash, storeVars
<1>. QED BY <1>1, <1>2, <1>4, <1>5, <1>6 DEF ApprovalNext, Decision

-----------------------------------------------------------------------------
(* The executor's steps *)

\* One worker moves; its own new state has to be justified, the others' is kept.
LEMMA WorkerMoves ==
  ASSUME TypeRefs, ExecutorAuthorised, TrailKept, EventsKept,
         NEW w \in ExecutorWorker, NEW x, exec' = [exec EXCEPT ![w] = x], Authorised(w)',
         \A i \in Incident : effects[i] > 0 => effects'[i] > 0
  PROVE  ExecutorAuthorised'
<1>1. \A v \in ExecutorWorker : Authorised(v) BY DEF ExecutorAuthorised, Authorised
<1>2. \A v \in ExecutorWorker : v # w => exec'[v] = exec[v]
  BY DEF TypeRefs, TypeOK, ExecutorTypeOK
<1>3. \A v \in ExecutorWorker : Authorised(v)' BY <1>1, <1>2, WorkerKept
<1>. QED BY <1>3 DEF ExecutorAuthorised, Authorised

LEMMA RemediationKnown == ASSUME NEW r \in Rca PROVE r.remediation \in Remediation
<1>1. Errors(r) = {} BY StoreAssumption DEF Valid
<1>2. r.remediation \notin Remediation => "remediation" \in Errors(r) BY DEF Errors
<1>. QED BY <1>1, <1>2

\* What was read as APPROVED, from the table or from a stale copy, is approved
\* and proposes an action; the call chosen for it is that action.
LEMMA ReadIsAuthority ==
  ASSUME TypeRefs, TableConsistent, NEW i \in Incident, NEW item \in Reads(i),
         item.status \in {"APPROVED", "MISSING"}
  PROVE  /\ NextCall(item) \in {"alias", "flag", "fail"}
         /\ NextCall(item) # "fail" => ApprovedFor(i, item.rca)
         /\ NextCall(item) = "alias" => item.rca.remediation = "alias_rollback"
         /\ NextCall(item) = "flag" => item.rca.remediation = "feature_flag"
<1>1. CASE item.status = "MISSING" BY <1>1 DEF NextCall
<1>2. CASE item.status = "APPROVED"
  <2>1. ItemConsistent(table[i]) BY DEF TableConsistent
  <2>2. ApprovedFor(i, item.rca)
    BY <1>2, <2>1 DEF Reads, TableConsistent, ItemConsistent, ApprovedFor
  <2>3. Proposal(item.rca) BY <2>1, <2>2 DEF ApprovedFor, ItemConsistent
  <2>4. item.rca # NoRca /\ item.rca.remediation \in {"alias_rollback", "feature_flag"}
    BY <2>3, StoreAssumption, RemediationKnown DEF Proposal, Remediation
  <2>. QED BY <1>2, <2>2, <2>4 DEF NextCall, Remedy
<1>. QED BY <1>1, <1>2

LEMMA ExecutorKeepsGate ==
  ASSUME TypeRefs, TableConsistent, ExecutorAuthorised, ExecutorNext,
         UNCHANGED <<work, ingestVars, agentVars, gate>>
  PROVE  TableConsistent' /\ ExecutorAuthorised'
<1>1. ASSUME NEW w \in ExecutorWorker, exec[w].pc # "idle"
      PROVE  /\ exec[w] \in Invocation /\ exec[w].event \in Event
             /\ Working(w) \in Incident
             /\ effects \in [Incident -> Nat]
             /\ Authorised(w)
  BY <1>1 DEF TypeRefs, TypeOK, ExecutorTypeOK, Refs, EventRefs, ExecutorRefs, Working,
              ExecutorAuthorised, Authorised
<1>2. UNCHANGED <<storeVars, effects>> => TableConsistent' /\ TrailKept
  BY NoWriteKeeps DEF storeVars
\* An invocation that ends keeps the events' incidents and justifies nothing.
<1>3. ASSUME NEW w \in ExecutorWorker, ExecutorReturns(w) \/ ExecutorRaises(w),
             TrailKept, UNCHANGED effects
      PROVE  ExecutorAuthorised'
  <2>1. EventsKept
    BY <1>3 DEF ExecutorReturns, ExecutorRaises, EventsKept, TypeRefs, TypeOK, ExecutorTypeOK
  <2>2. exec' = [exec EXCEPT ![w] = ExecutorIdle] BY <1>3 DEF ExecutorReturns, ExecutorRaises
  <2>3. exec'[w].pc = "idle" BY <2>2 DEF TypeRefs, TypeOK, ExecutorTypeOK, ExecutorIdle
  <2>4. Authorised(w)' BY <2>3 DEF Authorised
  <2>5. \A i \in Incident : effects[i] > 0 => effects'[i] > 0 BY <1>3
  <2>. QED BY <1>3, <2>1, <2>2, <2>4, <2>5, WorkerMoves
\* Nor does one that goes on to report failure.
<1>4. ASSUME NEW w \in ExecutorWorker, Goto(w, "fail"), UNCHANGED events, TrailKept,
             \A i \in Incident : effects[i] > 0 => effects'[i] > 0
      PROVE  ExecutorAuthorised'
  <2>1. exec'[w].pc = "fail" BY <1>4 DEF Goto, TypeRefs, TypeOK, ExecutorTypeOK, Invocation
  <2>2. Authorised(w)' BY <2>1 DEF Authorised
  <2>3. exec' = [exec EXCEPT ![w] = [exec[w] EXCEPT !.pc = "fail"]] BY <1>4 DEF Goto
  <2>4. EventsKept BY <1>4, SameEventsKept
  <2>. QED BY <1>4, <2>2, <2>3, <2>4, WorkerMoves
\* An effect on behalf of an approved incident keeps the table consistent.
<1>5. ASSUME NEW w \in ExecutorWorker, exec[w].pc \in {"shift", "flag"}, Effect(w),
             UNCHANGED storeVars
      PROVE  /\ TableConsistent' /\ TrailKept
             /\ \A i \in Incident : effects[i] > 0 => effects'[i] > 0
             /\ effects'[Working(w)] > 0
  <2>1. /\ effects'[Working(w)] = effects[Working(w)] + 1
        /\ effects[Working(w)] \in Nat
        /\ \A i \in Incident : i # Working(w) => effects'[i] = effects[i]
    BY <1>1, <1>5 DEF Effect
  <2>2. table[Working(w)].approved_by \in Actor BY <1>1, <1>5 DEF Authorised, ApprovedFor
  <2>3. TrailKept BY <1>5 DEF TrailKept, storeVars
  <2>4. TableConsistent'
    BY <1>5, <2>1, <2>2 DEF TableConsistent, ItemConsistent, ApprovedFor, storeVars
  <2>. QED BY <2>1, <2>3, <2>4
<1>6. ASSUME NEW w \in ExecutorWorker, NEW e \in Event, ExecutorSkip(w, e)
      PROVE  TableConsistent' /\ ExecutorAuthorised'
  <2>1. EventsKept
    BY <1>6 DEF ExecutorSkip, Deliver, EventsKept, TypeRefs, TypeOK, ExecutorTypeOK
  <2>. QED BY <1>2, <1>6, <2>1, AuthorityKept DEF ExecutorSkip
<1>7. ASSUME NEW w \in ExecutorWorker, NEW e \in Event, ExecutorReceive(w, e)
      PROVE  TableConsistent' /\ ExecutorAuthorised'
  <2>1. PICK item \in Reads(events[e].incident) :
          /\ item.status \in {"APPROVED", "MISSING"}
          /\ exec' = [exec EXCEPT ![w] = [pc |-> NextCall(item), event |-> e, rca |-> item.rca,
                                          result |-> [NoResult EXCEPT !.action = "none"]]]
    BY <1>7 DEF ExecutorReceive
  <2>2. EventsKept /\ events'[e].incident = events[e].incident /\ events[e].incident \in Incident
    BY <1>7 DEF ExecutorReceive, Deliver, EventsKept, TypeRefs, TypeOK, ExecutorTypeOK, Refs,
                EventRefs
  <2>3. TableConsistent' /\ TrailKept /\ UNCHANGED <<table, effects>>
    BY <1>2, <1>7 DEF ExecutorReceive, storeVars
  <2>4. exec'[w].pc = NextCall(item) /\ exec'[w].rca = item.rca /\ exec'[w].event = e
    BY <2>1 DEF TypeRefs, TypeOK, ExecutorTypeOK
  <2>5. Working(w)' = events[e].incident BY <2>2, <2>4 DEF Working
  <2>6. Authorised(w)'
    <3>1. ApprovedFor(events[e].incident, item.rca) => ApprovedFor(Working(w), exec[w].rca)'
      BY <2>3, <2>4, <2>5 DEF ApprovedFor
    <3>. QED BY <2>1, <2>2, <2>4, <3>1, ReadIsAuthority DEF Authorised
  <2>. QED BY <2>1, <2>2, <2>3, <2>6, WorkerMoves
<1>8. ASSUME NEW w \in ExecutorWorker, ExecutorReadAlias(w)
      PROVE  TableConsistent' /\ ExecutorAuthorised'
  <2>1. TableConsistent' /\ TrailKept /\ UNCHANGED <<table, effects, events>>
    BY <1>2, <1>8 DEF ExecutorReadAlias, storeVars
  <2>2. CASE Goto(w, "fail") BY <1>4, <2>1, <2>2
  <2>3. ASSUME NEW from, NEW to,
               exec' = [exec EXCEPT ![w].pc = "shift",
                          ![w].result = [action |-> "alias_rollback", from |-> from, to |-> to]]
        PROVE  ExecutorAuthorised'
    <3>. DEFINE x == [exec[w] EXCEPT !.pc = "shift",
                        !.result = [action |-> "alias_rollback", from |-> from, to |-> to]]
    <3>1. exec' = [exec EXCEPT ![w] = x] BY <2>3 DEF TypeRefs, TypeOK, ExecutorTypeOK
    <3>2. exec[w] \in Invocation /\ exec[w].pc = "alias" /\ Authorised(w)
      BY <1>1, <1>8 DEF ExecutorReadAlias
    <3>3. /\ x.pc = "shift" /\ x.rca = exec[w].rca /\ x.event = exec[w].event
          /\ x.result.action = "alias_rollback"
      BY <3>2 DEF Invocation
    <3>. HIDE DEF x
    <3>4. exec'[w] = x BY <3>1 DEF TypeRefs, TypeOK, ExecutorTypeOK
    <3>5. Authorised(w)' BY <2>1, <3>2, <3>3, <3>4 DEF Authorised, Working, ApprovedFor
    <3>. QED BY <2>1, <3>1, <3>5, WorkerMoves, SameEventsKept
  <2>. QED BY <1>8, <2>1, <2>2, <2>3 DEF ExecutorReadAlias
<1>9. ASSUME NEW w \in ExecutorWorker, ExecutorShift(w)
      PROVE  TableConsistent' /\ ExecutorAuthorised'
  <2>1. exec[w].pc = "shift" /\ UNCHANGED storeVars /\ UNCHANGED events
    BY <1>9 DEF ExecutorShift
  <2>2. CASE Effect(w) /\ Goto(w, "record")
    <3>1. /\ TableConsistent' /\ TrailKept /\ effects'[Working(w)] > 0
          /\ \A i \in Incident : effects[i] > 0 => effects'[i] > 0
      BY <1>5, <2>1, <2>2
    <3>2. exec[w] \in Invocation /\ Authorised(w) BY <1>1, <2>1
    <3>3. exec'[w] = [exec[w] EXCEPT !.pc = "record"]
      BY <2>2 DEF Goto, TypeRefs, TypeOK, ExecutorTypeOK
    <3>4. Authorised(w)'
      BY <2>1, <3>1, <3>2, <3>3 DEF Authorised, Working, ApprovedFor, Invocation, storeVars
    <3>. QED BY <2>1, <2>2, <3>1, <3>4, WorkerMoves, SameEventsKept DEF Goto
  <2>3. CASE Effect(w) /\ Goto(w, "fail") BY <1>4, <1>5, <2>1, <2>3
  <2>4. CASE NoEffect /\ Goto(w, "fail") BY <1>2, <1>4, <2>1, <2>4 DEF NoEffect
  <2>. QED BY <1>9, <2>2, <2>3, <2>4 DEF ExecutorShift
<1>10. ASSUME NEW w \in ExecutorWorker, ExecutorDisableFlag(w)
       PROVE  TableConsistent' /\ ExecutorAuthorised'
  <2>1. exec[w].pc = "flag" /\ UNCHANGED storeVars /\ UNCHANGED events
    BY <1>10 DEF ExecutorDisableFlag
  <2>2. CASE /\ Effect(w)
             /\ exec' = [exec EXCEPT ![w].pc = "record", ![w].result.action = "feature_flag"]
    <3>1. /\ TableConsistent' /\ TrailKept /\ effects'[Working(w)] > 0
          /\ \A i \in Incident : effects[i] > 0 => effects'[i] > 0
      BY <1>5, <2>1, <2>2
    <3>2. exec[w] \in Invocation /\ Authorised(w) BY <1>1, <2>1
    <3>. DEFINE x == [exec[w] EXCEPT !.pc = "record", !.result.action = "feature_flag"]
    <3>3. exec' = [exec EXCEPT ![w] = x] BY <2>2 DEF TypeRefs, TypeOK, ExecutorTypeOK
    <3>4. /\ x.pc = "record" /\ x.rca = exec[w].rca /\ x.event = exec[w].event
          /\ x.result.action = "feature_flag"
      BY <3>2 DEF Invocation, Result
    <3>. HIDE DEF x
    <3>5. exec'[w] = x BY <3>3 DEF TypeRefs, TypeOK, ExecutorTypeOK
    <3>6. Authorised(w)'
      BY <2>1, <3>1, <3>2, <3>4, <3>5 DEF Authorised, Working, ApprovedFor, storeVars
    <3>. QED BY <2>1, <3>1, <3>3, <3>6, WorkerMoves, SameEventsKept
  <2>3. CASE Effect(w) /\ Goto(w, "fail") BY <1>4, <1>5, <2>1, <2>3
  <2>4. CASE NoEffect /\ Goto(w, "fail") BY <1>2, <1>4, <2>1, <2>4 DEF NoEffect
  <2>. QED BY <1>10, <2>2, <2>3, <2>4 DEF ExecutorDisableFlag
<1>11. ASSUME NEW w \in ExecutorWorker, ExecutorRecord(w)
       PROVE  TableConsistent' /\ ExecutorAuthorised'
  <2>. DEFINE i    == Working(w)
              item == [table[i] EXCEPT !.execution_result = exec[w].result]
              new  == [item EXCEPT !.status = "EXECUTED"]
  <2>1. exec[w].pc = "record" /\ UNCHANGED effects BY <1>11 DEF ExecutorRecord
  <2>2. PICK out : Transition(i, "EXECUTED", item, out) BY <1>11 DEF ExecutorRecord
  <2>3. /\ i \in Incident /\ table[i] \in Item /\ exec[w].result \in Result
        /\ ItemConsistent(table[i]) /\ Authorised(w)
    BY <1>1, <2>1 DEF TypeRefs, TypeOK, StoreTypeOK, TableConsistent, Invocation
  <2>4. /\ item \in Item
        /\ item.rca = table[i].rca /\ item.approved_by = table[i].approved_by
        /\ item.execution_result = exec[w].result
        /\ new.status = "EXECUTED" /\ new.rca = table[i].rca
        /\ new.approved_by = table[i].approved_by /\ new.rejected_by = table[i].rejected_by
    BY <2>3 DEF Item
  <2>5. effects[i] > 0 /\ exec[w].result.action = table[i].rca.remediation
    BY <2>1, <2>3 DEF Authorised, ApprovedFor
  <2>6. table[i].status = "APPROVED" => ItemConsistent(new)
    <3>. HIDE DEF new, item, i
    <3>. QED BY <2>3, <2>4 DEF ItemConsistent
  <2>. HIDE DEF i, item
  <2>7. TableConsistent' /\ TrailKept
    BY <2>1, <2>2, <2>3, <2>4, <2>5, <2>6, Edges, TransitionKeeps DEF Status
  <2>8. CASE ExecutorReturns(w) \/ ExecutorRaises(w) BY <1>3, <2>1, <2>7, <2>8
  <2>9. CASE Goto(w, "fail") /\ UNCHANGED events BY <1>4, <2>1, <2>7, <2>9
  <2>. QED BY <1>11, <2>8, <2>9 DEF ExecutorRecord
<1>12. ASSUME NEW w \in ExecutorWorker, ExecutorFail(w)
       PROVE  TableConsistent' /\ ExecutorAuthorised'
  <2>1. exec[w].pc # "idle" /\ UNCHANGED effects BY <1>12 DEF ExecutorFail
  <2>2. TableConsistent' /\ TrailKept
    BY <1>1, <1>12, <2>1, PlainTransitionKeeps DEF ExecutorFail
  <2>. QED BY <1>3, <1>12, <2>1, <2>2 DEF ExecutorFail
<1>13. ASSUME NEW w \in ExecutorWorker, ExecutorCrash(w)
       PROVE  TableConsistent' /\ ExecutorAuthorised'
  BY <1>2, <1>3, <1>13 DEF ExecutorCrash
<1>14. ASSUME NEW e \in Event, DuplicateEvent(e)
       PROVE  TableConsistent' /\ ExecutorAuthorised'
  <2>1. EventsKept
    BY <1>14 DEF DuplicateEvent, Incoming, EventsKept, TypeRefs, TypeOK, ExecutorTypeOK
  <2>. QED BY <1>2, <1>14, <2>1, AuthorityKept DEF DuplicateEvent
<1>15. ASSUME NEW f \in Function, Deploy(f)
       PROVE  TableConsistent' /\ ExecutorAuthorised'
  BY <1>2, <1>15, AuthorityKept, SameEventsKept DEF Deploy
<1>. QED BY <1>6, <1>7, <1>8, <1>9, <1>10, <1>11, <1>12, <1>13, <1>14, <1>15
         DEF ExecutorNext, ExecutorStep

-----------------------------------------------------------------------------
(* The invariant and what follows from it *)

LEMMA InitGate == Init => TableConsistent /\ ExecutorAuthorised
<1>. SUFFICES ASSUME Init PROVE TableConsistent /\ ExecutorAuthorised OBVIOUS
<1>1. ItemConsistent(Missing) BY StoreAssumption DEF ItemConsistent, Missing
<1>2. TableConsistent
  BY <1>1 DEF Init, StoreInit, ExecutorInit, TableConsistent, Missing
<1>3. ExecutorAuthorised BY DEF Init, ExecutorInit, ExecutorIdle, ExecutorAuthorised
<1>. QED BY <1>2, <1>3

LEMMA NextGate ==
  TypeRefs /\ TableConsistent /\ ExecutorAuthorised /\ [Next]_vars =>
    TableConsistent' /\ ExecutorAuthorised'
<1>. SUFFICES ASSUME TypeRefs, TableConsistent, ExecutorAuthorised, [Next]_vars
              PROVE  TableConsistent' /\ ExecutorAuthorised'
  OBVIOUS
<1>1. CASE IngestNext /\ UNCHANGED <<agentVars, executorVars, gate>>
  BY <1>1, IngestKeepsGate, AuthorityKept, SameEventsKept DEF executorVars
<1>2. CASE AgentNext /\ UNCHANGED <<ingestVars, executorVars, gate>>
  BY <1>2, AgentKeepsGate, AuthorityKept, SameEventsKept DEF executorVars
<1>3. CASE ApprovalNext /\ UNCHANGED <<work, ingestVars, agentVars>>
  BY <1>3, ApprovalKeepsGate, AuthorityKept
<1>4. CASE ExecutorNext /\ UNCHANGED <<work, ingestVars, agentVars, gate>>
  BY <1>4, ExecutorKeepsGate
<1>5. CASE Replication
  <2>1. PICK i \in Incident : Propagate(i) BY <1>5 DEF Replication
  <2>2. table' = table /\ replica' = [replica EXCEPT ![i] = table[i]] BY <2>1 DEF Propagate
  <2>3. UNCHANGED <<exec, effects, events>> BY <1>5 DEF Replication, executorVars
  <2>4. \A j \in Incident : replica'[j] = replica[j] \/ replica'[j] = table[j]
    BY <2>2 DEF TypeRefs, TypeOK, StoreTypeOK
  <2>5. TableConsistent'
    BY <2>2, <2>3, <2>4 DEF TableConsistent, ItemConsistent, ApprovedFor
  <2>6. TrailKept BY <2>2 DEF TrailKept
  <2>. QED BY <2>3, <2>5, <2>6, AuthorityKept, SameEventsKept
<1>6. CASE UNCHANGED vars
  BY <1>6, NoWriteKeeps, AuthorityKept, SameEventsKept DEF vars
<1>. QED BY <1>1, <1>2, <1>3, <1>4, <1>5, <1>6 DEF Next

\* The trail of an approval is an invariant of every behaviour of the pipeline,
\* crashes, duplicates, lost replies and stale reads included.
THEOREM Invariant == Spec => []IInv
<1>1. Init => TypeRefs /\ TableConsistent /\ ExecutorAuthorised BY InitTypes, InitGate
<1>2. TypeRefs /\ TableConsistent /\ ExecutorAuthorised /\ [Next]_vars =>
        (TypeRefs /\ TableConsistent /\ ExecutorAuthorised)'
  BY NextTypes, NextGate
<1>3. TypeRefs /\ TableConsistent /\ ExecutorAuthorised => IInv BY DEF TypeRefs, IInv
<1>. QED BY <1>1, <1>2, <1>3, PTL DEF Spec

\* execute() acts only for an incident a human approved and nobody rejected,
\* whose valid RCA proposed an action: "a bad proposal but never a bad action".
THEOREM GateHolds == Spec => []HumanGate
<1>1. IInv => HumanGate
  BY DEF IInv, TableConsistent, ItemConsistent, HumanGate, Proposal
<1>. QED BY <1>1, Invariant, PTL

\* transition(EXECUTED) is only ever reached with the approved action carried out.
THEOREM ExecutedIsHonest == Spec => []ExecutedMeansDone
<1>1. IInv => ExecutedMeansDone BY DEF IInv, TableConsistent, ExecutedMeansDone
<1>. QED BY <1>1, Invariant, PTL

\* The RCA an executor works from is the one on the approved incident, however
\* stale the read of get_incident was.
THEOREM ApprovedRcaOnly == Spec => []WorksFromApprovedRca
<1>1. IInv => WorksFromApprovedRca
  BY DEF IInv, ExecutorAuthorised, ApprovedFor, WorksFromApprovedRca
<1>. QED BY <1>1, Invariant, PTL

-----------------------------------------------------------------------------
(* What one step may do to the table *)

SameStory(old, new) == /\ new.rca = old.rca
                       /\ new.approved_by = old.approved_by
                       /\ new.rejected_by = old.rejected_by

\* The edges along which an item moves without a word added to its story.
SilentEdges == {<<"NEW", "INVESTIGATING">>, <<"NEW", "FAILED">>,
                <<"INVESTIGATING", "ESCALATED">>, <<"INVESTIGATING", "FAILED">>,
                <<"APPROVED", "EXECUTED">>, <<"APPROVED", "FAILED">>}

\* Created, moved silently (or counted once more), concluded, approved, rejected.
ItemStep(old, new) ==
  \/ old.status = "MISSING" /\ new = NewItem
  \/ /\ new.status = old.status /\ SameStory(old, new)
     /\ new.execution_result = old.execution_result
  \/ <<old.status, new.status>> \in SilentEdges /\ SameStory(old, new)
  \/ /\ old.status = "INVESTIGATING"
     /\ new.status \in {"ESCALATED", "INFORMATIONAL", "PENDING_APPROVAL"}
     /\ new.rca \in Rca
     /\ new.approved_by = old.approved_by
     /\ new.rejected_by = old.rejected_by
  \/ /\ old.status = "PENDING_APPROVAL" /\ new.status = "APPROVED"
     /\ new.rca = old.rca
     /\ new.approved_by \in Actor
     /\ new.rejected_by = old.rejected_by
  \/ /\ old.status = "PENDING_APPROVAL" /\ new.status = "REJECTED"
     /\ new.rca = old.rca
     /\ new.approved_by = old.approved_by
     /\ new.rejected_by \in Actor

\* Item i takes such a step and no other item does; only an investigation
\* under way adds an RCA.
Step(i) ==
  /\ \A j \in Incident : j # i => table'[j] = table[j]
  /\ ItemStep(table[i], table'[i])
  /\ table[i].status # "MISSING" /\ table'[i].rca # table[i].rca =>
        \E w \in AgentWorker : agent[w].pc = "run" /\ Held(w) = i

TableStep == UNCHANGED table \/ \E i \in Incident : Step(i)

LEMMA TransitionSteps ==
  ASSUME TypeRefs, NEW i \in Incident, NEW to, NEW item \in Item, NEW out,
         Transition(i, to, item, out),
         table[i].status \in LegalFrom(to) => ItemStep(table[i], [item EXCEPT !.status = to]),
         item.rca # table[i].rca => \E w \in AgentWorker : agent[w].pc = "run" /\ Held(w) = i
  PROVE  TableStep
<1>1. table' = table \/ Move(i, to, item) BY TransitionMoves
<1>2. CASE Move(i, to, item)
  <2>. DEFINE new == [item EXCEPT !.status = to]
  <2>1. table[i].status \in LegalFrom(to) /\ table' = [table EXCEPT ![i] = new]
    BY <1>2 DEF Move
  <2>2. new.rca = item.rca BY DEF Item
  <2>. HIDE DEF new
  <2>3. table'[i] = new /\ \A j \in Incident : j # i => table'[j] = table[j]
    BY <2>1 DEF TypeRefs, TypeOK, StoreTypeOK
  <2>. QED BY <2>1, <2>2, <2>3 DEF Step, TableStep, new
<1>. QED BY <1>1, <1>2 DEF TableStep

LEMMA SilentTransitionSteps ==
  ASSUME TypeRefs, NEW i \in Incident, NEW to \in {"INVESTIGATING", "ESCALATED", "FAILED"},
         NEW out, Transition(i, to, table[i], out)
  PROVE  TableStep
<1>1. table[i] \in Item BY DEF TypeRefs, TypeOK, StoreTypeOK
<1>. DEFINE old == table[i]
            new == [old EXCEPT !.status = to]
<1>2. new.status = to /\ SameStory(old, new) BY <1>1 DEF Item, SameStory
<1>3. old.status \in LegalFrom(to) => <<old.status, to>> \in SilentEdges
  BY <1>1, Edges DEF SilentEdges
<1>4. old.status \in LegalFrom(to) => ItemStep(old, new)
  <2>. HIDE DEF new, old
  <2>. QED BY <1>2, <1>3 DEF ItemStep
<1>. QED BY <1>1, <1>4, TransitionSteps

LEMMA CreateSteps ==
  ASSUME TypeRefs, NEW i \in Incident, NEW out, Create(i, out)
  PROVE  TableStep
<1>1. CASE table[i].status = "MISSING" /\ table' = [table EXCEPT ![i] = NewItem]
  BY <1>1 DEF TypeRefs, TypeOK, StoreTypeOK, Step, ItemStep, TableStep
<1>. QED BY <1>1 DEF Create, TableStep

LEMMA SuppressSteps ==
  ASSUME TypeRefs, NEW i \in Incident, NEW out, Suppress(i, out)
  PROVE  TableStep
<1>1. table[i] \in Item BY DEF TypeRefs, TypeOK, StoreTypeOK
<1>2. ASSUME NEW n, table' = [table EXCEPT ![i] = [table[i] EXCEPT !.suppressed_count = n]]
      PROVE  TableStep
  <2>. DEFINE new == [table[i] EXCEPT !.suppressed_count = n]
  <2>1. /\ new.status = table[i].status /\ SameStory(table[i], new)
        /\ new.execution_result = table[i].execution_result
    BY <1>1 DEF Item, SameStory
  <2>2. table' = [table EXCEPT ![i] = new] BY <1>2
  <2>. HIDE DEF new
  <2>3. table'[i] = new /\ \A j \in Incident : j # i => table'[j] = table[j]
    BY <2>2 DEF TypeRefs, TypeOK, StoreTypeOK
  <2>. QED BY <2>1, <2>3 DEF Step, ItemStep, TableStep, SameStory
<1>3. UNCHANGED table \/ \E n : table' = [table EXCEPT ![i] =
                                           [table[i] EXCEPT !.suppressed_count = n]]
  BY DEF Suppress, TypeRefs, TypeOK, StoreTypeOK
<1>. QED BY <1>2, <1>3 DEF TableStep

LEMMA IngestSteps ==
  ASSUME TypeRefs, IngestNext
  PROVE  TableStep
<1>1. ASSUME NEW w \in IngestWorker, NEW n \in Notification, IngestCreate(w, n)
      PROVE  TableStep
  <2>1. PICK at \in (IF n.at = NoTime THEN Instant ELSE {n.at}), out \in Outcome :
          Create(build_incident_id(n.name, at), out)
    BY <1>1 DEF IngestCreate
  <2>2. build_incident_id(n.name, at) \in Incident
    BY <1>1, <2>1, IngestAssumption DEF IngestCreate
  <2>. QED BY <2>1, <2>2, CreateSteps
<1>2. ASSUME NEW w \in IngestWorker, IngestSuppress(w)
      PROVE  TableStep
  <2>1. ingest[w].incident \in Incident
    BY <1>2 DEF IngestSuppress, TypeRefs, Refs, IngestRefs
  <2>. QED BY <1>2, <2>1, SuppressSteps DEF IngestSuppress
<1>3. ASSUME \/ \E n \in Notification : Publish(n) \/ Republish(n)
             \/ \E w \in IngestWorker, n \in Notification : IngestIgnore(w, n)
             \/ \E w \in IngestWorker : IngestSend(w) \/ IngestCrash(w)
      PROVE  TableStep
  BY <1>3 DEF Publish, Republish, IngestIgnore, IngestSend, IngestCrash, storeVars, TableStep
<1>. QED BY <1>1, <1>2, <1>3 DEF IngestNext, IngestStep

LEMMA AgentSteps ==
  ASSUME TypeRefs, AgentNext
  PROVE  TableStep
<1>1. ASSUME NEW w \in AgentWorker, agent[w].pc # "idle"
      PROVE  Held(w) \in Incident /\ table[Held(w)] \in Item
  BY <1>1 DEF TypeRefs, TypeOK, StoreTypeOK, Refs, AgentRefs, QueueRefs, Held
<1>2. ASSUME NEW w \in AgentWorker, AgentClaim(w)
      PROVE  TableStep
  BY <1>1, <1>2, SilentTransitionSteps DEF AgentClaim
<1>3. ASSUME NEW w \in AgentWorker, NEW failure \in RunFailure, AgentFail(w, failure)
      PROVE  TableStep
  BY <1>1, <1>3, SilentTransitionSteps DEF AgentFail
<1>4. ASSUME NEW w \in AgentWorker, NEW r \in Rca, AgentConclude(w, r)
      PROVE  TableStep
  <2>. DEFINE old  == table[Held(w)]
              item == [old EXCEPT !.rca = r]
              to   == Route(r)
              new  == [item EXCEPT !.status = to]
  <2>1. agent[w].pc = "run" BY <1>4 DEF AgentConclude
  <2>2. PICK out : Transition(Held(w), to, item, out) BY <1>4 DEF AgentConclude
  <2>3. /\ item \in Item
        /\ new.status = to /\ new.rca = r
        /\ new.approved_by = old.approved_by /\ new.rejected_by = old.rejected_by
    BY <1>1, <2>1 DEF Item
  <2>4. to \in {"ESCALATED", "INFORMATIONAL", "PENDING_APPROVAL"} BY DEF Route
  <2>5. old.status \in LegalFrom(to) => ItemStep(old, new)
    <3>. HIDE DEF old, item, to, new
    <3>. QED BY <2>3, <2>4, Edges DEF ItemStep
  <2>. HIDE DEF item, to
  <2>. QED BY <1>1, <2>1, <2>2, <2>3, <2>5, TransitionSteps
<1>5. ASSUME \/ \E w \in AgentWorker, m \in Message : AgentSkip(w, m) \/ AgentReceive(w, m)
             \/ \E w \in AgentWorker : AgentCrash(w)
             \/ QueueStep
      PROVE  TableStep
  BY <1>5 DEF AgentSkip, AgentReceive, AgentCrash, QueueStep, storeVars, TableStep
<1>. QED BY <1>2, <1>3, <1>4, <1>5 DEF AgentNext, AgentStep

LEMMA ApprovalSteps ==
  ASSUME TypeRefs, ApprovalNext
  PROVE  TableStep
<1>1. ASSUME NEW a \in Actor, NEW i \in Incident, Approve(a, i)
      PROVE  TableStep
  <2>. DEFINE old  == table[i]
              item == [old EXCEPT !.approved_by = a]
              new  == [item EXCEPT !.status = "APPROVED"]
  <2>1. PICK out : Transition(i, "APPROVED", item, out) BY <1>1 DEF Approve
  <2>2. /\ item \in Item /\ item.rca = old.rca
        /\ new.status = "APPROVED" /\ new.rca = old.rca
        /\ new.approved_by = a /\ new.rejected_by = old.rejected_by
    BY DEF TypeRefs, TypeOK, StoreTypeOK, Item
  <2>3. old.status \in LegalFrom("APPROVED") => ItemStep(old, new)
    <3>. HIDE DEF old, item, new
    <3>. QED BY <2>2, Edges DEF ItemStep
  <2>. HIDE DEF item
  <2>. QED BY <2>1, <2>2, <2>3, TransitionSteps
<1>2. ASSUME NEW a \in Actor, NEW i \in Incident, Reject(a, i)
      PROVE  TableStep
  <2>. DEFINE old  == table[i]
              item == [old EXCEPT !.rejected_by = a]
              new  == [item EXCEPT !.status = "REJECTED"]
  <2>1. PICK out : Transition(i, "REJECTED", item, out) BY <1>2 DEF Reject
  <2>2. /\ item \in Item /\ item.rca = old.rca
        /\ new.status = "REJECTED" /\ new.rca = old.rca
        /\ new.approved_by = old.approved_by /\ new.rejected_by = a
    BY DEF TypeRefs, TypeOK, StoreTypeOK, Item
  <2>3. old.status \in LegalFrom("REJECTED") => ItemStep(old, new)
    <3>. HIDE DEF old, item, new
    <3>. QED BY <2>2, Edges DEF ItemStep
  <2>. HIDE DEF item
  <2>. QED BY <2>1, <2>2, <2>3, TransitionSteps
<1>3. ASSUME NEW a \in Actor, Invoke(a) \/ ApprovalCrash(a)
      PROVE  TableStep
  BY <1>3 DEF Invoke, ApprovalCrash, storeVars, TableStep
<1>. QED BY <1>1, <1>2, <1>3 DEF ApprovalNext, Decision

LEMMA ExecutorSteps ==
  ASSUME TypeRefs, ExecutorNext
  PROVE  TableStep
<1>1. ASSUME NEW w \in ExecutorWorker, exec[w].pc # "idle"
      PROVE  exec[w] \in Invocation /\ Working(w) \in Incident /\ table[Working(w)] \in Item
  BY <1>1 DEF TypeRefs, TypeOK, StoreTypeOK, ExecutorTypeOK, Refs, EventRefs, ExecutorRefs, Working
<1>2. ASSUME NEW w \in ExecutorWorker, ExecutorFail(w)
      PROVE  TableStep
  BY <1>1, <1>2, SilentTransitionSteps DEF ExecutorFail
<1>3. ASSUME NEW w \in ExecutorWorker, ExecutorRecord(w)
      PROVE  TableStep
  <2>. DEFINE old  == table[Working(w)]
              item == [old EXCEPT !.execution_result = exec[w].result]
              new  == [item EXCEPT !.status = "EXECUTED"]
  <2>1. exec[w].pc # "idle" BY <1>3 DEF ExecutorRecord
  <2>2. PICK out : Transition(Working(w), "EXECUTED", item, out) BY <1>3 DEF ExecutorRecord
  <2>3. /\ item \in Item /\ item.rca = old.rca
        /\ new.status = "EXECUTED" /\ SameStory(old, new)
    BY <1>1, <2>1 DEF Item, Invocation, SameStory
  <2>4. old.status \in LegalFrom("EXECUTED") => ItemStep(old, new)
    <3>. HIDE DEF old, item, new
    <3>. QED BY <2>3, Edges DEF ItemStep, SilentEdges
  <2>. HIDE DEF item
  <2>. QED BY <1>1, <2>1, <2>2, <2>3, <2>4, TransitionSteps
<1>4. ASSUME \/ \E w \in ExecutorWorker :
                   \/ \E e \in Event : ExecutorSkip(w, e) \/ ExecutorReceive(w, e)
                   \/ ExecutorReadAlias(w) \/ ExecutorShift(w) \/ ExecutorDisableFlag(w)
                   \/ ExecutorCrash(w)
             \/ \E e \in Event : DuplicateEvent(e)
             \/ \E f \in Function : Deploy(f)
      PROVE  TableStep
  BY <1>4 DEF ExecutorSkip, ExecutorReceive, ExecutorReadAlias, ExecutorShift,
              ExecutorDisableFlag, ExecutorCrash, DuplicateEvent, Deploy, storeVars, TableStep
<1>. QED BY <1>2, <1>3, <1>4 DEF ExecutorNext, ExecutorStep

LEMMA TableSteps ==
  ASSUME TypeRefs, [Next]_vars
  PROVE  TableStep
<1>1. CASE Replication BY <1>1 DEF Replication, Propagate, TableStep
<1>2. CASE UNCHANGED vars BY <1>2 DEF vars, TableStep
<1>. QED BY <1>1, <1>2, IngestSteps, AgentSteps, ApprovalSteps, ExecutorSteps DEF Next

-----------------------------------------------------------------------------
(* A decision stands *)

\* Until its investigation concluded, an incident has no RCA.
UndecidedIsBlank ==
  \A i \in Incident :
     table[i].status \in {"MISSING", "NEW", "INVESTIGATING"} => table[i].rca = NoRca

LEMMA StepKeepsBlank ==
  ASSUME UndecidedIsBlank, TableStep
  PROVE  UndecidedIsBlank'
<1>1. NewItem.rca = NoRca BY DEF NewItem, Missing
<1>2. ASSUME NEW i \in Incident, ItemStep(table[i], table'[i]),
             table'[i].status \in {"MISSING", "NEW", "INVESTIGATING"}
      PROVE  table'[i].rca = NoRca
  BY <1>1, <1>2 DEF ItemStep, SilentEdges, SameStory, UndecidedIsBlank
<1>. QED BY <1>2 DEF TableStep, Step, UndecidedIsBlank

\* An item that is NEW, or on its way to a decision, carries no name.
LEMMA UndecidedIsNameless ==
  ASSUME TypeRefs, TableConsistent, NEW i \in Incident,
         table[i].status \in {"MISSING", "NEW", "INVESTIGATING", "PENDING_APPROVAL"}
  PROVE  table[i].approved_by = Nobody /\ table[i].rejected_by = Nobody
<1>1. table[i] \in Item /\ ItemConsistent(table[i])
  BY DEF TypeRefs, TypeOK, StoreTypeOK, TableConsistent
<1>. QED BY <1>1 DEF Item, ItemConsistent

LEMMA StepStands ==
  ASSUME TypeRefs, TableConsistent, UndecidedIsBlank, TableStep, NEW i \in Incident
  PROVE  /\ table[i].rca # NoRca => table'[i].rca = table[i].rca
         /\ \/ table[i].approved_by = Nobody /\ table[i].rejected_by = Nobody
            \/ /\ table'[i].approved_by = table[i].approved_by
               /\ table'[i].rejected_by = table[i].rejected_by
<1>1. table'[i] = table[i] \/ ItemStep(table[i], table'[i]) BY DEF TableStep, Step
<1>. QED
  BY <1>1, UndecidedIsNameless DEF UndecidedIsBlank, ItemStep, SameStory

LEMMA InitBlank == Init => UndecidedIsBlank
BY DEF Init, StoreInit, Missing, UndecidedIsBlank

\* An incident without a verdict has neither an RCA nor anybody's name on it:
\* transition() writes them only along with the status that calls for them.
THEOREM BlankUntilConcluded == Spec => []UndecidedIsBlank
<1>1. TypeRefs /\ UndecidedIsBlank /\ [Next]_vars => UndecidedIsBlank'
  BY TableSteps, StepKeepsBlank
<1>2. IInv => TypeRefs BY DEF IInv, TypeRefs
<1>. QED BY <1>1, <1>2, InitBlank, Invariant, PTL DEF Spec

\* transition()'s conditional write: whatever races, retries and late answers
\* there are, what was proposed is what is decided on and the first decision
\* is the only one.
THEOREM DecisionsStand == Spec => DecisionStands
<1>. DEFINE Stands ==
       \A i \in Incident :
          /\ table[i].rca # NoRca => table'[i].rca = table[i].rca
          /\ \/ table[i].approved_by = Nobody /\ table[i].rejected_by = Nobody
             \/ /\ table'[i].approved_by = table[i].approved_by
                /\ table'[i].rejected_by = table[i].rejected_by
<1>1. IInv /\ UndecidedIsBlank /\ [Next]_vars => [Stands]_table
  <2>. SUFFICES ASSUME IInv, UndecidedIsBlank, [Next]_vars PROVE Stands OBVIOUS
  <2>1. TypeRefs /\ TableConsistent BY DEF IInv, TypeRefs
  <2>. QED BY <2>1, TableSteps, StepStands
<1>2. DecisionStands <=> [][Stands]_table BY DEF DecisionStands
<1>. HIDE DEF Stands
<1>. QED BY <1>1, <1>2, Invariant, BlankUntilConcluded, PTL DEF Spec

-----------------------------------------------------------------------------
(* The pipeline implements the contract *)

\* The target changes for an approved incident, and not in the step that
\* writes the table.
LEMMA EffectsStep ==
  ASSUME TypeRefs, ExecutorAuthorised, [Next]_vars
  PROVE  \/ UNCHANGED effects
         \/ /\ UNCHANGED table
            /\ \E i \in Incident : /\ table[i].approved_by \in Actor
                                   /\ effects' = [effects EXCEPT ![i] = @ + 1]
<1>1. ASSUME NEW w \in ExecutorWorker, exec[w].pc \in {"shift", "flag"}, Effect(w)
      PROVE  \E i \in Incident : /\ table[i].approved_by \in Actor
                                 /\ effects' = [effects EXCEPT ![i] = @ + 1]
  <2>1. Working(w) \in Incident
    BY <1>1 DEF TypeRefs, Refs, EventRefs, ExecutorRefs, Working
  <2>2. table[Working(w)].approved_by \in Actor BY <1>1 DEF ExecutorAuthorised, ApprovedFor
  <2>. QED BY <1>1, <2>1, <2>2 DEF Effect
<1>2. ASSUME NEW w \in ExecutorWorker, ExecutorShift(w) \/ ExecutorDisableFlag(w)
      PROVE  UNCHANGED table /\ (UNCHANGED effects \/ (Effect(w) /\ exec[w].pc \in {"shift", "flag"}))
  BY <1>2 DEF ExecutorShift, ExecutorDisableFlag, NoEffect, storeVars
<1>3. ASSUME ExecutorNext,
             ~ \E w \in ExecutorWorker : ExecutorShift(w) \/ ExecutorDisableFlag(w)
      PROVE  UNCHANGED effects
  BY <1>3 DEF ExecutorNext, ExecutorStep, ExecutorSkip, ExecutorReceive, ExecutorReadAlias,
              ExecutorRecord, ExecutorFail, ExecutorCrash, DuplicateEvent, Deploy
<1>4. ASSUME ApprovalNext PROVE UNCHANGED effects
  BY <1>4 DEF ApprovalNext, Decision, Approve, Reject, Invoke, ApprovalCrash, executorVars
<1>5. Replication \/ UNCHANGED vars => UNCHANGED effects
  BY DEF Replication, executorVars, vars
<1>. QED BY <1>1, <1>2, <1>3, <1>4, <1>5 DEF Next, executorVars

\* One incident's stage moves.
LEMMA StageMoves ==
  ASSUME NEW i \in Incident, NEW from, NEW to,
         \A j \in Incident : j # i => table'[j] = table[j],
         UNCHANGED effects, Stage(i) = from, Stage(i)' = to
  PROVE  Contract!Advance(i, from, to)
<1>1. \A j \in Incident : j # i => Stage(j)' = Stage(j) BY DEF Stage
<1>. HIDE DEF Stage
<1>2. [j \in Incident |-> Stage(j)]' = [[j \in Incident |-> Stage(j)] EXCEPT ![i] = to]
  BY <1>1
<1>. QED BY <1>2 DEF Contract!Advance

LEMMA StageKept ==
  ASSUME \A i \in Incident : Stage(i)' = Stage(i), UNCHANGED effects
  PROVE  UNCHANGED Contract!contractVars
BY DEF Contract!contractVars

LEMMA StepRefines ==
  ASSUME TypeRefs, TableConsistent, TableConsistent', NEW i \in Incident, Step(i),
         UNCHANGED effects
  PROVE  [Contract!Next]_Contract!contractVars
<1>. DEFINE old == table[i]
            new == table'[i]
<1>1. /\ old \in Item /\ ItemConsistent(old) /\ Nobody \notin Actor
      /\ \A j \in Incident : j # i => table'[j] = table[j]
  BY StoreAssumption DEF TypeRefs, TypeOK, StoreTypeOK, TableConsistent, Step
<1>2. \A from, to : Stage(i) = from /\ Stage(i)' = to => Contract!Advance(i, from, to)
  BY <1>1, StageMoves
<1>3. Stage(i)' = Stage(i) => UNCHANGED Contract!contractVars
  <2>1. \A j \in Incident : j # i => Stage(j)' = Stage(j) BY <1>1 DEF Stage
  <2>. QED BY <2>1, StageKept
<1>4. CASE old.status = "MISSING" /\ new = NewItem
  <2>1. new.status = "NEW" BY <1>4 DEF NewItem, Missing
  <2>2. Stage(i) = "none" /\ Stage(i)' = "open" BY <1>4, <2>1 DEF Stage
  <2>. QED BY <1>2, <2>2 DEF Contract!Next, Contract!Open
<1>5. CASE new.status = old.status /\ SameStory(old, new)
  <2>1. Stage(i)' = Stage(i) BY <1>5 DEF Stage, SameStory
  <2>. QED BY <1>3, <2>1
<1>6. CASE <<old.status, new.status>> \in SilentEdges /\ SameStory(old, new)
  <2>1. CASE <<old.status, new.status>> = <<"NEW", "INVESTIGATING">>
    <3>1. Stage(i) = "open" /\ Stage(i)' = "open" BY <2>1 DEF Stage
    <3>. QED BY <1>3, <3>1
  <2>2. CASE <<old.status, new.status>> \in {<<"NEW", "FAILED">>, <<"INVESTIGATING", "ESCALATED">>,
                                            <<"INVESTIGATING", "FAILED">>}
    <3>1. new.approved_by = Nobody BY <1>6, <2>2, UndecidedIsNameless DEF SameStory
    <3>2. Stage(i) = "open" /\ Stage(i)' = "settled" BY <2>2, <3>1 DEF Stage
    <3>. QED BY <1>2, <3>2 DEF Contract!Next, Contract!Settle
  <2>3. CASE <<old.status, new.status>> = <<"APPROVED", "EXECUTED">>
    <3>1. Stage(i) = "authorised" /\ Stage(i)' = "done" BY <2>3 DEF Stage
    <3>2. effects[i] > 0 BY <2>3 DEF TableConsistent
    <3>. QED BY <1>2, <3>1, <3>2 DEF Contract!Next, Contract!Complete
  <2>4. CASE <<old.status, new.status>> = <<"APPROVED", "FAILED">>
    <3>1. new.approved_by # Nobody BY <1>1, <1>6, <2>4 DEF SameStory, ItemConsistent
    <3>2. Stage(i) = "authorised" /\ Stage(i)' = "failed" BY <2>4, <3>1 DEF Stage
    <3>. QED BY <1>2, <3>2 DEF Contract!Next, Contract!GiveUp
  <2>. QED BY <1>6, <2>1, <2>2, <2>3, <2>4 DEF SilentEdges
<1>7. CASE /\ old.status = "INVESTIGATING"
           /\ new.status \in {"ESCALATED", "INFORMATIONAL", "PENDING_APPROVAL"}
  <2>1. Stage(i) = "open" /\ Stage(i)' \in {"settled", "proposed"} BY <1>7 DEF Stage
  <2>. QED BY <1>2, <2>1 DEF Contract!Next, Contract!Settle, Contract!Propose
<1>8. CASE old.status = "PENDING_APPROVAL" /\ new.status \in {"APPROVED", "REJECTED"}
  <2>1. Stage(i) = "proposed" /\ Stage(i)' \in {"authorised", "refused"} BY <1>8 DEF Stage
  <2>. QED BY <1>2, <2>1 DEF Contract!Next, Contract!Authorise, Contract!Refuse
<1>. QED BY <1>4, <1>5, <1>6, <1>7, <1>8 DEF Step, ItemStep

LEMMA EffectRefines ==
  ASSUME TypeRefs, TableConsistent, NEW i \in Incident, table[i].approved_by \in Actor,
         UNCHANGED table, effects' = [effects EXCEPT ![i] = @ + 1]
  PROVE  Contract!Next
<1>1. /\ ItemConsistent(table[i]) /\ table[i].approved_by # Nobody
      /\ effects \in [Incident -> Nat]
  BY StoreAssumption DEF TypeRefs, TypeOK, ExecutorTypeOK, TableConsistent
<1>2. Stage(i) \in {"authorised", "done", "failed"} BY <1>1 DEF ItemConsistent, Stage
<1>3. \A j \in Incident : Stage(j)' = Stage(j) BY DEF Stage
<1>4. [j \in Incident |-> effects[j] > 0]' = [[j \in Incident |-> effects[j] > 0] EXCEPT ![i] = TRUE]
  <2>. DEFINE acts(j) == effects[j] > 0
  <2>1. effects'[i] > 0 /\ \A j \in Incident : j # i => effects'[j] = effects[j] BY <1>1
  <2>2. acts(i)' = TRUE /\ \A j \in Incident : j # i => acts(j)' = acts(j) BY <2>1
  <2>. HIDE DEF acts
  <2>3. [j \in Incident |-> acts(j)]' = [[j \in Incident |-> acts(j)] EXCEPT ![i] = TRUE]
    BY <2>2
  <2>. QED BY <2>3 DEF acts
<1>. HIDE DEF Stage
<1>5. Contract!Act(i) BY <1>2, <1>3, <1>4 DEF Contract!Act
<1>. QED BY <1>5 DEF Contract!Next

\* Whatever fails, the pipeline lives up to what it promises of each incident:
\* one life, no change of the target before a human authorised it, and "done"
\* only said of what was done.
THEOREM PipelineImplementsContract == Spec => ImplementsContract
<1>1. Init => Contract!Init
  <2>. SUFFICES ASSUME Init PROVE Contract!Init OBVIOUS
  <2>1. \A i \in Incident : table[i].status = "MISSING" /\ effects[i] = 0
    BY DEF Init, StoreInit, ExecutorInit, Missing
  <2>2. \A i \in Incident : Stage(i) = "none" BY <2>1 DEF Stage
  <2>. DEFINE acts(i) == effects[i] > 0
  <2>3. \A i \in Incident : acts(i) = FALSE BY <2>1
  <2>. HIDE DEF Stage, acts
  <2>4. [i \in Incident |-> acts(i)] = [i \in Incident |-> FALSE] BY <2>3
  <2>5. [i \in Incident |-> Stage(i)] = [i \in Incident |-> "none"] BY <2>2
  <2>. QED BY <2>4, <2>5 DEF Contract!Init, acts
<1>2. IInv /\ IInv' /\ [Next]_vars => [Contract!Next]_Contract!contractVars
  <2>. SUFFICES ASSUME IInv, IInv', [Next]_vars
                PROVE  [Contract!Next]_Contract!contractVars
    OBVIOUS
  <2>1. TypeRefs /\ TableConsistent /\ TableConsistent' /\ ExecutorAuthorised
    BY DEF IInv, TypeRefs
  <2>2. CASE UNCHANGED effects
    <3>1. CASE UNCHANGED table
      <4>1. \A i \in Incident : Stage(i)' = Stage(i) BY <3>1 DEF Stage
      <4>. QED BY <2>2, <4>1, StageKept
    <3>2. ASSUME NEW i \in Incident, Step(i) PROVE [Contract!Next]_Contract!contractVars
      BY <2>1, <2>2, <3>2, StepRefines
    <3>. QED BY <2>1, <3>1, <3>2, TableSteps DEF TableStep
  <2>3. ASSUME UNCHANGED table, NEW i \in Incident, table[i].approved_by \in Actor,
               effects' = [effects EXCEPT ![i] = @ + 1]
        PROVE  Contract!Next
    BY <2>1, <2>3, EffectRefines
  <2>. QED BY <2>1, <2>2, <2>3, EffectsStep
<1>. QED BY <1>1, <1>2, Invariant, PTL DEF Spec, ImplementsContract, Contract!Spec
=============================================================================
