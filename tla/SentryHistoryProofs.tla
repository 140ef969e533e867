------------------------- MODULE SentryHistoryProofs -------------------------
(***************************************************************************)
(* The history of an incident, proved for any number of everything: it is  *)
(* investigated once, by one invocation that owns it meanwhile; its alarms *)
(* are not consumed without a work item; the executor is invoked only for  *)
(* what was approved.  The last part is about a world without faults and   *)
(* without stale reads, in which it is carried out once.                   *)
(***************************************************************************)
EXTENDS SentryGateProofs, FiniteSetTheorems

-----------------------------------------------------------------------------
(* One investigation *)

\* A message once used stays used, and about the same incident.
WorkKept ==
  \A m \in Message : work[m].state # "unused" =>
     work'[m].state # "unused" /\ work'[m].incident = work[m].incident

LEMMA WorkSteps ==
  ASSUME TypeRefs, [Next]_vars
  PROVE  WorkKept
<1>. USE DEF TypeRefs, TypeOK, Refs, QueueTypeOK
<1>1. ASSUME NEW i, Send(i) PROVE WorkKept
  BY <1>1 DEF Send, WorkKept
<1>2. ASSUME NEW m \in Message, NEW next \in {"inflight", "deleted"}, Receive(m, next)
      PROVE  WorkKept
  BY <1>2 DEF Receive, WorkKept
<1>3. ASSUME NEW m \in Message, Ack(m) \/ Nack(m) \/ Redrive(m) PROVE WorkKept
  BY <1>3 DEF Ack, Nack, Redrive, WorkKept
<1>4. UNCHANGED work => WorkKept BY DEF WorkKept
<1>5. ASSUME IngestNext PROVE WorkKept
  BY <1>1, <1>4, <1>5 DEF IngestNext, IngestStep, Publish, Republish, IngestIgnore, IngestCreate,
                          IngestSuppress, IngestSend, IngestCrash
<1>6. ASSUME NEW w \in AgentWorker, agent[w].pc # "idle" PROVE agent[w].msg \in Message
  BY <1>6 DEF AgentRefs
<1>7. ASSUME AgentNext PROVE WorkKept
  <2>1. ASSUME NEW w \in AgentWorker, AgentClaim(w) PROVE WorkKept
    BY <1>3, <1>4, <1>6, <2>1 DEF AgentClaim
  <2>2. ASSUME NEW w \in AgentWorker, \E r \in Rca : AgentConclude(w, r) PROVE WorkKept
    BY <1>3, <1>6, <2>2 DEF AgentConclude
  <2>3. ASSUME NEW w \in AgentWorker, \E failure \in RunFailure : AgentFail(w, failure)
        PROVE  WorkKept
    BY <1>3, <1>6, <2>3 DEF AgentFail
  <2>4. ASSUME NEW w \in AgentWorker, AgentCrash(w) PROVE WorkKept
    BY <1>3, <1>6, <2>4 DEF AgentCrash
  <2>5. ASSUME NEW w \in AgentWorker, NEW m \in Message, AgentSkip(w, m) \/ AgentReceive(w, m)
        PROVE  WorkKept
    BY <1>2, <2>5 DEF AgentSkip, AgentReceive
  <2>6. ASSUME QueueStep PROVE WorkKept
    BY <1>1, <1>3, <2>6 DEF QueueStep, Duplicate
  <2>. QED BY <1>7, <2>1, <2>2, <2>3, <2>4, <2>5, <2>6 DEF AgentNext, AgentStep
<1>8. ASSUME ExecutorNext \/ ApprovalNext \/ Replication \/ UNCHANGED vars, UNCHANGED work
      PROVE  WorkKept
  BY <1>4, <1>8
<1>. QED BY <1>5, <1>7, <1>8 DEF Next, Replication, vars

\* The inductive invariant behind OneInvestigation: an incident that nobody
\* claimed was not investigated, and whoever is investigating one is the reason
\* that its count is 1.
InvestigatedOnce ==
  /\ \A i \in Incident :
       /\ runs[i] <= 1
       /\ table[i].status \in {"MISSING", "NEW"} => runs[i] = 0
       /\ table[i].rca # NoRca => runs[i] = 1
  /\ \A w \in AgentWorker : agent[w].pc = "run" => runs[Held(w)] = 1
  /\ \A v, w \in AgentWorker :
       agent[v].pc = "run" /\ agent[w].pc = "run" /\ Held(v) = Held(w) => v = w

\* No investigation starts.
NobodyStarts ==
  /\ UNCHANGED runs
  /\ \A w \in AgentWorker :
       agent'[w].pc = "run" => agent[w].pc = "run" /\ agent'[w].msg = agent[w].msg

LEMMA StartsOnlyByClaim ==
  ASSUME TypeRefs, [Next]_vars
  PROVE  \/ NobodyStarts
         \/ \E w \in AgentWorker :
              /\ agent[w].pc = "claim"
              /\ Move(Held(w), "INVESTIGATING", table[Held(w)])
              /\ agent' = [agent EXCEPT ![w].pc = "run"]
              /\ runs' = [runs EXCEPT ![Held(w)] = @ + 1]
<1>1. agent \in [AgentWorker -> [pc : {"idle", "claim", "run"}, msg : Message \cup {NoMessage}]]
  BY DEF TypeRefs, TypeOK, AgentTypeOK
<1>2. UNCHANGED agentVars => NobodyStarts BY DEF agentVars, NobodyStarts
<1>3. ASSUME NEW w \in AgentWorker, AgentIdles(w), UNCHANGED runs PROVE NobodyStarts
  BY <1>1, <1>3 DEF AgentIdles, AgentIdle, NobodyStarts
<1>4. ASSUME NEW w \in AgentWorker, NEW m \in Message, AgentReceive(w, m) PROVE NobodyStarts
  BY <1>1, <1>4 DEF AgentReceive, NobodyStarts
<1>5. ASSUME NEW w \in AgentWorker, AgentClaim(w)
      PROVE  \/ NobodyStarts
             \/ /\ agent[w].pc = "claim"
                /\ Move(Held(w), "INVESTIGATING", table[Held(w)])
                /\ agent' = [agent EXCEPT ![w].pc = "run"]
                /\ runs' = [runs EXCEPT ![Held(w)] = @ + 1]
  BY <1>3, <1>5, TransitionMoves DEF AgentClaim
<1>6. ASSUME AgentNext, ~ \E w \in AgentWorker : AgentClaim(w) PROVE NobodyStarts
  BY <1>2, <1>3, <1>4, <1>6
  DEF AgentNext, AgentStep, AgentSkip, AgentConclude, AgentFail, AgentCrash, QueueStep
<1>7. IngestNext /\ UNCHANGED agentVars => NobodyStarts BY <1>2
<1>. QED BY <1>2, <1>5, <1>6 DEF Next, Replication, vars, agentVars

LEMMA NobodyStartsKeeps ==
  ASSUME TypeRefs, TableStep, WorkKept, InvestigatedOnce, NobodyStarts
  PROVE  InvestigatedOnce'
<1>1. \A w \in AgentWorker :
        agent'[w].pc = "run" => /\ agent[w].pc = "run" /\ Held(w)' = Held(w)
                                /\ Held(w) \in Incident
  BY DEF NobodyStarts, TypeRefs, Refs, AgentRefs, QueueRefs, WorkKept, Held
<1>2. ASSUME NEW i \in Incident
      PROVE  /\ runs'[i] <= 1
             /\ table'[i].status \in {"MISSING", "NEW"} => runs'[i] = 0
             /\ table'[i].rca # NoRca => runs'[i] = 1
  <2>1. runs'[i] = runs[i] BY DEF NobodyStarts
  <2>2. CASE table'[i] = table[i] BY <2>1, <2>2 DEF InvestigatedOnce
  <2>3. CASE Step(i)
    <3>1. NewItem.rca = NoRca BY DEF NewItem, Missing
    <3>2. table'[i].status \in {"MISSING", "NEW"} => table[i].status \in {"MISSING", "NEW"}
      BY <2>3 DEF Step, ItemStep, SilentEdges
    <3>3. table'[i].rca # NoRca =>
            table[i].rca # NoRca \/ \E w \in AgentWorker : agent[w].pc = "run" /\ Held(w) = i
      BY <2>3, <3>1 DEF Step, ItemStep, SilentEdges, SameStory
    <3>. QED BY <2>1, <3>2, <3>3 DEF InvestigatedOnce
  <2>. QED BY <2>2, <2>3 DEF TableStep, Step
<1>3. \A w \in AgentWorker : agent'[w].pc = "run" => runs'[Held(w)'] = 1
  BY <1>1 DEF InvestigatedOnce, NobodyStarts
<1>4. \A v, w \in AgentWorker :
        agent'[v].pc = "run" /\ agent'[w].pc = "run" /\ Held(v)' = Held(w)' => v = w
  BY <1>1 DEF InvestigatedOnce
<1>. QED BY <1>2, <1>3, <1>4 DEF InvestigatedOnce

LEMMA ClaimKeeps ==
  ASSUME TypeRefs, UndecidedIsBlank, WorkKept, InvestigatedOnce, NEW w \in AgentWorker,
         agent[w].pc = "claim",
         Move(Held(w), "INVESTIGATING", table[Held(w)]),
         agent' = [agent EXCEPT ![w].pc = "run"],
         runs' = [runs EXCEPT ![Held(w)] = @ + 1]
  PROVE  InvestigatedOnce'
<1>. DEFINE i == Held(w)
<1>1. /\ i \in Incident /\ table[i] \in Item
      /\ runs \in [Incident -> Nat]
      /\ table \in [Incident -> Item]
      /\ agent \in [AgentWorker -> [pc : {"idle", "claim", "run"}, msg : Message \cup {NoMessage}]]
  BY DEF TypeRefs, TypeOK, StoreTypeOK, AgentTypeOK, Refs, AgentRefs, QueueRefs, Held
<1>2. \A v \in AgentWorker : agent[v].pc # "idle" =>
        /\ agent'[v].msg = agent[v].msg
        /\ Held(v)' = Held(v)
  BY <1>1 DEF TypeRefs, Refs, AgentRefs, WorkKept, Held
<1>3. \A v \in AgentWorker : agent'[v].pc = "run" =>
        (v = w \/ agent[v].pc = "run") /\ agent[v].pc # "idle"
  BY <1>1
\* The incident was NEW, so nobody had investigated it and nobody is.
<1>4. /\ table[i].status = "NEW" /\ runs[i] = 0 /\ table[i].rca = NoRca
      /\ \A v \in AgentWorker : agent[v].pc = "run" => Held(v) # i
  BY <1>1, Edges DEF Move, InvestigatedOnce, UndecidedIsBlank
<1>5. /\ table'[i].status = "INVESTIGATING" /\ table'[i].rca = NoRca
      /\ \A j \in Incident : j # i => table'[j] = table[j]
  <2>. DEFINE new == [table[i] EXCEPT !.status = "INVESTIGATING"]
  <2>1. new.status = "INVESTIGATING" /\ new.rca = table[i].rca BY <1>1 DEF Item
  <2>2. table' = [table EXCEPT ![i] = new] BY DEF Move
  <2>. HIDE DEF new
  <2>. QED BY <1>1, <1>4, <2>1, <2>2
<1>6. runs'[i] = 1 /\ \A j \in Incident : j # i => runs'[j] = runs[j] BY <1>1, <1>4
<1>7. \A j \in Incident :
        /\ runs'[j] <= 1
        /\ table'[j].status \in {"MISSING", "NEW"} => runs'[j] = 0
        /\ table'[j].rca # NoRca => runs'[j] = 1
  BY <1>5, <1>6 DEF InvestigatedOnce
<1>. HIDE DEF i
<1>8. \A v \in AgentWorker : agent'[v].pc = "run" =>
        Held(v)' = Held(v) /\ (v = w \/ (agent[v].pc = "run" /\ Held(v) # i))
  BY <1>2, <1>3, <1>4
<1>9. \A v \in AgentWorker : agent[v].pc = "run" => Held(v) \in Incident
  BY DEF TypeRefs, Refs, AgentRefs, QueueRefs, Held
<1>10. \A v \in AgentWorker : agent'[v].pc = "run" => runs'[Held(v)'] = 1
  BY <1>6, <1>8, <1>9 DEF InvestigatedOnce, i
<1>11. \A u, v \in AgentWorker :
         agent'[u].pc = "run" /\ agent'[v].pc = "run" /\ Held(u)' = Held(v)' => u = v
  BY <1>8 DEF InvestigatedOnce, i
<1>. QED BY <1>7, <1>10, <1>11 DEF InvestigatedOnce

\* The inductive invariant of OneInvestigation holds.
THEOREM OneRunEach == Spec => []InvestigatedOnce
<1>1. Init => InvestigatedOnce
  BY DEF Init, StoreInit, AgentInit, AgentIdle, Missing, InvestigatedOnce
<1>2. TypeRefs /\ UndecidedIsBlank /\ InvestigatedOnce /\ [Next]_vars => InvestigatedOnce'
  BY TableSteps, WorkSteps, StartsOnlyByClaim, NobodyStartsKeeps, ClaimKeeps
<1>3. IInv => TypeRefs BY DEF IInv, TypeRefs
<1>. QED BY <1>1, <1>2, <1>3, Invariant, BlankUntilConcluded, PTL DEF Spec

\* The claim is a conditional write and its losers hand the message back:
\* however often a work item is sent, delivered and retried, and whoever
\* crashes, one investigation runs and one RCA comes of it.
THEOREM InvestigationIsUnique == Spec => []OneInvestigation
<1>1. InvestigatedOnce => OneInvestigation BY DEF InvestigatedOnce, OneInvestigation
<1>. QED BY <1>1, OneRunEach, PTL

-----------------------------------------------------------------------------
(* What is consumed is queued *)

QueuedFor(i) == \E m \in Message : work[m].state # "unused" /\ work[m].incident = i

\* The inductive invariant behind ConsumedIsQueued: an invocation works on the
\* incident its notification names, and a notification that was consumed left a
\* message behind that is about the same incident.
NoticesQueued ==
  /\ \A w \in IngestWorker : ingest[w].pc # "idle" /\ ingest[w].note.at # NoTime =>
        ingest[w].incident = build_incident_id(ingest[w].note.name, ingest[w].note.at)
  /\ \A n \in Notification :
        topic[n].state = "consumed" /\ n.name # NoName /\ n.state = "ALARM" /\ n.at # NoTime =>
           QueuedFor(build_incident_id(n.name, n.at))

LEMMA QueuedKept ==
  ASSUME WorkKept, NEW i, QueuedFor(i)
  PROVE  QueuedFor(i)'
BY DEF WorkKept, QueuedFor

LEMMA SentIsQueued ==
  ASSUME QueueTypeOK, NEW i, Send(i)
  PROVE  QueuedFor(i)'
<1>1. PICK m \in Message :
        work' = [work EXCEPT ![m] = [incident |-> i, state |-> "visible", receives |-> 0]]
  BY DEF Send
<1>2. work'[m].state = "visible" /\ work'[m].incident = i BY <1>1 DEF QueueTypeOK
<1>. QED BY <1>2 DEF QueuedFor

\* A step that starts no work, and consumes nothing but what is no alarm.
LEMMA NothingNewKeepsQueued ==
  ASSUME WorkKept, NoticesQueued,
         \A w \in IngestWorker : ingest'[w] = ingest[w] \/ ingest'[w].pc = "idle",
         \A n \in Notification :
            topic'[n].state = "consumed" => \/ topic[n].state = "consumed"
                                            \/ n.name = NoName \/ n.state # "ALARM"
                                            \/ n.at # NoTime =>
                                                 QueuedFor(build_incident_id(n.name, n.at))'
  PROVE  NoticesQueued'
<1>1. \A i : QueuedFor(i) => QueuedFor(i)' BY QueuedKept
<1>. DEFINE id(n) == build_incident_id(n.name, n.at)
<1>2. \A n \in Notification : QueuedFor(id(n)) => QueuedFor(id(n))'
  BY <1>1 DEF build_incident_id
<1>. HIDE DEF id
<1>. QED BY <1>2 DEF NoticesQueued, id

LEMMA IngestEndKeepsQueued ==
  ASSUME TypeRefs, WorkKept, NoticesQueued, NEW w \in IngestWorker, ingest[w].pc # "idle",
         NEW state, IngestEnd(w, state),
         NEW i, i = ingest[w].incident, state = "consumed" => QueuedFor(i)'
  PROVE  NoticesQueued'
<1>1. /\ topic \in [Notification -> [state : TopicState, deliveries : Nat]]
      /\ ingest \in [IngestWorker -> [pc : {"idle", "send", "suppress"},
                                      note : Notification \cup {NoNotification},
                                      incident : Incident \cup {NoIncident}]]
  BY DEF TypeRefs, TypeOK, IngestTypeOK
<1>2. PICK n \in Notification : n = ingest[w].note BY DEF TypeRefs, Refs, IngestRefs
<1>3. \A v \in IngestWorker : ingest'[v] = ingest[v] \/ ingest'[v].pc = "idle"
  BY <1>1 DEF IngestEnd, IngestIdle
<1>4. topic'[n].state = state /\ \A k \in Notification : k # n => topic'[k] = topic[k]
  BY <1>1, <1>2 DEF IngestEnd
<1>5. n.at # NoTime => i = build_incident_id(n.name, n.at)
  BY <1>2 DEF NoticesQueued
<1>6. \A k \in Notification : topic'[k].state = "consumed" =>
        \/ topic[k].state = "consumed"
        \/ k.at # NoTime => QueuedFor(build_incident_id(k.name, k.at))'
  <2>1. n.at # NoTime /\ state = "consumed" => QueuedFor(build_incident_id(n.name, n.at))'
    BY <1>5
  <2>. QED BY <1>4, <2>1
<1>. QED BY <1>3, <1>6, NothingNewKeepsQueued

LEMMA NextKeepsQueued ==
  ASSUME TypeRefs, NoticesQueued, [Next]_vars
  PROVE  NoticesQueued'
<1>1. WorkKept BY WorkSteps
<1>2. /\ topic \in [Notification -> [state : TopicState, deliveries : Nat]]
      /\ ingest \in [IngestWorker -> [pc : {"idle", "send", "suppress"},
                                      note : Notification \cup {NoNotification},
                                      incident : Incident \cup {NoIncident}]]
      /\ QueueTypeOK
  BY DEF TypeRefs, TypeOK, IngestTypeOK
<1>3. ASSUME UNCHANGED ingestVars PROVE NoticesQueued'
  BY <1>1, <1>3, NothingNewKeepsQueued DEF ingestVars
<1>4. ASSUME NEW n \in Notification, Publish(n) \/ Republish(n) PROVE NoticesQueued'
  BY <1>1, <1>2, <1>4, NothingNewKeepsQueued DEF Publish, Republish
<1>5. ASSUME NEW w \in IngestWorker, NEW n \in Notification, IngestIgnore(w, n)
      PROVE  NoticesQueued'
  BY <1>1, <1>2, <1>5, NothingNewKeepsQueued DEF IngestIgnore
<1>6. ASSUME NEW w \in IngestWorker, NEW n \in Notification, IngestCreate(w, n)
      PROVE  NoticesQueued'
  <2>1. PICK at \in (IF n.at = NoTime THEN Instant ELSE {n.at}),
             state \in {"delivering", "pending", "dropped"} :
          /\ topic' = [topic EXCEPT ![n] = Started(n, state)]
          /\ \/ UNCHANGED ingest
             \/ \E pc \in {"send", "suppress"} :
                  ingest' = [ingest EXCEPT ![w] = [pc |-> pc, note |-> n,
                               incident |-> build_incident_id(n.name, at)]]
    BY <1>6 DEF IngestCreate, StartedFailure
  <2>2. Started(n, state).state = state BY DEF Started
  <2>3. \A k \in Notification : topic'[k].state = "consumed" => topic[k].state = "consumed"
    BY <1>2, <2>1, <2>2
  <2>4. CASE UNCHANGED ingest BY <1>1, <2>3, <2>4, NothingNewKeepsQueued
  <2>5. ASSUME NEW pc \in {"send", "suppress"},
               ingest' = [ingest EXCEPT ![w] = [pc |-> pc, note |-> n,
                            incident |-> build_incident_id(n.name, at)]]
        PROVE  NoticesQueued'
    <3>1. n.at # NoTime => at = n.at BY <2>1
    <3>2. /\ ingest'[w].note = n /\ ingest'[w].incident = build_incident_id(n.name, at)
          /\ \A v \in IngestWorker : v # w => ingest'[v] = ingest[v]
      BY <1>2, <2>5
    <3>3. \A k \in Notification :
            QueuedFor(build_incident_id(k.name, k.at)) => QueuedFor(build_incident_id(k.name, k.at))'
      BY <1>1, QueuedKept
    <3>. QED BY <2>3, <3>1, <3>2, <3>3 DEF NoticesQueued
  <2>. QED BY <2>1, <2>4, <2>5
<1>7. ASSUME NEW w \in IngestWorker, IngestSuppress(w) \/ IngestCrash(w) PROVE NoticesQueued'
  <2>1. ingest[w].pc # "idle" BY <1>7 DEF IngestSuppress, IngestCrash
  <2>2. PICK state \in {"suppressed", "pending", "dropped"} : IngestEnd(w, state)
    BY <1>7 DEF IngestSuppress, IngestCrash, AfterFailure
  <2>. QED BY <1>1, <2>1, <2>2, IngestEndKeepsQueued
<1>8. ASSUME NEW w \in IngestWorker, IngestSend(w) PROVE NoticesQueued'
  <2>1. ingest[w].pc # "idle" BY <1>8 DEF IngestSend
  <2>2. PICK state \in {"consumed", "pending", "dropped"} :
          IngestEnd(w, state) /\ (state = "consumed" => Send(ingest[w].incident))
    BY <1>8 DEF IngestSend, AfterFailure
  <2>3. PICK i : i = ingest[w].incident OBVIOUS
  <2>4. state = "consumed" => QueuedFor(i)' BY <1>2, <2>2, <2>3, SentIsQueued
  <2>. QED BY <1>1, <2>1, <2>2, <2>3, <2>4, IngestEndKeepsQueued
<1>9. ASSUME IngestNext PROVE NoticesQueued'
  BY <1>4, <1>5, <1>6, <1>7, <1>8, <1>9 DEF IngestNext, IngestStep
<1>. QED BY <1>3, <1>9 DEF Next, Replication, vars, ingestVars

\* _handle_record raises when its message was not queued, so SNS tries again: a
\* dated alarm that counts as handled has a work item for its own incident,
\* whatever failed and was retried on the way.
THEOREM ConsumedAlarmIsQueued == Spec => []ConsumedIsQueued
<1>1. Init => NoticesQueued BY DEF Init, IngestInit, IngestIdle, NoticesQueued
<1>2. TypeRefs /\ NoticesQueued /\ [Next]_vars => NoticesQueued' BY NextKeepsQueued
<1>3. IInv => TypeRefs BY DEF IInv, TypeRefs
<1>4. NoticesQueued => ConsumedIsQueued BY DEF NoticesQueued, QueuedFor, ConsumedIsQueued
<1>. QED BY <1>1, <1>2, <1>3, <1>4, Invariant, PTL DEF Spec

-----------------------------------------------------------------------------
(* What is settled was carried out *)

\* Incident i was approved, or failed.
Entitled(i) == table[i].status \in {"APPROVED", "EXECUTED", "FAILED"}

\* The executor is only ever invoked for such an incident.
EventsEntitled ==
  /\ \A e \in Event : events[e].state # "unused" => Entitled(events[e].incident)
  /\ \A a \in Actor : gate[a] # NoIncident => Entitled(gate[a])

\* No step takes an item back from where it has got to.
LEMMA EntitledKept ==
  ASSUME TableStep, NEW i \in Incident
  PROVE  /\ Entitled(i) => Entitled(i)'
         /\ table[i].status \in {"EXECUTED", "FAILED"} => table'[i].status = table[i].status
BY DEF TableStep, Step, ItemStep, SilentEdges, Entitled

\* Whoever holds an event or a handover got it from somebody who had it, or
\* from the approval this step made.
LEMMA SourcesEntitle ==
  ASSUME TypeRefs, TableStep, EventsEntitled,
         \A e \in Event : events'[e].state # "unused" =>
            \/ \E d \in Event : events[d].state # "unused"
                                /\ events[d].incident = events'[e].incident
            \/ \E a \in Actor : gate[a] # NoIncident /\ gate[a] = events'[e].incident,
         \A a \in Actor : gate'[a] # NoIncident =>
            gate'[a] = gate[a] \/ table'[gate'[a]].status = "APPROVED"
  PROVE  EventsEntitled'
<1>1. \A d \in Event : events[d].state # "unused" => events[d].incident \in Incident
  BY DEF TypeRefs, Refs, EventRefs
<1>2. \A a \in Actor : gate[a] # NoIncident => gate[a] \in Incident
  BY DEF TypeRefs, TypeOK, ApprovalTypeOK
<1>3. \A i \in Incident : Entitled(i) => table'[i].status \in {"APPROVED", "EXECUTED", "FAILED"}
  BY EntitledKept DEF Entitled
<1>. QED BY <1>1, <1>2, <1>3 DEF EventsEntitled, Entitled

\* Events come from the approval gate or from another event, and never change
\* their incident; an operator holds on to what was just approved.
LEMMA Sources ==
  ASSUME TypeRefs, [Next]_vars
  PROVE  /\ \A e \in Event : events'[e].state # "unused" =>
              \/ \E d \in Event : events[d].state # "unused"
                                  /\ events[d].incident = events'[e].incident
              \/ \E a \in Actor : gate[a] # NoIncident /\ gate[a] = events'[e].incident
         /\ \A a \in Actor : gate'[a] # NoIncident =>
              gate'[a] = gate[a] \/ table'[gate'[a]].status = "APPROVED"
         /\ EventsKept
<1>. DEFINE FromEvent == \A e \in Event : events'[e].state # "unused" =>
                           \E d \in Event : events[d].state # "unused"
                                            /\ events[d].incident = events'[e].incident
<1>. USE DEF EventsKept
<1>1. /\ events \in [Event -> [incident : Incident \cup {NoIncident},
                               state : EventState, attempts : Nat]]
      /\ gate \in [Actor -> Incident \cup {NoIncident}]
      /\ table \in [Incident -> Item]
  BY DEF TypeRefs, TypeOK, StoreTypeOK, ExecutorTypeOK, ApprovalTypeOK
<1>2. UNCHANGED events => FromEvent /\ EventsKept OBVIOUS
<1>3. ASSUME NEW i, Incoming(i)
      PROVE  /\ EventsKept
             /\ \A e \in Event : events'[e].state # "unused" =>
                  \/ events[e].state # "unused" /\ events'[e].incident = events[e].incident
                  \/ events'[e].incident = i
  BY <1>1, <1>3 DEF Incoming
<1>4. ASSUME NEW e \in Event, events[e].state # "unused", NEW state, NEW k,
             events' = [events EXCEPT ![e] = [@ EXCEPT !.state = state, !.attempts = k]]
      PROVE  FromEvent /\ EventsKept
  BY <1>1, <1>4
<1>5. ASSUME NEW w \in ExecutorWorker, exec[w].pc # "idle", ExecutorReturns(w) \/ ExecutorRaises(w)
      PROVE  FromEvent /\ EventsKept
  <2>1. exec[w].event \in Event /\ events[exec[w].event].state # "unused"
    BY <1>5 DEF TypeRefs, Refs, ExecutorRefs
  <2>2. PICK state : events' = [events EXCEPT ![exec[w].event].state = state]
    BY <1>5 DEF ExecutorReturns, ExecutorRaises
  <2>. QED BY <1>1, <2>1, <2>2
<1>6. ASSUME NEW e \in Event, NEW state, Deliver(e, state) PROVE FromEvent /\ EventsKept
  BY <1>1, <1>6 DEF Deliver
<1>7. ASSUME ExecutorNext PROVE FromEvent /\ EventsKept
  <2>1. ASSUME NEW w \in ExecutorWorker, NEW e \in Event, ExecutorSkip(w, e) \/ ExecutorReceive(w, e)
        PROVE  FromEvent /\ EventsKept
    BY <1>6, <2>1 DEF ExecutorSkip, ExecutorReceive
  <2>2. ASSUME NEW w \in ExecutorWorker,
               ExecutorReadAlias(w) \/ ExecutorShift(w) \/ ExecutorDisableFlag(w)
        PROVE  FromEvent /\ EventsKept
    BY <1>2, <2>2 DEF ExecutorReadAlias, ExecutorShift, ExecutorDisableFlag
  <2>3. ASSUME NEW w \in ExecutorWorker, ExecutorRecord(w) \/ ExecutorFail(w) \/ ExecutorCrash(w)
        PROVE  FromEvent /\ EventsKept
    BY <1>2, <1>5, <2>3 DEF ExecutorRecord, ExecutorFail, ExecutorCrash
  <2>4. ASSUME NEW e \in Event, DuplicateEvent(e) PROVE FromEvent /\ EventsKept
    BY <1>3, <2>4 DEF DuplicateEvent
  <2>5. ASSUME NEW f \in Function, Deploy(f) PROVE FromEvent /\ EventsKept
    BY <1>2, <2>5 DEF Deploy
  <2>. QED BY <1>7, <2>1, <2>2, <2>3, <2>4, <2>5 DEF ExecutorNext, ExecutorStep
<1>8. ASSUME NEW a \in Actor, NEW i \in Incident, Approve(a, i)
      PROVE  \A b \in Actor : gate'[b] # NoIncident =>
               gate'[b] = gate[b] \/ table'[gate'[b]].status = "APPROVED"
  <2>. DEFINE item == [table[i] EXCEPT !.approved_by = a]
              new  == [item EXCEPT !.status = "APPROVED"]
  <2>1. PICK out \in Outcome :
          /\ Transition(i, "APPROVED", item, out)
          /\ gate' = [gate EXCEPT ![a] = IF out = "ok" /\ EXECUTOR_FUNCTION THEN i ELSE NoIncident]
    BY <1>8 DEF Approve
  <2>2. new.status = "APPROVED" BY <1>1 DEF Item
  <2>. HIDE DEF new, item
  <2>3. out = "ok" => Move(i, "APPROVED", item) BY <2>1, TransitionMoves
  <2>4. out = "ok" => table' = [table EXCEPT ![i] = new] BY <2>3 DEF Move, new
  <2>. QED BY <1>1, <2>1, <2>2, <2>4
<1>9. ASSUME NEW a \in Actor, Invoke(a)
      PROVE  /\ EventsKept
             /\ \A e \in Event : events'[e].state # "unused" =>
                  \/ \E d \in Event : events[d].state # "unused"
                                      /\ events[d].incident = events'[e].incident
                  \/ \E b \in Actor : gate[b] # NoIncident /\ gate[b] = events'[e].incident
             /\ \A b \in Actor : gate'[b] # NoIncident => gate'[b] = gate[b]
  BY <1>1, <1>3, <1>9 DEF Invoke
<1>10. ASSUME NEW a \in Actor, ApprovalCrash(a)
       PROVE  UNCHANGED events /\ \A b \in Actor : gate'[b] # NoIncident => gate'[b] = gate[b]
  BY <1>1, <1>10 DEF ApprovalCrash, executorVars
<1>11. ASSUME NEW a \in Actor, NEW i \in Incident, Reject(a, i) PROVE UNCHANGED <<events, gate>>
  BY <1>11 DEF Reject, executorVars
<1>12. ASSUME NEW a \in Actor, NEW i \in Incident, Approve(a, i) PROVE UNCHANGED events
  BY <1>12 DEF Approve, executorVars
<1>13. CASE UNCHANGED <<events, gate>> BY <1>2, <1>13
<1>14. CASE ExecutorNext /\ UNCHANGED gate BY <1>7, <1>14
<1>15. CASE ApprovalNext
  BY <1>2, <1>8, <1>9, <1>10, <1>11, <1>12, <1>15 DEF ApprovalNext, Decision
<1>. HIDE DEF FromEvent
<1>. QED BY <1>13, <1>14, <1>15 DEF Next, Replication, vars, executorVars

LEMMA NextKeepsEntitled == TypeRefs /\ EventsEntitled /\ [Next]_vars => EventsEntitled'
<1>. SUFFICES ASSUME TypeRefs, EventsEntitled, [Next]_vars PROVE EventsEntitled' OBVIOUS
<1>1. TableStep BY TableSteps
<1>. QED BY <1>1, Sources, SourcesEntitle

LEMMA InitEntitled == Init => EventsEntitled
BY DEF Init, ExecutorInit, ApprovalInit, EventsEntitled

\* Every invocation of the executor, queued, running or retried, is about an
\* incident that has been approved (_approve: transition, then invoke).
THEOREM OnlyEntitledEvents == Spec => []EventsEntitled
<1>1. IInv => TypeRefs BY DEF IInv, TypeRefs
<1>. QED BY <1>1, InitEntitled, NextKeepsEntitled, Invariant, PTL DEF Spec

\* A copy of the table lags: what it shows as carried out or failed is so.
CopiesLag ==
  \A i \in Incident : replica[i].status \in {"EXECUTED", "FAILED"} =>
                       table[i].status = replica[i].status

\* Nothing but replication changes the copies.
LEMMA ReplicaMoves ==
  ASSUME [Next]_vars
  PROVE  replica' = replica \/ \E i \in Incident : Propagate(i)
<1>. USE DEF storeVars
<1>1. ASSUME NEW i, NEW to, NEW item, NEW out, Transition(i, to, item, out)
      PROVE  replica' = replica
  BY <1>1 DEF Transition
<1>2. CASE IngestNext
  <2>1. ASSUME NEW i, NEW out, Create(i, out) \/ Suppress(i, out) PROVE replica' = replica
    BY <2>1 DEF Create, Suppress
  <2>2. ASSUME NEW w \in IngestWorker, NEW n \in Notification, IngestCreate(w, n)
        PROVE  replica' = replica
    BY <2>1, <2>2 DEF IngestCreate
  <2>3. ASSUME NEW w \in IngestWorker, IngestSuppress(w) PROVE replica' = replica
    BY <2>1, <2>3 DEF IngestSuppress
  <2>. QED BY <1>2, <2>2, <2>3 DEF IngestNext, IngestStep, IngestIgnore, IngestSend, IngestCrash,
                                   Publish, Republish
<1>3. CASE AgentNext
  BY <1>1, <1>3 DEF AgentNext, AgentStep, AgentSkip, AgentReceive, AgentClaim, AgentConclude,
                    AgentFail, AgentCrash, QueueStep
<1>4. CASE ApprovalNext
  BY <1>1, <1>4 DEF ApprovalNext, Decision, Approve, Reject, Invoke, ApprovalCrash
<1>5. CASE ExecutorNext
  BY <1>1, <1>5 DEF ExecutorNext, ExecutorStep, ExecutorSkip, ExecutorReceive, ExecutorReadAlias,
                    ExecutorShift, ExecutorDisableFlag, ExecutorRecord, ExecutorFail,
                    ExecutorCrash, DuplicateEvent, Deploy
<1>. QED BY <1>2, <1>3, <1>4, <1>5 DEF Next, Replication, vars

LEMMA CopiesStayBehind ==
  ASSUME TypeRefs, CopiesLag, [Next]_vars
  PROVE  CopiesLag'
<1>1. TableStep BY TableSteps
<1>2. CASE replica' = replica BY <1>1, <1>2, EntitledKept DEF CopiesLag
<1>3. ASSUME NEW i \in Incident, Propagate(i) PROVE CopiesLag'
  <2>1. /\ replica \in [Incident -> Item]
        /\ table' = table /\ replica' = [replica EXCEPT ![i] = table[i]]
    BY <1>3 DEF Propagate, TypeRefs, TypeOK, StoreTypeOK
  <2>. QED BY <2>1 DEF CopiesLag
<1>. QED BY <1>2, <1>3, ReplicaMoves

\* The incident of an event is approved, and a copy of it still lags behind that.
SkippedLagging(e) ==
  LET i == events[e].incident
  IN  /\ i \in Lagging
      /\ table[i].status = "APPROVED"
      /\ replica[i].status \notin {"APPROVED", "EXECUTED", "FAILED"}

\* An event that is done by now was done before, or is about an incident that was
\* carried out or has failed, or was skipped for a copy that lags behind the approval.
LEMMA SettlesExecuted ==
  ASSUME TypeRefs, EventsEntitled, CopiesLag, [Next]_vars, NEW e \in Event,
         events'[e].state = "done"
  PROVE  \/ events[e].state = "done" /\ events'[e].incident = events[e].incident
         \/ table'[events[e].incident].status \in {"EXECUTED", "FAILED"}
         \/ SkippedLagging(e)
<1>1. /\ events \in [Event -> [incident : Incident \cup {NoIncident},
                               state : EventState, attempts : Nat]]
      /\ table \in [Incident -> Item]
      /\ EventRefs
  BY DEF TypeRefs, TypeOK, StoreTypeOK, ExecutorTypeOK, Refs
<1>2. CASE UNCHANGED events BY <1>2
<1>3. ASSUME NEW i, Incoming(i) PROVE events[e].state = "done" /\ events'[e].incident = events[e].incident
  BY <1>1, <1>3 DEF Incoming
<1>4. ASSUME NEW w \in ExecutorWorker, ExecutorRaises(w), exec[w].event \in Event
      PROVE  events[e].state = "done" /\ events'[e].incident = events[e].incident
  BY <1>1, <1>4 DEF ExecutorRaises
<1>5. ASSUME NEW w \in ExecutorWorker, exec[w].pc # "idle" PROVE exec[w].event \in Event
  BY <1>5 DEF TypeRefs, Refs, ExecutorRefs
<1>6. ASSUME NEW w \in ExecutorWorker, NEW d \in Event, ExecutorReceive(w, d)
      PROVE  events[e].state = "done" /\ events'[e].incident = events[e].incident
  BY <1>1, <1>6 DEF ExecutorReceive, Deliver
<1>7. ASSUME NEW w \in ExecutorWorker, NEW d \in Event, ExecutorSkip(w, d), e = d
      PROVE  \/ table'[events[e].incident].status \in {"EXECUTED", "FAILED"}
             \/ SkippedLagging(e)
  <2>1. events[d].state = "pending" /\ table' = table BY <1>1, <1>7 DEF ExecutorSkip, Deliver, storeVars
  <2>2. PICK i \in Incident : i = events[d].incident BY <2>1 DEF TypeRefs, Refs, EventRefs
  <2>3. table[i].status \in {"APPROVED", "EXECUTED", "FAILED"}
    BY <2>1, <2>2 DEF EventsEntitled, Entitled
  <2>4. PICK item \in Reads(i) : item.status \notin {"APPROVED", "MISSING"}
    BY <1>7, <2>2 DEF ExecutorSkip
  <2>5. CASE item = table[i] BY <1>7, <2>1, <2>2, <2>3, <2>4, <2>5
  <2>6. CASE item # table[i]
    <3>1. item = replica[i] /\ i \in Lagging BY <2>4, <2>6 DEF Reads, Lagging
    <3>2. replica[i].status \in {"EXECUTED", "FAILED"} => table[i].status = replica[i].status
      BY DEF CopiesLag
    <3>. QED BY <1>7, <2>1, <2>2, <2>3, <2>4, <3>1, <3>2 DEF SkippedLagging
  <2>. QED BY <2>5, <2>6
<1>8. ASSUME NEW w \in ExecutorWorker, NEW d \in Event, ExecutorSkip(w, d), e # d
      PROVE  events[e].state = "done" /\ events'[e].incident = events[e].incident
  BY <1>1, <1>8 DEF ExecutorSkip, Deliver
<1>9. ASSUME NEW w \in ExecutorWorker, ExecutorRecord(w)
      PROVE  \/ events[e].state = "done" /\ events'[e].incident = events[e].incident
             \/ table'[events[e].incident].status \in {"EXECUTED", "FAILED"}
  <2>. DEFINE i    == Working(w)
              item == [table[i] EXCEPT !.execution_result = exec[w].result]
              new  == [item EXCEPT !.status = "EXECUTED"]
  <2>1. PICK out \in Outcome :
          /\ Transition(i, "EXECUTED", item, out)
          /\ \/ out = "ok" /\ ExecutorReturns(w)
             \/ UNCHANGED events
             \/ ExecutorRaises(w)
    BY <1>9 DEF ExecutorRecord
  <2>2. exec[w].event \in Event BY <1>5, <1>9 DEF ExecutorRecord
  <2>3. i \in Incident
    BY <1>9 DEF TypeRefs, Refs, EventRefs, ExecutorRefs, Working, ExecutorRecord
  <2>4. CASE out = "ok" /\ ExecutorReturns(w) /\ e = exec[w].event
    <3>1. events[e].incident = i BY <2>4 DEF Working
    <3>2. new.status = "EXECUTED" BY <1>1, <2>3 DEF Item
    <3>. HIDE DEF new, item, i
    <3>3. Move(i, "EXECUTED", item) BY <2>1, <2>4, TransitionMoves
    <3>4. table' = [table EXCEPT ![i] = new] BY <3>3 DEF Move, new
    <3>. QED BY <1>1, <2>3, <3>1, <3>2, <3>4
  <2>5. CASE ExecutorReturns(w) /\ e # exec[w].event
    BY <1>1, <2>2, <2>5 DEF ExecutorReturns
  <2>. QED BY <1>2, <1>4, <2>1, <2>2, <2>4, <2>5
<1>10. ASSUME NEW w \in ExecutorWorker, ExecutorFail(w) \/ ExecutorCrash(w)
       PROVE  events[e].state = "done" /\ events'[e].incident = events[e].incident
  BY <1>4, <1>5, <1>10 DEF ExecutorFail, ExecutorCrash
<1>11. CASE ExecutorNext
  BY <1>2, <1>3, <1>6, <1>7, <1>8, <1>9, <1>10, <1>11
  DEF ExecutorNext, ExecutorStep, ExecutorReadAlias, ExecutorShift, ExecutorDisableFlag,
      DuplicateEvent, Deploy
<1>12. CASE ApprovalNext
  BY <1>2, <1>3, <1>12
  DEF ApprovalNext, Decision, Approve, Reject, Invoke, ApprovalCrash, executorVars
<1>. QED BY <1>2, <1>11, <1>12 DEF Next, Replication, vars, executorVars

\* execute() skips an event only when "the first execution already happened", or
\* when its read was answered by a copy that lags behind the approval: nothing else
\* settles an approved incident's event, whatever crashes, retries, lost replies and
\* stale reads there were.
THEOREM SettledIsExecuted == Spec => SettledMeansExecuted
<1>1. Init => CopiesLag
  BY DEF Init, StoreInit, Missing, CopiesLag
<1>2. TypeRefs /\ CopiesLag /\ [Next]_vars => CopiesLag' BY CopiesStayBehind
<1>3. TypeRefs /\ EventsEntitled /\ CopiesLag /\ [Next]_vars =>
        [\A e \in Event :
           events[e].state # "done" /\ events'[e].state = "done" =>
             LET i == events[e].incident
             IN  \/ table'[i].status \in {"EXECUTED", "FAILED"}
                 \/ /\ i \in Lagging
                    /\ table[i].status = "APPROVED"
                    /\ replica[i].status \notin {"APPROVED", "EXECUTED", "FAILED"}]_vars
  BY SettlesExecuted DEF SkippedLagging
<1>4. IInv => TypeRefs BY DEF IInv, TypeRefs
<1>. QED BY <1>1, <1>2, <1>3, <1>4, Invariant, OnlyEntitledEvents, PTL
         DEF Spec, SettledMeansExecuted

-----------------------------------------------------------------------------
(* Who moves an item *)

LEMMA TransitionTouches ==
  ASSUME TypeRefs, NEW k \in Incident, NEW i \in Incident, NEW to, NEW item, NEW out,
         Transition(k, to, item, out), table'[i] # table[i]
  PROVE  k = i /\ table[i].status \in LegalFrom(to)
<1>1. Move(k, to, item) BY TransitionMoves
<1>. QED BY <1>1 DEF Move, TypeRefs, TypeOK, StoreTypeOK

LEMMA IngestMoves ==
  ASSUME TypeRefs, IngestNext, NEW i \in Incident, table[i].status # "MISSING"
  PROVE  table'[i].status = table[i].status
<1>. USE DEF TypeRefs, TypeOK, StoreTypeOK
<1>1. ASSUME NEW k \in Incident, NEW out, Create(k, out) PROVE table'[i].status = table[i].status
  BY <1>1 DEF Create
<1>2. ASSUME NEW k \in Incident, NEW out, Suppress(k, out)
      PROVE  table'[i].status = table[i].status
  <2>1. table[k] \in Item OBVIOUS
  <2>2. \A n : [table[k] EXCEPT !.suppressed_count = n].status = table[k].status
    BY <2>1 DEF Item
  <2>3. PICK n : \/ table' = table
                 \/ table' = [table EXCEPT ![k] = [table[k] EXCEPT !.suppressed_count = n]]
    BY <1>2 DEF Suppress
  <2>4. PICK entry : /\ table' = table \/ table' = [table EXCEPT ![k] = entry]
                     /\ entry.status = table[k].status
    BY <2>2, <2>3
  <2>. QED BY <2>4
<1>3. ASSUME NEW w \in IngestWorker, NEW n \in Notification, IngestCreate(w, n)
      PROVE  table'[i].status = table[i].status
  <2>1. PICK at \in (IF n.at = NoTime THEN Instant ELSE {n.at}), out \in Outcome :
          Create(build_incident_id(n.name, at), out)
    BY <1>3 DEF IngestCreate
  <2>2. build_incident_id(n.name, at) \in Incident
    BY <1>3, <2>1, IngestAssumption DEF IngestCreate
  <2>. QED BY <1>1, <2>1, <2>2
<1>4. ASSUME NEW w \in IngestWorker, IngestSuppress(w)
      PROVE  table'[i].status = table[i].status
  <2>1. ingest[w].incident \in Incident BY <1>4 DEF IngestSuppress, Refs, IngestRefs
  <2>. QED BY <1>2, <1>4, <2>1 DEF IngestSuppress
<1>. QED
  BY <1>3, <1>4
  DEF IngestNext, IngestStep, Publish, Republish, IngestIgnore, IngestSend, IngestCrash, storeVars

LEMMA AgentMoves ==
  ASSUME TypeRefs, AgentNext, NEW i \in Incident, table'[i] # table[i]
  PROVE  \E w \in AgentWorker :
            /\ Held(w) = i
            /\ \/ agent[w].pc = "claim" /\ table[i].status = "NEW"
               \/ agent[w].pc = "run" /\ AgentIdles(w)
<1>1. ASSUME NEW w \in AgentWorker, agent[w].pc # "idle" PROVE Held(w) \in Incident
  BY <1>1 DEF TypeRefs, Refs, AgentRefs, QueueRefs, Held
<1>2. ASSUME NEW w \in AgentWorker, AgentClaim(w)
      PROVE  Held(w) = i /\ agent[w].pc = "claim" /\ table[i].status = "NEW"
  BY <1>1, <1>2, TransitionTouches, Edges DEF AgentClaim
<1>3. ASSUME NEW w \in AgentWorker, NEW r \in Rca, AgentConclude(w, r)
      PROVE  Held(w) = i /\ agent[w].pc = "run" /\ AgentIdles(w)
  <2>1. agent[w].pc = "run" /\ AgentIdles(w) BY <1>3 DEF AgentConclude
  <2>2. PICK to, item, out : Transition(Held(w), to, item, out) BY <1>3 DEF AgentConclude
  <2>. QED BY <1>1, <2>1, <2>2, TransitionTouches
<1>4. ASSUME NEW w \in AgentWorker, NEW failure \in RunFailure, AgentFail(w, failure)
      PROVE  Held(w) = i /\ agent[w].pc = "run" /\ AgentIdles(w)
  <2>1. agent[w].pc = "run" /\ AgentIdles(w) BY <1>4 DEF AgentFail
  <2>2. PICK to, item, out : Transition(Held(w), to, item, out) BY <1>4 DEF AgentFail
  <2>. QED BY <1>1, <2>1, <2>2, TransitionTouches
<1>. QED
  BY <1>2, <1>3, <1>4
  DEF AgentNext, AgentStep, AgentSkip, AgentReceive, AgentCrash, QueueStep, storeVars

LEMMA ApprovalMoves ==
  ASSUME TypeRefs, ApprovalNext, NEW i \in Incident, table'[i] # table[i]
  PROVE  table[i].status = "PENDING_APPROVAL"
<1>1. ASSUME NEW a \in Actor, NEW k \in Incident, Approve(a, k) \/ Reject(a, k)
      PROVE  table[i].status = "PENDING_APPROVAL"
  <2>1. PICK to, item, out : to \in {"APPROVED", "REJECTED"} /\ Transition(k, to, item, out)
    BY <1>1 DEF Approve, Reject
  <2>. QED BY <2>1, TransitionTouches, Edges
<1>. QED BY <1>1 DEF ApprovalNext, Decision, Invoke, ApprovalCrash, storeVars

LEMMA ExecutorMoves ==
  ASSUME TypeRefs, ExecutorNext, NEW i \in Incident, table'[i] # table[i]
  PROVE  \E w \in ExecutorWorker : exec[w].pc # "idle" /\ Working(w) = i
<1>1. ASSUME NEW w \in ExecutorWorker, ExecutorRecord(w) \/ ExecutorFail(w)
      PROVE  exec[w].pc # "idle" /\ Working(w) = i
  <2>1. exec[w].pc # "idle" BY <1>1 DEF ExecutorRecord, ExecutorFail
  <2>2. Working(w) \in Incident BY <2>1 DEF TypeRefs, Refs, EventRefs, ExecutorRefs, Working
  <2>3. PICK to, item, out : Transition(Working(w), to, item, out)
    BY <1>1 DEF ExecutorRecord, ExecutorFail
  <2>. QED BY <2>1, <2>2, <2>3, TransitionTouches
<1>. QED
  BY <1>1
  DEF ExecutorNext, ExecutorStep, ExecutorSkip, ExecutorReceive, ExecutorReadAlias, ExecutorShift,
      ExecutorDisableFlag, ExecutorCrash, DuplicateEvent, Deploy, storeVars

\* An incident is INVESTIGATING for as long as somebody investigates it.
RunnerOwns ==
  \A w \in AgentWorker : agent[w].pc = "run" => table[Held(w)].status = "INVESTIGATING"

LEMMA NextKeepsRunner ==
  TypeRefs /\ EventsEntitled /\ InvestigatedOnce /\ RunnerOwns /\ [Next]_vars => RunnerOwns'
<1>. SUFFICES ASSUME TypeRefs, EventsEntitled, InvestigatedOnce, RunnerOwns, [Next]_vars,
                     NEW v \in AgentWorker, agent'[v].pc = "run"
              PROVE  table'[Held(v)'].status = "INVESTIGATING"
  BY DEF RunnerOwns
<1>1. \A w \in AgentWorker : agent[w].pc # "idle" =>
        /\ Held(w) \in Incident
        /\ agent'[w].msg = agent[w].msg => Held(w)' = Held(w)
  BY WorkSteps DEF TypeRefs, Refs, AgentRefs, QueueRefs, WorkKept, Held
<1>2. agent \in [AgentWorker -> [pc : {"idle", "claim", "run"}, msg : Message \cup {NoMessage}]]
  BY DEF TypeRefs, TypeOK, AgentTypeOK
<1>3. CASE NobodyStarts
  <2>1. /\ agent[v].pc = "run" /\ Held(v)' = Held(v) /\ Held(v) \in Incident
        /\ table[Held(v)].status = "INVESTIGATING"
    BY <1>1, <1>3 DEF NobodyStarts, RunnerOwns
  <2>. SUFFICES ASSUME table'[Held(v)] # table[Held(v)], table'[Held(v)].status # "INVESTIGATING"
                PROVE  FALSE
    BY <2>1
  <2>2. CASE IngestNext BY <2>1, <2>2, IngestMoves
  <2>3. CASE AgentNext
    <3>1. PICK w \in AgentWorker : agent[w].pc = "run" /\ Held(w) = Held(v) /\ AgentIdles(w)
      BY <2>1, <2>3, AgentMoves
    <3>2. w = v BY <2>1, <3>1 DEF InvestigatedOnce
    <3>. QED BY <1>2, <3>1, <3>2 DEF AgentIdles, AgentIdle
  <2>4. CASE ApprovalNext BY <2>1, <2>4, ApprovalMoves
  <2>5. CASE ExecutorNext
    <3>1. PICK w \in ExecutorWorker : exec[w].pc # "idle" /\ Working(w) = Held(v)
      BY <2>1, <2>5, ExecutorMoves
    <3>2. Entitled(Held(v)) BY <3>1 DEF TypeRefs, Refs, ExecutorRefs, EventsEntitled, Working
    <3>. QED BY <2>1, <3>2 DEF Entitled
  <2>. QED BY <2>2, <2>3, <2>4, <2>5 DEF Next, Replication, Propagate, vars
<1>4. ASSUME NEW w \in AgentWorker, agent[w].pc = "claim",
             Move(Held(w), "INVESTIGATING", table[Held(w)]),
             agent' = [agent EXCEPT ![w].pc = "run"]
      PROVE  table'[Held(v)'].status = "INVESTIGATING"
  <2>. DEFINE i == Held(w)
              new == [table[i] EXCEPT !.status = "INVESTIGATING"]
  <2>1. i \in Incident /\ table[i] \in Item /\ table \in [Incident -> Item]
    BY <1>1, <1>4 DEF TypeRefs, TypeOK, StoreTypeOK
  <2>2. new.status = "INVESTIGATING" BY <2>1 DEF Item
  <2>3. table' = [table EXCEPT ![i] = new] BY <1>4 DEF Move
  <2>. HIDE DEF new
  <2>4. Held(v)' = Held(v) /\ Held(v) \in Incident BY <1>1, <1>2, <1>4
  <2>5. v # w => table[Held(v)].status = "INVESTIGATING" BY <1>2, <1>4 DEF RunnerOwns
  <2>. QED BY <2>1, <2>2, <2>3, <2>4, <2>5
<1>. QED BY <1>3, <1>4, StartsOnlyByClaim

\* Nobody takes an incident out of the hands of the invocation that claimed it:
\* while the agent loop runs, the item is INVESTIGATING, whoever crashes,
\* retries or decides on what.
THEOREM InvestigationIsOwned == Spec => []RunnerOwns
<1>1. Init => RunnerOwns BY DEF Init, AgentInit, AgentIdle, RunnerOwns
<1>2. IInv => TypeRefs BY DEF IInv, TypeRefs
<1>. QED
  BY <1>1, <1>2, NextKeepsRunner, Invariant, OneRunEach, OnlyEntitledEvents, PTL DEF Spec

-----------------------------------------------------------------------------
(* While nothing goes wrong: no fault, no stale read *)

Quiet == MaxFaults = 0 /\ StaleReads = FALSE

Used(e) == events[e].state # "unused"

Holds(w, e) == exec[w].pc # "idle" /\ exec[w].event = e

\* An approved incident is in the hands of one operator's request or of one event,
\* and an event in those of one invocation.
OneHandEach ==
  /\ \A a, b \in Actor : gate[a] # NoIncident /\ gate[a] = gate[b] => a = b
  /\ \A a \in Actor, e \in Event : Used(e) => events[e].incident # gate[a]
  /\ \A d, e \in Event : Used(d) /\ Used(e) /\ events[d].incident = events[e].incident => d = e
  /\ \A w \in ExecutorWorker, e \in Event : Holds(w, e) => events[e].state = "running"
  /\ \A v, w \in ExecutorWorker, e \in Event : Holds(v, e) /\ Holds(w, e) => v = w

\* The inductive invariant behind SingleEffect: no effect before its event ran,
\* at most one then, and none before the update when the event is tried again;
\* whoever is at work finds the incident APPROVED.
EffectsCounted ==
  /\ \A i \in Incident : effects[i] <= 1
  /\ \A i \in Incident : effects[i] > 0 => \E e \in Event : Used(e) /\ events[e].incident = i
  /\ \A e \in Event : events[e].state = "pending" => effects[events[e].incident] = 0
  /\ \A w \in ExecutorWorker :
       /\ exec[w].pc # "idle" => table[Working(w)].status = "APPROVED"
       /\ exec[w].pc \notin {"idle", "record"} => effects[Working(w)] = 0

QuietInv == OneHandEach /\ EffectsCounted

LEMMA NoFaults == ASSUME Quiet, TypeRefs PROVE ~Fault
<1>1. faults \in 0..MaxFaults BY DEF TypeRefs, TypeOK, FaultsTypeOK
<1>. QED BY <1>1, SMT DEF Quiet, Fault

LEMMA QuietTypes ==
  ASSUME TypeRefs
  PROVE  /\ events \in [Event -> [incident : Incident \cup {NoIncident},
                                  state : EventState, attempts : Nat]]
         /\ exec \in [ExecutorWorker -> Invocation]
         /\ effects \in [Incident -> Nat]
         /\ gate \in [Actor -> Incident \cup {NoIncident}]
         /\ table \in [Incident -> Item]
         /\ \A e \in Event : Used(e) => events[e].incident \in Incident
         /\ \A w \in ExecutorWorker : exec[w].pc # "idle" =>
              exec[w].event \in Event /\ Used(exec[w].event) /\ Working(w) \in Incident
BY DEF TypeRefs, TypeOK, StoreTypeOK, ExecutorTypeOK, ApprovalTypeOK, Refs, EventRefs, ExecutorRefs,
       Used, Working

\* A step that is not the executor's leaves what is APPROVED as it is.
LEMMA ApprovedStays ==
  ASSUME TypeRefs, RunnerOwns, NEW i \in Incident, table[i].status = "APPROVED",
         IngestNext \/ AgentNext \/ ApprovalNext \/ UNCHANGED table
  PROVE  table'[i].status = "APPROVED"
<1>1. CASE IngestNext BY <1>1, IngestMoves
<1>2. CASE AgentNext BY <1>2, AgentMoves DEF RunnerOwns
<1>3. CASE ApprovalNext BY <1>3, ApprovalMoves
<1>. QED BY <1>1, <1>2, <1>3

\* One that also leaves events, invocations and effects alone.
LEMMA OthersKeepQuiet ==
  ASSUME TypeRefs, RunnerOwns, QuietInv,
         IngestNext \/ AgentNext \/ ApprovalNext \/ UNCHANGED table,
         UNCHANGED <<events, exec, effects, gate>>
  PROVE  QuietInv'
<1>1. \A w \in ExecutorWorker : exec[w].pc # "idle" => Working(w) \in Incident
  BY QuietTypes
<1>2. \A i \in Incident : table[i].status = "APPROVED" => table'[i].status = "APPROVED"
  BY ApprovedStays
<1>3. OneHandEach' BY DEF QuietInv, OneHandEach, Used, Holds
<1>4. EffectsCounted' BY <1>1, <1>2 DEF QuietInv, EffectsCounted, Used, Working
<1>. QED BY <1>3, <1>4 DEF QuietInv

LEMMA ApproveKeepsQuiet ==
  ASSUME Quiet, TypeRefs, RunnerOwns, EventsEntitled, QuietInv,
         NEW a \in Actor, NEW i \in Incident, Approve(a, i), ApprovalNext
  PROVE  QuietInv'
<1>1. PICK out \in Outcome :
        /\ Transition(i, "APPROVED", [table[i] EXCEPT !.approved_by = a], out)
        /\ gate' = [gate EXCEPT ![a] = IF out = "ok" /\ EXECUTOR_FUNCTION THEN i ELSE NoIncident]
  BY DEF Approve
<1>2. UNCHANGED <<events, exec, effects>> /\ gate[a] = NoIncident
  BY DEF Approve, Requests, executorVars
<1>3. \A w \in ExecutorWorker : exec[w].pc # "idle" => Working(w) \in Incident
  BY QuietTypes
<1>4. \A j \in Incident : table[j].status = "APPROVED" => table'[j].status = "APPROVED"
  BY ApprovedStays
<1>5. EffectsCounted' BY <1>2, <1>3, <1>4 DEF QuietInv, EffectsCounted, Used, Working
<1>6. CASE gate' = gate BY <1>2, <1>6, <1>5 DEF QuietInv, OneHandEach, Used, Holds
<1>7. CASE out = "ok" /\ gate' = [gate EXCEPT ![a] = i]
  <2>1. table[i].status = "PENDING_APPROVAL" BY <1>1, <1>7, TransitionMoves, Edges DEF Move
  <2>2. /\ \A e \in Event : Used(e) => events[e].incident # i
        /\ \A b \in Actor : gate[b] # i
    BY <2>1, StoreAssumption DEF EventsEntitled, Entitled, Used
  <2>3. gate \in [Actor -> Incident \cup {NoIncident}] BY QuietTypes
  <2>4. OneHandEach' BY <1>2, <1>7, <2>2, <2>3 DEF QuietInv, OneHandEach, Used, Holds
  <2>. QED BY <1>5, <2>4 DEF QuietInv
<1>. QED BY <1>1, <1>2, <1>6, <1>7, QuietTypes

LEMMA InvokeKeepsQuiet ==
  ASSUME TypeRefs, RunnerOwns, EventsEntitled, QuietInv, NEW a \in Actor, Invoke(a)
  PROVE  QuietInv'
<1>1. PICK e \in Event :
        /\ events[e].state = "unused"
        /\ events' = [events EXCEPT ![e] = [incident |-> gate[a], state |-> "pending",
                                            attempts |-> 0]]
  BY DEF Invoke, Incoming
<1>2. /\ gate[a] # NoIncident /\ gate' = [gate EXCEPT ![a] = NoIncident]
      /\ UNCHANGED <<table, exec, effects>>
  BY DEF Invoke, storeVars
<1>3. /\ events'[e].incident = gate[a] /\ events'[e].state = "pending"
      /\ \A d \in Event : d # e => events'[d] = events[d]
      /\ gate[a] \in Incident
      /\ \A d \in Event : Used(d) => events[d].incident \in Incident
      /\ \A b \in Actor : gate'[b] = IF b = a THEN NoIncident ELSE gate[b]
  BY <1>1, <1>2, QuietTypes
<1>4. \A d \in Event : Used(d) => events[d].incident # gate[a] BY DEF QuietInv, OneHandEach
<1>5. effects[gate[a]] = 0
  <2>1. effects[gate[a]] \in Nat BY <1>3, QuietTypes
  <2>. QED BY <1>3, <1>4, <2>1 DEF QuietInv, EffectsCounted
<1>6. \A w \in ExecutorWorker : exec[w].pc # "idle" =>
        exec[w].event \in Event /\ exec[w].event # e /\ Working(w)' = Working(w)
  BY <1>1, <1>2, <1>3, QuietTypes DEF Used, Working
<1>7. OneHandEach'
  <2>1. \A b \in Actor, d \in Event : Used(d)' => events'[d].incident # gate'[b]
    BY <1>3, <1>4, StoreAssumption DEF QuietInv, OneHandEach, Used
  <2>2. \A b, c \in Actor : gate'[b] # NoIncident /\ gate'[b] = gate'[c] => b = c
    BY <1>3 DEF QuietInv, OneHandEach
  <2>3. \A c, d \in Event : Used(c)' /\ Used(d)' /\ events'[c].incident = events'[d].incident => c = d
    BY <1>3, <1>4 DEF QuietInv, OneHandEach, Used
  <2>4. \A w \in ExecutorWorker, d \in Event : Holds(w, d)' => events'[d].state = "running"
    BY <1>2, <1>3, <1>6 DEF QuietInv, OneHandEach, Holds
  <2>5. \A v, w \in ExecutorWorker, d \in Event : Holds(v, d)' /\ Holds(w, d)' => v = w
    BY <1>2 DEF QuietInv, OneHandEach, Holds
  <2>. QED BY <2>1, <2>2, <2>3, <2>4, <2>5 DEF OneHandEach
<1>8. EffectsCounted'
  <2>1. \A i \in Incident : effects'[i] > 0 => \E d \in Event : Used(d)' /\ events'[d].incident = i
    BY <1>1, <1>2, <1>3 DEF QuietInv, EffectsCounted, Used
  <2>2. \A d \in Event : events'[d].state = "pending" => effects'[events'[d].incident] = 0
    BY <1>2, <1>3, <1>5 DEF QuietInv, EffectsCounted
  <2>. QED BY <1>2, <1>6, <2>1, <2>2 DEF QuietInv, EffectsCounted
<1>. QED BY <1>7, <1>8 DEF QuietInv

\* A busy invocation moves on, or ends, on behalf of its own incident only.
LEMMA BusyKeepsQuiet ==
  ASSUME TypeRefs, QuietInv, UNCHANGED gate,
         NEW w \in ExecutorWorker, exec[w].pc # "idle",
         NEW x, exec' = [exec EXCEPT ![w] = x], x.pc # "idle" => x.event = exec[w].event,
         \A d \in Event : events'[d].incident = events[d].incident,
         \A d \in Event \ {exec[w].event} : events'[d].state = events[d].state,
         events'[exec[w].event].state # "unused",
         x.pc # "idle" => events'[exec[w].event].state = "running",
         \A i \in Incident \ {Working(w)} :
           effects'[i] = effects[i] /\ table'[i].status = table[i].status,
         effects'[Working(w)] <= 1,
         events'[exec[w].event].state = "pending" => effects'[Working(w)] = 0,
         x.pc # "idle" => table'[Working(w)].status = "APPROVED",
         x.pc \notin {"idle", "record"} => effects'[Working(w)] = 0
  PROVE  QuietInv'
<1>. DEFINE e == exec[w].event
<1>1. /\ e \in Event /\ Used(e) /\ Holds(w, e) /\ Working(w) \in Incident
      /\ Working(w) = events[e].incident
  BY QuietTypes DEF Holds, Working
<1>2. \A d \in Event : Used(d)' <=> Used(d)
  BY <1>1 DEF Used
<1>3. exec'[w] = x /\ \A v \in ExecutorWorker \ {w} : exec'[v] = exec[v]
  BY QuietTypes
<1>4. \A v \in ExecutorWorker \ {w}, d \in Event : Holds(v, d)' <=> Holds(v, d)
  BY <1>3 DEF Holds
<1>5. \A d \in Event : Holds(w, d)' => d = e /\ x.pc # "idle"
  BY <1>3 DEF Holds
<1>6. \A v \in ExecutorWorker \ {w}, d \in Event : Holds(v, d) =>
        d # e /\ events[d].incident # Working(w)
  BY <1>1, QuietTypes DEF QuietInv, OneHandEach, Holds
<1>7. OneHandEach'
  <2>1. /\ \A a, b \in Actor : gate'[a] # NoIncident /\ gate'[a] = gate'[b] => a = b
        /\ \A a \in Actor, d \in Event : Used(d)' => events'[d].incident # gate'[a]
        /\ \A c, d \in Event : Used(c)' /\ Used(d)' /\ events'[c].incident = events'[d].incident => c = d
    BY <1>2 DEF QuietInv, OneHandEach
  <2>2. \A v \in ExecutorWorker, d \in Event : Holds(v, d)' => events'[d].state = "running"
    BY <1>4, <1>5, <1>6 DEF QuietInv, OneHandEach
  <2>3. \A u, v \in ExecutorWorker, d \in Event : Holds(u, d)' /\ Holds(v, d)' => u = v
    BY <1>4, <1>5, <1>6 DEF QuietInv, OneHandEach
  <2>. QED BY <2>1, <2>2, <2>3 DEF OneHandEach
<1>8. EffectsCounted'
  <2>1. \A i \in Incident : effects'[i] <= 1
    BY DEF QuietInv, EffectsCounted
  <2>2. \A i \in Incident : effects'[i] > 0 => \E d \in Event : Used(d)' /\ events'[d].incident = i
    BY <1>1, <1>2 DEF QuietInv, EffectsCounted
  <2>3. \A d \in Event : events'[d].state = "pending" => effects'[events'[d].incident] = 0
    <3>. SUFFICES ASSUME NEW d \in Event, events'[d].state = "pending", d # e
                  PROVE  effects'[events[d].incident] = 0
      BY <1>1
    <3>1. events[d].state = "pending" /\ events[d].incident \in Incident
      BY QuietTypes DEF Used
    <3>2. events[d].incident # Working(w) BY <1>1, <3>1 DEF QuietInv, OneHandEach, Used
    <3>. QED BY <3>1, <3>2 DEF QuietInv, EffectsCounted
  <2>4. ASSUME NEW v \in ExecutorWorker, exec'[v].pc # "idle"
        PROVE  /\ table'[Working(v)'].status = "APPROVED"
               /\ exec'[v].pc # "record" => effects'[Working(v)'] = 0
    <3>1. CASE v = w
      <4>1. Working(v)' = Working(w) BY <1>1, <1>3, <2>4, <3>1 DEF Working
      <4>. QED BY <1>3, <2>4, <3>1, <4>1
    <3>2. CASE v # w
      <4>1. exec'[v] = exec[v] BY <1>3, <3>2
      <4>2. /\ exec[v].event \in Event /\ Working(v) \in Incident
            /\ Working(v) = events[exec[v].event].incident
        BY <2>4, <4>1, QuietTypes DEF Working
      <4>3. Holds(v, exec[v].event) BY <2>4, <4>1 DEF Holds
      <4>4. Working(v) # Working(w) BY <1>6, <3>2, <4>2, <4>3
      <4>5. Working(v)' = Working(v) BY <4>1, <4>2 DEF Working
      <4>. QED BY <2>4, <4>1, <4>2, <4>4, <4>5 DEF QuietInv, EffectsCounted
    <3>. QED BY <3>1, <3>2
  <2>. QED BY <2>1, <2>2, <2>3, <2>4 DEF EffectsCounted
<1>. QED BY <1>7, <1>8 DEF QuietInv

\* Without faults a transition of an item in the right status succeeds.
LEMMA QuietTransition ==
  ASSUME Quiet, TypeRefs, NEW i \in Incident, NEW to, NEW item, NEW out,
         Transition(i, to, item, out), table[i].status \in LegalFrom(to)
  PROVE  out = "ok" /\ \A j \in Incident \ {i} : table'[j] = table[j]
BY NoFaults DEF Transition, Move, TypeRefs, TypeOK, StoreTypeOK

LEMMA ExecutorKeepsQuiet ==
  ASSUME Quiet, TypeRefs, EventsEntitled, QuietInv, ExecutorNext, UNCHANGED gate
  PROVE  QuietInv'
<1>1. ~Fault BY NoFaults
\* What a busy invocation has before its step.
<1>2. ASSUME NEW w \in ExecutorWorker, exec[w].pc # "idle"
      PROVE  /\ exec[w].event \in Event /\ Working(w) \in Incident
             /\ exec[w] \in Invocation
             /\ Working(w) = events[exec[w].event].incident
             /\ events[exec[w].event].state = "running"
             /\ table[Working(w)].status = "APPROVED"
             /\ effects[Working(w)] <= 1
             /\ exec[w].pc # "record" => effects[Working(w)] = 0
  BY <1>2, QuietTypes DEF QuietInv, OneHandEach, EffectsCounted, Holds, Working
\* The invocation goes on to call pc, with or without an effect.
<1>3. ASSUME NEW w \in ExecutorWorker, exec[w].pc \notin {"idle", "record"},
             NEW x, exec' = [exec EXCEPT ![w] = x], x.event = exec[w].event,
             UNCHANGED <<table, events>>,
             UNCHANGED effects \/ (Effect(w) /\ x.pc = "record")
      PROVE  QuietInv'
  <2>1. /\ \A i \in Incident \ {Working(w)} : effects'[i] = effects[i]
        /\ effects'[Working(w)] <= 1
        /\ x.pc # "record" => effects'[Working(w)] = 0
    BY <1>2, <1>3, QuietTypes DEF Effect
  <2>. QED BY <1>2, <1>3, <2>1, BusyKeepsQuiet
\* It ends.
<1>4. ASSUME NEW w \in ExecutorWorker, exec[w].pc # "idle", NEW s \in {"done", "pending", "dropped"},
             events' = [events EXCEPT ![exec[w].event].state = s],
             exec' = [exec EXCEPT ![w] = ExecutorIdle],
             UNCHANGED effects, s = "pending" => exec[w].pc # "record",
             \A i \in Incident \ {Working(w)} : table'[i].status = table[i].status
      PROVE  QuietInv'
  <2>1. /\ events'[exec[w].event].state = s
        /\ \A d \in Event : events'[d].incident = events[d].incident
        /\ \A d \in Event \ {exec[w].event} : events'[d].state = events[d].state
    BY <1>2, <1>4, QuietTypes
  <2>2. ExecutorIdle.pc = "idle" BY DEF ExecutorIdle
  <2>. HIDE DEF ExecutorIdle
  <2>3. s = "pending" => effects'[Working(w)] = 0 BY <1>2, <1>4
  <2>. QED BY <1>2, <1>4, <2>1, <2>2, <2>3, BusyKeepsQuiet
<1>5. ASSUME NEW w \in ExecutorWorker, ExecutorReadAlias(w) PROVE QuietInv'
  <2>1. exec[w].pc = "alias" /\ UNCHANGED <<table, events, effects>>
    BY <1>5 DEF ExecutorReadAlias, storeVars
  <2>. DEFINE current == alias[exec[w].rca.target]
              shift   == [exec[w] EXCEPT !.pc = "shift",
                            !.result = [action |-> "alias_rollback",
                                        from |-> current, to |-> current - 1]]
              fail    == [exec[w] EXCEPT !.pc = "fail"]
  <2>2. shift.event = exec[w].event /\ fail.event = exec[w].event
    BY <1>2, <2>1 DEF Invocation
  <2>3. exec' = [exec EXCEPT ![w] = shift] \/ exec' = [exec EXCEPT ![w] = fail]
    BY <1>1, <1>5 DEF ExecutorReadAlias, Goto
  <2>. HIDE DEF shift, fail
  <2>. QED BY <1>3, <2>1, <2>2, <2>3
<1>6. ASSUME NEW w \in ExecutorWorker, ExecutorShift(w) PROVE QuietInv'
  <2>. DEFINE record == [exec[w] EXCEPT !.pc = "record"]
  <2>1. /\ exec[w].pc = "shift" /\ UNCHANGED <<table, events>> /\ Effect(w)
        /\ exec' = [exec EXCEPT ![w] = record]
    BY <1>1, <1>6 DEF ExecutorShift, Goto, storeVars
  <2>2. record.event = exec[w].event /\ record.pc = "record" BY <1>2, <2>1 DEF Invocation
  <2>. HIDE DEF record
  <2>. QED BY <1>3, <2>1, <2>2
<1>7. ASSUME NEW w \in ExecutorWorker, ExecutorDisableFlag(w) PROVE QuietInv'
  <2>. DEFINE record == [exec[w] EXCEPT !.pc = "record", !.result.action = "feature_flag"]
  <2>1. /\ exec[w].pc = "flag" /\ UNCHANGED <<table, events>> /\ Effect(w)
        /\ exec' = [exec EXCEPT ![w] = record]
    BY <1>1, <1>7 DEF ExecutorDisableFlag, storeVars
  <2>2. record.event = exec[w].event /\ record.pc = "record" BY <1>2, <2>1 DEF Invocation
  <2>. HIDE DEF record
  <2>. QED BY <1>3, <2>1, <2>2
<1>8. ASSUME NEW w \in ExecutorWorker, ExecutorRecord(w) PROVE QuietInv'
  <2>1. PICK item, out :
          /\ Transition(Working(w), "EXECUTED", item, out)
          /\ \/ out = "ok" /\ ExecutorReturns(w)
             \/ out \in {"refused", "error"}
          /\ exec[w].pc = "record" /\ UNCHANGED effects
    BY <1>8 DEF ExecutorRecord
  <2>2. out = "ok" /\ \A j \in Incident \ {Working(w)} : table'[j] = table[j]
    BY <1>2, <2>1, QuietTransition, Edges
  <2>. QED BY <1>4, <2>1, <2>2 DEF ExecutorReturns
<1>9. ASSUME NEW w \in ExecutorWorker, ExecutorFail(w) PROVE QuietInv'
  <2>1. PICK out :
          /\ Transition(Working(w), "FAILED", table[Working(w)], out)
          /\ ExecutorRaises(w)
          /\ exec[w].pc = "fail" /\ UNCHANGED effects
    BY <1>9 DEF ExecutorFail
  <2>2. \A j \in Incident \ {Working(w)} : table'[j] = table[j]
    BY <1>2, <2>1, QuietTransition, Edges
  <2>3. \E s \in {"pending", "dropped"} : events' = [events EXCEPT ![exec[w].event].state = s]
    BY <2>1 DEF ExecutorRaises
  <2>. QED BY <1>4, <2>1, <2>2, <2>3 DEF ExecutorRaises
<1>10. ASSUME NEW w \in ExecutorWorker, NEW e \in Event, ExecutorSkip(w, e) PROVE QuietInv'
  <2>1. /\ events'[e].state = "done" /\ events[e].state = "pending"
        /\ \A d \in Event : events'[d].incident = events[d].incident
        /\ \A d \in Event \ {e} : events'[d].state = events[d].state
        /\ UNCHANGED <<table, exec, effects>>
    BY <1>10, QuietTypes DEF ExecutorSkip, Deliver, storeVars
  <2>2. \A d \in Event : Used(d)' <=> Used(d) BY <2>1 DEF Used
  <2>3. \A v \in ExecutorWorker, d \in Event : Holds(v, d)' <=> Holds(v, d) BY <2>1 DEF Holds
  <2>4. \A v \in ExecutorWorker : exec[v].pc # "idle" =>
          Working(v) \in Incident /\ Working(v)' = Working(v)
    BY <2>1, QuietTypes DEF Working
  <2>5. OneHandEach' BY <2>1, <2>2, <2>3 DEF QuietInv, OneHandEach
  <2>6. EffectsCounted' BY <2>1, <2>2, <2>4 DEF QuietInv, EffectsCounted
  <2>. QED BY <2>5, <2>6 DEF QuietInv
<1>11. ASSUME NEW w \in ExecutorWorker, NEW e \in Event, ExecutorReceive(w, e) PROVE QuietInv'
  <2>. DEFINE i == events[e].incident
  <2>1. /\ events'[e].state = "running" /\ events[e].state = "pending"
        /\ \A d \in Event : events'[d].incident = events[d].incident
        /\ \A d \in Event \ {e} : events'[d].state = events[d].state
        /\ UNCHANGED <<table, effects>> /\ exec[w].pc = "idle"
    BY <1>11, QuietTypes DEF ExecutorReceive, Deliver, storeVars
  <2>2. /\ table[i].status \in {"APPROVED", "MISSING"}
        /\ \E x : x.event = e /\ exec' = [exec EXCEPT ![w] = x]
    BY <1>11 DEF ExecutorReceive, Reads, Quiet
  <2>3. i \in Incident /\ Used(e) /\ table[i].status = "APPROVED" /\ effects[i] = 0
    BY <2>1, <2>2, QuietTypes DEF Used, EventsEntitled, Entitled, QuietInv, EffectsCounted
  <2>4. exec'[w].event = e /\ \A v \in ExecutorWorker \ {w} : exec'[v] = exec[v]
    BY <2>2, QuietTypes
  <2>5. \A d \in Event : Used(d)' <=> Used(d) BY <2>1 DEF Used
  <2>6. \A v \in ExecutorWorker, d \in Event : Holds(v, d)' =>
          (v = w /\ d = e) \/ (v # w /\ Holds(v, d) /\ d # e)
    BY <2>1, <2>4 DEF Holds, QuietInv, OneHandEach
  <2>7. OneHandEach' BY <2>1, <2>5, <2>6 DEF QuietInv, OneHandEach
  <2>8. ASSUME NEW v \in ExecutorWorker, exec'[v].pc # "idle"
        PROVE  /\ table'[Working(v)'].status = "APPROVED"
               /\ exec'[v].pc # "record" => effects'[Working(v)'] = 0
    <3>1. CASE v = w BY <2>1, <2>3, <2>4, <3>1 DEF Working
    <3>2. CASE v # w
      <4>1. exec'[v] = exec[v] /\ exec[v].event \in Event /\ Working(v) \in Incident
        BY <2>4, <2>8, <3>2, QuietTypes
      <4>2. Working(v)' = Working(v) BY <2>1, <4>1 DEF Working
      <4>. QED BY <2>1, <2>8, <4>1, <4>2 DEF QuietInv, EffectsCounted
    <3>. QED BY <3>1, <3>2
  <2>9. EffectsCounted' BY <2>1, <2>5, <2>8 DEF QuietInv, EffectsCounted
  <2>. QED BY <2>7, <2>9 DEF QuietInv
<1>12. ASSUME NEW f \in Function, Deploy(f) PROVE QuietInv'
  BY <1>12 DEF Deploy, storeVars, QuietInv, OneHandEach, EffectsCounted, Used, Holds, Working
<1>. QED
  BY <1>1, <1>5, <1>6, <1>7, <1>8, <1>9, <1>10, <1>11, <1>12
  DEF ExecutorNext, ExecutorStep, ExecutorCrash, DuplicateEvent

LEMMA NextKeepsQuiet ==
  ASSUME Quiet, TypeRefs, RunnerOwns, EventsEntitled, QuietInv, [Next]_vars
  PROVE  QuietInv'
<1>1. CASE IngestNext /\ UNCHANGED <<executorVars, gate>>
  BY <1>1, OthersKeepQuiet DEF executorVars
<1>2. CASE AgentNext /\ UNCHANGED <<executorVars, gate>>
  BY <1>2, OthersKeepQuiet DEF executorVars
<1>3. CASE ApprovalNext
  <2>1. ASSUME NEW a \in Actor, NEW i \in Incident, Approve(a, i) PROVE QuietInv'
    BY <1>3, <2>1, ApproveKeepsQuiet
  <2>2. ASSUME NEW a \in Actor, NEW i \in Incident, Reject(a, i) PROVE QuietInv'
    BY <1>3, <2>2, OthersKeepQuiet DEF Reject, executorVars
  <2>3. ASSUME NEW a \in Actor, Invoke(a) PROVE QuietInv'
    BY <2>3, InvokeKeepsQuiet
  <2>. QED BY <1>3, <2>1, <2>2, <2>3, NoFaults DEF ApprovalNext, Decision, ApprovalCrash
<1>4. CASE ExecutorNext /\ UNCHANGED gate BY <1>4, ExecutorKeepsQuiet
<1>5. CASE UNCHANGED vars BY <1>5, OthersKeepQuiet DEF vars
<1>. QED BY <1>1, <1>2, <1>3, <1>4, <1>5 DEF Next, Replication, Propagate, Quiet

LEMMA InitQuiet == Init => QuietInv
<1>. SUFFICES ASSUME Init PROVE QuietInv OBVIOUS
<1>1. /\ \A e \in Event : events[e].state = "unused"
      /\ \A w \in ExecutorWorker : exec[w].pc = "idle"
      /\ \A a \in Actor : gate[a] = NoIncident
      /\ \A i \in Incident : effects[i] = 0
  BY DEF Init, ExecutorInit, ApprovalInit, ExecutorIdle
<1>. QED BY <1>1 DEF QuietInv, OneHandEach, EffectsCounted, Used, Holds

\* While nothing goes wrong, whoever works on an approval is its only worker, and
\* the target is changed once by the time it is recorded (execute, handler).
THEOREM QuietInvariant == ASSUME Quiet PROVE Spec => []QuietInv
<1>1. IInv => TypeRefs BY DEF IInv, TypeRefs
<1>. QED
  BY <1>1, InitQuiet, NextKeepsQuiet, Invariant, InvestigationIsOwned, OnlyEntitledEvents, PTL DEF Spec

\* While nothing goes wrong the target is changed at most once per incident,
\* however many operators, workers and attempts there are (approval/handler.py:
\* "the executor cannot run twice").  A crash, a duplicate or a stale read after
\* the first effect gives it up: the run Twice shows how.
THEOREM OneEffectEach ==
  ASSUME MaxFaults = 0, StaleReads = FALSE
  PROVE  Spec => []SingleEffect
<1>1. Quiet BY DEF Quiet
<1>2. QuietInv => SingleEffect BY DEF QuietInv, EffectsCounted, SingleEffect
<1>. QED BY <1>1, <1>2, QuietInvariant, PTL

-----------------------------------------------------------------------------
(* The version a function serves is accounted for, while nothing goes wrong *)

Reported(f) == \E i \in Incident : /\ table[i].status = "EXECUTED"
                                   /\ table[i].rca.target = f
                                   /\ table[i].execution_result.to = alias[f]

Reporting(w, f) == /\ exec[w].pc = "record"
                   /\ exec[w].rca.target = f
                   /\ exec[w].result.to = alias[f]

\* The inductive invariant behind ServedVersionIsExplained: it is the newest
\* version, or an executed incident says so, or an invocation is about to.
AliasExplained ==
  \A f \in Function : \/ alias[f] = published[f]
                      \/ Reported(f)
                      \/ \E w \in ExecutorWorker : Reporting(w, f)

\* What an executed incident reports it reports for good.
LEMMA ReportedKept ==
  ASSUME TableStep, NEW f \in Function, alias'[f] = alias[f], Reported(f)
  PROVE  Reported(f)'
<1>1. PICK i \in Incident : /\ table[i].status = "EXECUTED"
                            /\ table[i].rca.target = f
                            /\ table[i].execution_result.to = alias[f]
  BY DEF Reported
<1>2. /\ table'[i].status = "EXECUTED" /\ table'[i].rca = table[i].rca
      /\ table'[i].execution_result = table[i].execution_result
  BY <1>1 DEF TableStep, Step, ItemStep, SilentEdges, SameStory
<1>. QED BY <1>1, <1>2 DEF Reported

LEMMA ExecutorKeepsExplained ==
  ASSUME Quiet, TypeRefs, ExecutorAuthorised, QuietInv, AliasExplained, TableStep, ExecutorNext
  PROVE  AliasExplained'
<1>1. ~Fault BY NoFaults
<1>2. /\ exec \in [ExecutorWorker -> Invocation]
      /\ alias \in [Function -> Nat \ {0}] /\ published \in [Function -> Nat \ {0}]
      /\ table \in [Incident -> Item]
  BY DEF TypeRefs, TypeOK, StoreTypeOK, ExecutorTypeOK
\* The target is as it was and whoever was about to report still is.
<1>3. ASSUME UNCHANGED <<published, alias>>,
             \A v \in ExecutorWorker : exec[v].pc = "record" => exec'[v] = exec[v]
      PROVE  AliasExplained'
  <2>. SUFFICES ASSUME NEW f \in Function
                PROVE  \/ alias'[f] = published'[f]
                       \/ Reported(f)'
                       \/ \E v \in ExecutorWorker : Reporting(v, f)'
    BY DEF AliasExplained
  <2>1. CASE alias[f] = published[f] BY <1>3, <2>1
  <2>2. CASE Reported(f) BY <1>3, <2>2, ReportedKept
  <2>3. ASSUME NEW v \in ExecutorWorker, Reporting(v, f) PROVE Reporting(v, f)'
    BY <1>3, <2>3 DEF Reporting
  <2>. QED BY <2>1, <2>2, <2>3 DEF AliasExplained
\* So it is when only worker w moves, and had nothing to report.
<1>4. ASSUME UNCHANGED <<published, alias>>, NEW w \in ExecutorWorker, exec[w].pc # "record",
             NEW x, exec' = [exec EXCEPT ![w] = x]
      PROVE  AliasExplained'
  <2>1. \A v \in ExecutorWorker : exec[v].pc = "record" => exec'[v] = exec[v] BY <1>2, <1>4
  <2>. QED BY <1>3, <1>4, <2>1
<1>5. ASSUME NEW w \in ExecutorWorker, ExecutorShift(w) PROVE AliasExplained'
  <2>. DEFINE record == [exec[w] EXCEPT !.pc = "record"]
  <2>1. /\ exec[w].pc = "shift" /\ published' = published /\ table' = table
        /\ alias' = [alias EXCEPT ![exec[w].rca.target] = exec[w].result.to]
        /\ exec' = [exec EXCEPT ![w] = record]
    BY <1>1, <1>5 DEF ExecutorShift, Goto, storeVars
  <2>2. PICK g \in Function : g = exec[w].rca.target
    BY <2>1 DEF TypeRefs, Refs, ExecutorRefs
  <2>3. record.pc = "record" /\ record.rca.target = g /\ record.result = exec[w].result
    BY <1>2, <2>2 DEF Invocation
  <2>4. exec'[w] = record /\ \A v \in ExecutorWorker \ {w} : exec'[v] = exec[v] BY <1>2, <2>1
  <2>5. alias'[g] = exec[w].result.to /\ \A f \in Function \ {g} : alias'[f] = alias[f]
    BY <1>2, <2>1, <2>2
  <2>. HIDE DEF record
  <2>6. Reporting(w, g)' BY <2>3, <2>4, <2>5 DEF Reporting
  <2>7. ASSUME NEW f \in Function \ {g}
        PROVE  \/ alias'[f] = published'[f]
               \/ Reported(f)'
               \/ \E v \in ExecutorWorker : Reporting(v, f)'
    <3>1. CASE alias[f] = published[f] BY <2>1, <2>5, <3>1
    <3>2. CASE Reported(f) BY <2>5, <3>2, ReportedKept
    <3>3. ASSUME NEW v \in ExecutorWorker, Reporting(v, f) PROVE Reporting(v, f)'
      BY <2>1, <2>4, <2>5, <3>3 DEF Reporting
    <3>. QED BY <3>1, <3>2, <3>3 DEF AliasExplained
  <2>. QED BY <2>6, <2>7 DEF AliasExplained
<1>6. ASSUME NEW f \in Function, Deploy(f) PROVE AliasExplained'
  <2>1. /\ alias'[f] = published'[f]
        /\ \A g \in Function \ {f} : alias'[g] = alias[g] /\ published'[g] = published[g]
        /\ UNCHANGED <<table, exec>>
    BY <1>2, <1>6 DEF Deploy, storeVars
  <2>2. ASSUME NEW g \in Function \ {f}
        PROVE  /\ Reported(g) => Reported(g)'
               /\ \A v \in ExecutorWorker : Reporting(v, g) => Reporting(v, g)'
    BY <2>1 DEF Reported, Reporting
  <2>. QED BY <2>1, <2>2 DEF AliasExplained
<1>7. ASSUME NEW w \in ExecutorWorker, ExecutorRecord(w) PROVE AliasExplained'
  <2>. DEFINE i    == Working(w)
              item == [table[i] EXCEPT !.execution_result = exec[w].result]
              new  == [item EXCEPT !.status = "EXECUTED"]
  <2>1. PICK out :
          /\ Transition(i, "EXECUTED", item, out)
          /\ \/ out = "ok" /\ ExecutorReturns(w)
             \/ out \in {"refused", "error"}
          /\ exec[w].pc = "record" /\ UNCHANGED <<published, alias>>
    BY <1>7 DEF ExecutorRecord, targetVars
  <2>2. i \in Incident /\ table[i].status = "APPROVED" /\ table[i].rca = exec[w].rca
    BY <2>1, QuietTypes DEF QuietInv, EffectsCounted, ExecutorAuthorised, ApprovedFor
  <2>3. new.status = "EXECUTED" /\ new.rca = exec[w].rca /\ new.execution_result = exec[w].result
    BY <1>2, <2>2 DEF Item
  <2>. HIDE DEF new, item, i
  <2>4. out = "ok" BY <2>1, <2>2, QuietTransition, Edges
  <2>5. table'[i] = new
    <3>1. Move(i, "EXECUTED", item) BY <2>1, <2>4, TransitionMoves
    <3>. QED BY <1>2, <2>2, <3>1 DEF Move, new
  <2>6. \A v \in ExecutorWorker \ {w} : exec'[v] = exec[v]
    BY <1>2, <2>1, <2>4 DEF ExecutorReturns
  <2>7. ASSUME NEW f \in Function
        PROVE  \/ alias'[f] = published'[f]
               \/ Reported(f)'
               \/ \E v \in ExecutorWorker : Reporting(v, f)'
    <3>1. CASE alias[f] = published[f] BY <2>1, <3>1
    <3>2. CASE Reported(f) BY <2>1, <3>2, ReportedKept
    <3>3. CASE Reporting(w, f)
      BY <2>1, <2>2, <2>3, <2>5, <3>3 DEF Reported, Reporting
    <3>4. ASSUME NEW v \in ExecutorWorker \ {w}, Reporting(v, f) PROVE Reporting(v, f)'
      BY <2>1, <2>6, <3>4 DEF Reporting
    <3>. QED BY <3>1, <3>2, <3>3, <3>4 DEF AliasExplained
  <2>. QED BY <2>7 DEF AliasExplained
<1>8. ASSUME NEW w \in ExecutorWorker,
             \/ \E e \in Event : ExecutorReceive(w, e)
             \/ ExecutorReadAlias(w) \/ ExecutorDisableFlag(w) \/ ExecutorFail(w)
      PROVE  AliasExplained'
  <2>1. /\ exec[w].pc # "record" /\ UNCHANGED <<published, alias>>
        /\ \E x : exec' = [exec EXCEPT ![w] = x]
    BY <1>1, <1>8 DEF ExecutorReceive, ExecutorReadAlias, ExecutorDisableFlag, ExecutorFail,
                      ExecutorRaises, Goto, targetVars
  <2>. QED BY <1>4, <2>1
<1>9. ASSUME NEW w \in ExecutorWorker, NEW e \in Event, ExecutorSkip(w, e) PROVE AliasExplained'
  BY <1>3, <1>9 DEF ExecutorSkip, targetVars
<1>. QED
  BY <1>1, <1>5, <1>6, <1>7, <1>8, <1>9
  DEF ExecutorNext, ExecutorStep, ExecutorCrash, DuplicateEvent

LEMMA NextKeepsExplained ==
  ASSUME Quiet, IInv, QuietInv, AliasExplained, [Next]_vars
  PROVE  AliasExplained'
<1>1. TypeRefs /\ ExecutorAuthorised BY DEF IInv, TypeRefs
<1>2. TableStep BY <1>1, TableSteps
<1>3. CASE UNCHANGED <<published, alias, exec>>
  <2>1. ASSUME NEW f \in Function
        PROVE  /\ Reported(f) => Reported(f)'
               /\ \A w \in ExecutorWorker : Reporting(w, f) => Reporting(w, f)'
    BY <1>2, <1>3, ReportedKept DEF Reporting
  <2>. QED BY <1>3, <2>1 DEF AliasExplained
<1>4. CASE ApprovalNext
  BY <1>3, <1>4
  DEF ApprovalNext, Decision, Approve, Reject, Invoke, ApprovalCrash, executorVars, targetVars
<1>. QED BY <1>1, <1>2, <1>3, <1>4, ExecutorKeepsExplained DEF Next, Replication, executorVars, vars

\* However deployments by others and approved rollbacks of one function
\* interleave, its alias serves the newest version or the one an executed
\* incident reports (execution_result), from which a human undoes it; as long as
\* nothing fails between update_alias and the record of it.
THEOREM ServedVersionIsReported ==
  ASSUME MaxFaults = 0, StaleReads = FALSE
  PROVE  Spec => []ServedVersionIsExplained
<1>1. Quiet BY DEF Quiet
<1>2. Init => AliasExplained BY DEF Init, ExecutorInit, AliasExplained
<1>3. AliasExplained => ServedVersionIsExplained
  BY DEF AliasExplained, Reported, Reporting, ServedVersionIsExplained
<1>. QED BY <1>1, <1>2, <1>3, NextKeepsExplained, Invariant, QuietInvariant, PTL DEF Spec

-----------------------------------------------------------------------------
(* Deduplication keeps count                                                 *)

\* There are finitely many notifications, messages and invocations, and every alarm
\* says when it changed its state.
Countable == /\ IsFiniteSet(Notification) /\ IsFiniteSet(Message) /\ IsFiniteSet(IngestWorker)
             /\ \A n \in Notification : n.name # NoName /\ n.state = "ALARM" => n.at # NoTime

NotesIn(i, state) == {n \in NotesOf(i) : topic[n].state = state}

Items(i) == {m \in Message : work[m].incident = i}

Senders(i) == {w \in IngestWorker : ingest[w].pc = "send" /\ ingest[w].incident = i}

\* An incident that was not created has nothing, one that was has its notifications
\* accounted for.
Unheard(i) == /\ NotesIn(i, "suppressed") = {} /\ NotesIn(i, "consumed") = {}
              /\ Items(i) = {} /\ Senders(i) = {}

Accounted(i) == /\ table[i].suppressed_count = Cardinality(NotesIn(i, "suppressed"))
                /\ Cardinality(NotesIn(i, "consumed")) = Cardinality(Items(i))
                /\ Cardinality(Items(i)) + Cardinality(Senders(i)) = 1

Tallied == \A i \in Incident : IF table[i].status = "MISSING" THEN Unheard(i) ELSE Accounted(i)

\* Whoever handles a notification does so alone, for an incident that exists.
InHand ==
  /\ \A w \in IngestWorker : ingest[w].pc # "idle" =>
       /\ ingest[w].note \in NotesOf(ingest[w].incident)
       /\ topic[ingest[w].note].state = "delivering"
       /\ table[ingest[w].incident].status # "MISSING"
  /\ \A v, w \in IngestWorker :
       ingest[v].pc # "idle" /\ ingest[w].pc # "idle" /\ ingest[v].note = ingest[w].note => v = w
  /\ \A m \in Message : work[m].state = "unused" => work[m].incident = NoIncident

\* The inductive invariant behind DedupConservation.
DedupInv == faults = 0 => InHand /\ Tallied

\* What the counts are taken of is finite, and they change by one at a time.
LEMMA TalliesFinite ==
  ASSUME Countable, NEW i, NEW state
  PROVE  /\ IsFiniteSet(NotesIn(i, state)) /\ IsFiniteSet(Items(i)) /\ IsFiniteSet(Senders(i))
         /\ Cardinality(NotesIn(i, state)) \in Nat /\ Cardinality(Items(i)) \in Nat
         /\ Cardinality(Senders(i)) \in Nat
<1>1. /\ NotesIn(i, state) \in SUBSET Notification /\ Items(i) \in SUBSET Message
      /\ Senders(i) \in SUBSET IngestWorker
  BY DEF NotesIn, NotesOf, Items, Senders
<1>2. IsFiniteSet(NotesIn(i, state)) /\ IsFiniteSet(Items(i)) /\ IsFiniteSet(Senders(i))
  BY <1>1, FS_Subset DEF Countable
<1>. QED BY <1>2, FS_CardinalityType

LEMMA OneMore ==
  ASSUME NEW S, IsFiniteSet(S), NEW x, x \notin S
  PROVE  Cardinality(S \cup {x}) = Cardinality(S) + 1
BY FS_AddElement

LEMMA OneLess ==
  ASSUME NEW S, IsFiniteSet(S), NEW x \in S
  PROVE  Cardinality(S \ {x}) = Cardinality(S) - 1
BY FS_RemoveElement

\* The types this part is about.
LEMMA DedupTypes ==
  ASSUME TypeRefs
  PROVE  /\ topic \in [Notification -> [state : TopicState, deliveries : Nat]]
         /\ ingest \in [IngestWorker -> [pc : {"idle", "send", "suppress"},
                                         note : Notification \cup {NoNotification},
                                         incident : Incident \cup {NoIncident}]]
         /\ table \in [Incident -> Item]
         /\ work \in [Message -> [incident : Incident \cup {NoIncident},
                                  state : MessageState, receives : Nat]]
         /\ faults \in Nat /\ NoIncident \notin Incident
         /\ \A w \in IngestWorker : ingest[w].pc # "idle" =>
              ingest[w].note \in Notification /\ ingest[w].incident \in Incident
BY FaultsAssumption, StoreAssumption
   DEF TypeRefs, TypeOK, Refs, IngestRefs, IngestTypeOK, StoreTypeOK, QueueTypeOK, FaultsTypeOK

\* No item is created, and none is told of another notification.
CountsKept ==
  \A i \in Incident : /\ table'[i].suppressed_count = table[i].suppressed_count
                      /\ table'[i].status = "MISSING" <=> table[i].status = "MISSING"

LEMMA TransitionKeepsCounts ==
  ASSUME TypeRefs, NEW k \in Incident, NEW to, NEW item \in Item, NEW out,
         item.suppressed_count = table[k].suppressed_count, Transition(k, to, item, out)
  PROVE  CountsKept
<1>1. table \in [Incident -> Item] BY DedupTypes
<1>2. CASE table' = table BY <1>2 DEF CountsKept
<1>3. CASE Move(k, to, item)
  <2>. DEFINE new == [item EXCEPT !.status = to]
  <2>1. new.suppressed_count = table[k].suppressed_count /\ new.status = to
    BY DEF Item
  <2>2. to # "MISSING" /\ table[k].status # "MISSING"
    BY <1>3 DEF Move, LegalFrom, ALLOWED_TRANSITIONS, Status
  <2>3. table' = [table EXCEPT ![k] = new] BY <1>3 DEF Move
  <2>. HIDE DEF new
  <2>. QED BY <1>1, <2>1, <2>2, <2>3 DEF CountsKept
<1>. QED BY <1>2, <1>3, TransitionMoves

\* A message is about what it was about, until one is put on the queue.
SameItems == \A m \in Message : /\ work'[m].incident = work[m].incident
                                /\ work'[m].state = "unused" => work[m].state = "unused"

LEMMA QueueKeepsItems ==
  ASSUME TypeRefs, NEW m \in Message,
         \/ UNCHANGED work
         \/ \E next \in {"inflight", "deleted"} : Receive(m, next)
         \/ Ack(m) \/ Nack(m) \/ Redrive(m)
  PROVE  SameItems
<1>1. ASSUME NEW entry, work' = [work EXCEPT ![m] = entry],
             entry.incident = work[m].incident, entry.state # "unused"
      PROVE  SameItems
  BY <1>1, DedupTypes DEF SameItems
<1>2. CASE UNCHANGED work BY <1>2 DEF SameItems
<1>3. ASSUME NEW next \in {"inflight", "deleted"}, Receive(m, next) PROVE SameItems
  <2>. DEFINE entry == [work[m] EXCEPT !.state = next, !.receives = @ + 1]
  <2>1. work' = [work EXCEPT ![m] = entry] BY <1>3 DEF Receive
  <2>2. entry.incident = work[m].incident /\ entry.state # "unused" BY DedupTypes
  <2>. HIDE DEF entry
  <2>. QED BY <1>1, <2>1, <2>2
<1>4. ASSUME NEW next \in {"visible", "deleted", "dead"}, work' = [work EXCEPT ![m].state = next]
      PROVE  SameItems
  <2>. DEFINE entry == [work[m] EXCEPT !.state = next]
  <2>1. work' = [work EXCEPT ![m] = entry] BY <1>4
  <2>2. entry.incident = work[m].incident /\ entry.state # "unused" BY DedupTypes
  <2>. HIDE DEF entry
  <2>. QED BY <1>1, <2>1, <2>2
<1>. QED BY <1>2, <1>3, <1>4 DEF Ack, Nack, Redrive

LEMMA AgentKeepsCounts ==
  ASSUME TypeRefs, AgentNext, ~ Fault
  PROVE  CountsKept /\ SameItems
<1>1. ASSUME NEW w \in AgentWorker, agent[w].pc # "idle"
      PROVE  agent[w].msg \in Message /\ Held(w) \in Incident /\ table[Held(w)] \in Item
  BY <1>1, DedupTypes DEF TypeRefs, Refs, AgentRefs, QueueRefs, Held
<1>2. ASSUME UNCHANGED table PROVE CountsKept BY <1>2 DEF CountsKept
<1>3. ASSUME NEW w \in AgentWorker, NEW m \in Message, AgentSkip(w, m) \/ AgentReceive(w, m)
      PROVE  CountsKept /\ SameItems
  BY <1>2, <1>3, QueueKeepsItems DEF AgentSkip, AgentReceive, storeVars
<1>4. ASSUME NEW w \in AgentWorker, AgentClaim(w) PROVE CountsKept /\ SameItems
  <2>1. agent[w].pc # "idle" BY <1>4 DEF AgentClaim
  <2>2. CountsKept BY <1>1, <1>4, <2>1, TransitionKeepsCounts DEF AgentClaim
  <2>3. SameItems BY <1>1, <1>4, <2>1, QueueKeepsItems DEF AgentClaim
  <2>. QED BY <2>2, <2>3
<1>5. ASSUME NEW w \in AgentWorker, NEW r \in Rca, AgentConclude(w, r)
      PROVE  CountsKept /\ SameItems
  <2>1. agent[w].pc # "idle" BY <1>5 DEF AgentConclude
  <2>2. CountsKept
    <3>. DEFINE item == [table[Held(w)] EXCEPT !.rca = r]
    <3>1. item \in Item /\ item.suppressed_count = table[Held(w)].suppressed_count
      BY <1>1, <2>1 DEF Item
    <3>2. PICK out : Transition(Held(w), Route(r), item, out) BY <1>5 DEF AgentConclude
    <3>. HIDE DEF item
    <3>. QED BY <1>1, <2>1, <3>1, <3>2, TransitionKeepsCounts
  <2>3. SameItems BY <1>1, <1>5, <2>1, QueueKeepsItems DEF AgentConclude
  <2>. QED BY <2>2, <2>3
<1>6. ASSUME NEW w \in AgentWorker, NEW failure \in RunFailure, AgentFail(w, failure)
      PROVE  CountsKept /\ SameItems
  <2>1. agent[w].pc # "idle" BY <1>6 DEF AgentFail
  <2>2. PICK to, out : Transition(Held(w), to, table[Held(w)], out) BY <1>6 DEF AgentFail
  <2>3. CountsKept BY <1>1, <2>1, <2>2, TransitionKeepsCounts
  <2>4. SameItems BY <1>1, <1>6, <2>1, QueueKeepsItems DEF AgentFail
  <2>. QED BY <2>3, <2>4
<1>7. ASSUME NEW m \in Message, Redrive(m), UNCHANGED storeVars PROVE CountsKept /\ SameItems
  BY <1>2, <1>7, QueueKeepsItems DEF storeVars
<1>. QED
  BY <1>3, <1>4, <1>5, <1>6, <1>7 DEF AgentNext, AgentStep, QueueStep, AgentCrash, Duplicate

LEMMA ApprovalKeepsCounts == ASSUME TypeRefs, ApprovalNext PROVE CountsKept
<1>1. ASSUME NEW a \in Actor, NEW i \in Incident, Approve(a, i) PROVE CountsKept
  <2>. DEFINE item == [table[i] EXCEPT !.approved_by = a]
  <2>3. table[i] \in Item BY DedupTypes
  <2>1. item \in Item /\ item.suppressed_count = table[i].suppressed_count
    BY <2>3 DEF Item
  <2>2. PICK out : Transition(i, "APPROVED", item, out) BY <1>1 DEF Approve
  <2>. HIDE DEF item
  <2>. QED BY <2>1, <2>2, TransitionKeepsCounts
<1>2. ASSUME NEW a \in Actor, NEW i \in Incident, Reject(a, i) PROVE CountsKept
  <2>. DEFINE item == [table[i] EXCEPT !.rejected_by = a]
  <2>3. table[i] \in Item BY DedupTypes
  <2>1. item \in Item /\ item.suppressed_count = table[i].suppressed_count
    BY <2>3 DEF Item
  <2>2. PICK out : Transition(i, "REJECTED", item, out) BY <1>2 DEF Reject
  <2>. HIDE DEF item
  <2>. QED BY <2>1, <2>2, TransitionKeepsCounts
<1>. QED BY <1>1, <1>2 DEF ApprovalNext, Decision, Invoke, ApprovalCrash, storeVars, CountsKept

LEMMA ExecutorKeepsCounts == ASSUME TypeRefs, ExecutorNext PROVE CountsKept
<1>1. ASSUME NEW w \in ExecutorWorker, exec[w].pc # "idle"
      PROVE  Working(w) \in Incident /\ table[Working(w)] \in Item /\ exec[w].result \in Result
  <2>1. exec[w] \in Invocation /\ exec[w].event \in Event /\ events[exec[w].event].state # "unused"
    BY <1>1 DEF TypeRefs, TypeOK, ExecutorTypeOK, Refs, ExecutorRefs
  <2>2. Working(w) \in Incident BY <2>1 DEF TypeRefs, Refs, EventRefs, Working
  <2>3. exec[w].result \in Result BY <2>1 DEF Invocation
  <2>. QED BY <2>2, <2>3, DedupTypes
<1>2. ASSUME NEW w \in ExecutorWorker, ExecutorRecord(w) PROVE CountsKept
  <2>. DEFINE item == [table[Working(w)] EXCEPT !.execution_result = exec[w].result]
  <2>1. exec[w].pc # "idle" BY <1>2 DEF ExecutorRecord
  <2>2. item \in Item /\ item.suppressed_count = table[Working(w)].suppressed_count
    BY <1>1, <2>1 DEF Item
  <2>3. PICK out : Transition(Working(w), "EXECUTED", item, out) BY <1>2 DEF ExecutorRecord
  <2>. HIDE DEF item
  <2>. QED BY <1>1, <2>1, <2>2, <2>3, TransitionKeepsCounts
<1>3. ASSUME NEW w \in ExecutorWorker, ExecutorFail(w) PROVE CountsKept
  <2>1. exec[w].pc # "idle" BY <1>3 DEF ExecutorFail
  <2>2. PICK out : Transition(Working(w), "FAILED", table[Working(w)], out)
    BY <1>3 DEF ExecutorFail
  <2>. QED BY <1>1, <2>1, <2>2, TransitionKeepsCounts
<1>4. ASSUME UNCHANGED table PROVE CountsKept BY <1>4 DEF CountsKept
<1>. QED
  BY <1>2, <1>3, <1>4
  DEF ExecutorNext, ExecutorStep, ExecutorSkip, ExecutorReceive, ExecutorReadAlias,
      ExecutorShift, ExecutorDisableFlag, ExecutorCrash, DuplicateEvent, Deploy, storeVars

\* Whatever handles no notification keeps the books.
LEMMA OthersKeepDedup ==
  ASSUME TypeRefs, InHand, Tallied, UNCHANGED ingestVars, CountsKept, SameItems
  PROVE  InHand' /\ Tallied'
<1>1. InHand' BY DedupTypes DEF InHand, ingestVars, CountsKept, SameItems
<1>2. ASSUME NEW i \in Incident
      PROVE  IF table'[i].status = "MISSING" THEN Unheard(i)' ELSE Accounted(i)'
  <2>1. /\ NotesIn(i, "suppressed")' = NotesIn(i, "suppressed")
        /\ NotesIn(i, "consumed")' = NotesIn(i, "consumed")
        /\ Senders(i)' = Senders(i)
    BY DEF NotesIn, Senders, ingestVars
  <2>2. Items(i)' = Items(i) BY DEF Items, SameItems
  <2>3. /\ table'[i].suppressed_count = table[i].suppressed_count
        /\ table'[i].status = "MISSING" <=> table[i].status = "MISSING"
    BY DEF CountsKept
  <2>. HIDE DEF NotesIn, Senders, Items
  <2>. QED BY <2>1, <2>2, <2>3 DEF Tallied, Unheard, Accounted
<1>. QED BY <1>1, <1>2 DEF Tallied

\* What one step of ingest does to the sets that are counted.
LEMMA NoteMoves ==
  ASSUME TypeRefs, NEW n \in Notification, NEW entry, topic' = [topic EXCEPT ![n] = entry],
         NEW i \in Incident, NEW s
  PROVE  NotesIn(i, s)' = IF n \in NotesOf(i) /\ entry.state = s
                          THEN NotesIn(i, s) \cup {n}
                          ELSE NotesIn(i, s) \ {n}
BY DedupTypes DEF NotesIn, NotesOf

LEMMA SenderMoves ==
  ASSUME TypeRefs, NEW w \in IngestWorker, NEW entry, ingest' = [ingest EXCEPT ![w] = entry],
         NEW i \in Incident
  PROVE  Senders(i)' = IF entry.pc = "send" /\ entry.incident = i
                       THEN Senders(i) \cup {w}
                       ELSE Senders(i) \ {w}
BY DedupTypes DEF Senders

\* The same, one case at a time.
LEMMA NoteCounts ==
  ASSUME TypeRefs, NEW n \in Notification, NEW entry, topic' = [topic EXCEPT ![n] = entry],
         NEW i \in Incident, n \in NotesOf(i), NEW s, entry.state = s
  PROVE  NotesIn(i, s)' = NotesIn(i, s) \cup {n}
BY NoteMoves

LEMMA NoteLeaves ==
  ASSUME TypeRefs, NEW n \in Notification, NEW entry, topic' = [topic EXCEPT ![n] = entry],
         NEW i \in Incident, NEW s, entry.state # s
  PROVE  NotesIn(i, s)' = NotesIn(i, s) \ {n}
BY NoteMoves

LEMMA SenderCounts ==
  ASSUME TypeRefs, NEW w \in IngestWorker, NEW entry, ingest' = [ingest EXCEPT ![w] = entry],
         NEW i \in Incident, entry.pc = "send", entry.incident = i
  PROVE  Senders(i)' = Senders(i) \cup {w}
BY SenderMoves

LEMMA SenderLeaves ==
  ASSUME TypeRefs, NEW w \in IngestWorker, NEW entry, ingest' = [ingest EXCEPT ![w] = entry],
         NEW i \in Incident, entry.pc # "send" \/ entry.incident # i
  PROVE  Senders(i)' = Senders(i) \ {w}
BY SenderMoves

\* A notification is about one incident at most.
LEMMA OneSubject ==
  ASSUME NEW i, NEW j, NEW n, n \in NotesOf(i), n \in NotesOf(j)
  PROVE  i = j
BY DEF NotesOf

\* The notifications counted for an incident are the same as before when the one
\* that moves was not counted and is not now.
LEMMA NotCounted ==
  ASSUME TypeRefs, NEW n \in Notification, NEW entry, topic' = [topic EXCEPT ![n] = entry],
         NEW i \in Incident,
         \/ n \notin NotesOf(i)
         \/ /\ topic[n].state \notin {"suppressed", "consumed"}
            /\ entry.state \notin {"suppressed", "consumed"}
  PROVE  /\ NotesIn(i, "suppressed")' = NotesIn(i, "suppressed")
         /\ NotesIn(i, "consumed")' = NotesIn(i, "consumed")
<1>1. ASSUME NEW s \in {"suppressed", "consumed"} PROVE NotesIn(i, s)' = NotesIn(i, s)
  <2>1. n \notin NotesIn(i, s) BY DEF NotesIn
  <2>2. ~(n \in NotesOf(i) /\ entry.state = s)
    <3>1. n \notin NotesOf(i) \/ entry.state \notin {"suppressed", "consumed"} OBVIOUS
    <3>. QED BY <3>1
  <2>3. NotesIn(i, s)' = IF n \in NotesOf(i) /\ entry.state = s
                         THEN NotesIn(i, s) \cup {n} ELSE NotesIn(i, s) \ {n}
    BY NoteMoves, ZenonT(30)
  <2>4. NotesIn(i, s)' = NotesIn(i, s) \ {n} BY <2>2, <2>3
  <2>. QED BY <2>1, <2>4
<1>. QED BY <1>1

\* The steps that count nothing: a notification is published or ignored.
LEMMA NewsKeepsDedup ==
  ASSUME TypeRefs, InHand, Tallied, NEW n \in Notification,
         NEW entry, topic' = [topic EXCEPT ![n] = entry],
         topic[n].state \in {"unpublished", "pending"},
         \/ entry.state = "pending"
         \/ n.name = NoName \/ n.state # "ALARM",
         UNCHANGED <<storeVars, work, ingest>>
  PROVE  InHand' /\ Tallied'
<1>1. InHand'
  <2>1. \A w \in IngestWorker : ingest[w].pc # "idle" => topic'[ingest[w].note] = topic[ingest[w].note]
    BY DedupTypes DEF InHand
  <2>. QED BY <2>1 DEF InHand, storeVars
<1>2. ASSUME NEW i \in Incident
      PROVE  IF table'[i].status = "MISSING" THEN Unheard(i)' ELSE Accounted(i)'
  <2>0. n.name = NoName \/ n.state # "ALARM" => n \notin NotesOf(i) BY DEF NotesOf
  <2>1. /\ NotesIn(i, "suppressed")' = NotesIn(i, "suppressed")
        /\ NotesIn(i, "consumed")' = NotesIn(i, "consumed")
    BY <2>0, NotCounted
  <2>2. Items(i)' = Items(i) /\ Senders(i)' = Senders(i) BY DEF Items, Senders
  <2>. HIDE DEF NotesIn, Senders, Items
  <2>. QED BY <2>1, <2>2 DEF Tallied, Unheard, Accounted, storeVars
<1>. QED BY <1>1, <1>2 DEF Tallied

\* An invocation that ends has its notification to itself, and the others theirs.
LEMMA EndKeepsInHand ==
  ASSUME TypeRefs, InHand, NEW w \in IngestWorker, ingest[w].pc # "idle", NEW state,
         IngestEnd(w, state),
         \A i \in Incident : table[i].status # "MISSING" => table'[i].status # "MISSING",
         \A m \in Message : work'[m].state = "unused" => work'[m].incident = NoIncident
  PROVE  InHand'
<1>1. ingest'[w].pc = "idle" /\ \A v \in IngestWorker \ {w} : ingest'[v] = ingest[v]
  BY DedupTypes DEF IngestEnd, IngestIdle
<1>2. ASSUME NEW v \in IngestWorker \ {w}, ingest[v].pc # "idle"
      PROVE  topic'[ingest[v].note] = topic[ingest[v].note]
  BY <1>2, DedupTypes DEF IngestEnd, InHand
<1>3. ASSUME NEW v \in IngestWorker, ingest'[v].pc # "idle"
      PROVE  /\ ingest'[v].note \in NotesOf(ingest'[v].incident)
             /\ topic'[ingest'[v].note].state = "delivering"
             /\ table'[ingest'[v].incident].status # "MISSING"
  <2>1. v # w /\ ingest'[v] = ingest[v] /\ ingest[v].pc # "idle" BY <1>1, <1>3
  <2>2. ingest[v].incident \in Incident BY <2>1, DedupTypes
  <2>3. ingest[v].note \in NotesOf(ingest[v].incident) BY <2>1 DEF InHand
  <2>4. topic'[ingest[v].note].state = "delivering" BY <2>1, <1>2 DEF InHand
  <2>5. table'[ingest[v].incident].status # "MISSING" BY <2>1, <2>2 DEF InHand
  <2>. QED BY <2>1, <2>3, <2>4, <2>5
<1>4. ASSUME NEW u \in IngestWorker, NEW v \in IngestWorker, ingest'[u].pc # "idle",
             ingest'[v].pc # "idle", ingest'[u].note = ingest'[v].note
      PROVE  u = v
  BY <1>1, <1>4 DEF InHand
<1>. QED BY <1>3, <1>4 DEF InHand

\* One that begins takes a notification nobody has.
LEMMA BeginKeepsInHand ==
  ASSUME TypeRefs, InHand, NEW w \in IngestWorker, NEW n \in Notification, Deliverable(w, n),
         NEW i \in Incident, n \in NotesOf(i), NEW pc,
         topic' = [topic EXCEPT ![n] = Started(n, "delivering")],
         ingest' = [ingest EXCEPT ![w] = [pc |-> pc, note |-> n, incident |-> i]],
         table'[i].status # "MISSING",
         \A j \in Incident : table[j].status # "MISSING" => table'[j].status # "MISSING",
         UNCHANGED work
  PROVE  InHand'
<1>1. /\ ingest'[w].note = n /\ ingest'[w].incident = i
      /\ \A v \in IngestWorker \ {w} : ingest'[v] = ingest[v]
  BY DedupTypes
<1>2. /\ topic'[n].state = "delivering"
      /\ \A v \in IngestWorker : ingest[v].pc # "idle" =>
           ingest[v].note # n /\ topic'[ingest[v].note] = topic[ingest[v].note]
  BY DedupTypes DEF Deliverable, Started, InHand
<1>3. ASSUME NEW v \in IngestWorker, ingest'[v].pc # "idle"
      PROVE  /\ ingest'[v].note \in NotesOf(ingest'[v].incident)
             /\ topic'[ingest'[v].note].state = "delivering"
             /\ table'[ingest'[v].incident].status # "MISSING"
  <2>1. CASE v = w BY <1>1, <1>2, <2>1
  <2>2. CASE v # w
    <3>1. ingest'[v] = ingest[v] /\ ingest[v].pc # "idle" BY <1>1, <1>3, <2>2
    <3>2. ingest[v].incident \in Incident BY <3>1, DedupTypes
    <3>3. ingest[v].note \in NotesOf(ingest[v].incident) BY <3>1 DEF InHand
    <3>4. topic'[ingest[v].note].state = "delivering" BY <3>1, <1>2 DEF InHand
    <3>5. table'[ingest[v].incident].status # "MISSING" BY <3>1, <3>2 DEF InHand
    <3>. QED BY <3>1, <3>3, <3>4, <3>5
  <2>. QED BY <2>1, <2>2
<1>4. ASSUME NEW u \in IngestWorker, NEW v \in IngestWorker, ingest'[u].pc # "idle",
             ingest'[v].pc # "idle", ingest'[u].note = ingest'[v].note
      PROVE  u = v
  BY <1>1, <1>2, <1>4 DEF InHand
<1>. QED BY <1>3, <1>4 DEF InHand

\* The first notification of an incident creates it; the next is to be suppressed.
LEMMA CreateKeepsDedup ==
  ASSUME Countable, TypeRefs, ~Fault, InHand, Tallied,
         NEW w \in IngestWorker, NEW n \in Notification, IngestCreate(w, n)
  PROVE  InHand' /\ Tallied'
<1>. DEFINE i == build_incident_id(n.name, n.at)
<1>1. n.at # NoTime BY DEF Countable, IngestCreate
<1>2. n \in NotesOf(i) /\ i \in Incident BY <1>1, IngestAssumption DEF NotesOf, IngestCreate
<1>3. PICK out \in {"ok", "refused"} :
        /\ Create(i, out)
        /\ topic' = [topic EXCEPT ![n] = Started(n, "delivering")]
        /\ ingest' = [ingest EXCEPT ![w] = [pc |-> IF out = "ok" THEN "send" ELSE "suppress",
                                            note |-> n, incident |-> i]]
        /\ UNCHANGED work
  BY <1>1 DEF IngestCreate, Outcome, Create
<1>30. PICK entry :
        /\ ingest' = [ingest EXCEPT ![w] = entry]
        /\ entry.incident = i /\ (entry.pc = "send" <=> out = "ok")
  <2>. DEFINE begun == [pc |-> IF out = "ok" THEN "send" ELSE "suppress", note |-> n, incident |-> i]
  <2>1. begun.incident = i /\ (begun.pc = "send" <=> out = "ok") OBVIOUS
  <2>2. ingest' = [ingest EXCEPT ![w] = begun] BY <1>3
  <2>. HIDE DEF begun
  <2>. QED BY <2>1, <2>2
<1>. HIDE DEF i
<1>4. Deliverable(w, n) BY DEF IngestCreate
<1>5. ASSUME NEW j \in Incident
      PROVE  /\ NotesIn(j, "suppressed")' = NotesIn(j, "suppressed")
             /\ NotesIn(j, "consumed")' = NotesIn(j, "consumed")
             /\ Items(j)' = Items(j)
  <2>1. Items(j)' = Items(j) BY <1>3 DEF Items
  <2>2. Started(n, "delivering").state = "delivering" BY DEF Started
  <2>3. topic[n].state = "pending" BY <1>4 DEF Deliverable
  <2>. QED BY <1>3, <2>1, <2>2, <2>3, NotCounted
<1>6. ASSUME NEW j \in Incident
      PROVE  w \notin Senders(j)
  BY <1>4 DEF Senders, Deliverable
<1>7. table \in [Incident -> Item] BY DedupTypes
<1>8. CASE out = "ok"
  <2>1. table[i].status = "MISSING" /\ table' = [table EXCEPT ![i] = NewItem]
    BY <1>3, <1>8 DEF Create
  <2>2. /\ table'[i].status = "NEW" /\ table'[i].suppressed_count = 0
        /\ \A j \in Incident \ {i} : table'[j] = table[j]
    BY <1>2, <1>7, <2>1 DEF NewItem, Missing
  <2>3. InHand' BY <1>2, <1>3, <1>4, <2>2, BeginKeepsInHand
  <2>4. Accounted(i)'
    <3>1. Unheard(i) BY <1>2, <2>1 DEF Tallied
    <3>2. Senders(i)' = Senders(i) \cup {w} BY <1>2, <1>30, <1>8, SenderCounts
    <3>3. /\ NotesIn(i, "suppressed")' = {} /\ NotesIn(i, "consumed")' = {}
          /\ Items(i)' = {} /\ Senders(i)' = {w}
      BY <1>2, <1>5, <3>1, <3>2 DEF Unheard
    <3>4. Cardinality({}) = 0 BY FS_EmptySet
    <3>5. Cardinality({w}) = 1 BY FS_Singleton
    <3>. HIDE DEF NotesIn, Items, Senders
    <3>. QED BY <2>2, <3>3, <3>4, <3>5 DEF Accounted
  <2>5. ASSUME NEW j \in Incident \ {i}
        PROVE  IF table'[j].status = "MISSING" THEN Unheard(j)' ELSE Accounted(j)'
    <3>0. Senders(j)' = Senders(j) \ {w} BY <1>30, SenderLeaves
    <3>1. Senders(j)' = Senders(j) BY <1>6, <3>0
    <3>. HIDE DEF NotesIn, Items, Senders
    <3>. QED BY <1>5, <2>2, <2>5, <3>1 DEF Tallied, Unheard, Accounted
  <2>6. IF table'[i].status = "MISSING" THEN Unheard(i)' ELSE Accounted(i)' BY <2>2, <2>4
  <2>. QED BY <2>3, <2>5, <2>6 DEF Tallied
<1>9. CASE out = "refused"
  <2>1. table[i].status # "MISSING" /\ table' = table BY <1>3, <1>9 DEF Create
  <2>2. InHand' BY <1>2, <1>3, <1>4, <2>1, BeginKeepsInHand
  <2>3. ASSUME NEW j \in Incident
        PROVE  IF table'[j].status = "MISSING" THEN Unheard(j)' ELSE Accounted(j)'
    <3>0. Senders(j)' = Senders(j) \ {w} BY <1>30, <1>9, SenderLeaves
    <3>1. Senders(j)' = Senders(j) BY <1>6, <3>0
    <3>. HIDE DEF NotesIn, Items, Senders
    <3>. QED BY <1>5, <2>1, <2>3, <3>1 DEF Tallied, Unheard, Accounted
  <2>. QED BY <2>2, <2>3 DEF Tallied
<1>. QED BY <1>3, <1>8, <1>9

\* A suppression is counted with the notification it is for.
LEMMA SuppressKeepsDedup ==
  ASSUME Countable, TypeRefs, ~Fault, InHand, Tallied,
         NEW w \in IngestWorker, IngestSuppress(w)
  PROVE  InHand' /\ Tallied'
<1>1. /\ ingest[w].pc = "suppress"
      /\ table' = [table EXCEPT ![ingest[w].incident].suppressed_count = @ + 1]
      /\ IngestEnd(w, "suppressed") /\ UNCHANGED work
  BY DEF IngestSuppress, Suppress
<1>2. PICK n \in Notification, i \in Incident : n = ingest[w].note /\ i = ingest[w].incident
  BY <1>1, DedupTypes
<1>3. n \in NotesOf(i) /\ topic[n].state = "delivering" /\ table[i].status # "MISSING"
  BY <1>1, <1>2 DEF InHand
<1>4. table[i] \in Item /\ table \in [Incident -> Item] BY DedupTypes
<1>5. /\ table'[i].suppressed_count = table[i].suppressed_count + 1
      /\ \A j \in Incident : table'[j].status = table[j].status
      /\ \A j \in Incident \ {i} : table'[j] = table[j]
  BY <1>1, <1>2, <1>4 DEF Item
<1>6. InHand'
  <2>1. \A j \in Incident : table[j].status # "MISSING" => table'[j].status # "MISSING" BY <1>5
  <2>2. \A m \in Message : work'[m].state = "unused" => work'[m].incident = NoIncident
    BY <1>1 DEF InHand
  <2>3. ingest[w].pc # "idle" /\ IngestEnd(w, "suppressed") BY <1>1
  <2>. QED BY <2>1, <2>2, <2>3, EndKeepsInHand
<1>7. PICK entry : entry.state = "suppressed" /\ topic' = [topic EXCEPT ![n] = entry]
  <2>. DEFINE new == [topic[n] EXCEPT !.state = "suppressed"]
  <2>1. new.state = "suppressed" /\ topic' = [topic EXCEPT ![n] = new]
    BY <1>1, <1>2, DedupTypes DEF IngestEnd
  <2>. HIDE DEF new
  <2>. QED BY <2>1
<1>8. ASSUME NEW j \in Incident PROVE Items(j)' = Items(j) /\ Senders(j)' = Senders(j)
  <2>1. PICK ended : ended.pc = "idle" /\ ingest' = [ingest EXCEPT ![w] = ended]
    BY <1>1 DEF IngestEnd, IngestIdle
  <2>2. Senders(j)' = Senders(j) \ {w} BY <2>1, SenderLeaves
  <2>3. w \notin Senders(j) BY <1>1 DEF Senders
  <2>. QED BY <1>1, <2>2, <2>3 DEF Items
<1>9. Accounted(i)'
  <2>1. NotesIn(i, "suppressed")' = NotesIn(i, "suppressed") \cup {n} BY <1>3, <1>7, DedupTypes, SMTT(30) DEF NotesIn, NotesOf
  <2>2. NotesIn(i, "consumed")' = NotesIn(i, "consumed") \ {n} BY <1>7, NoteLeaves
  <2>3. n \notin NotesIn(i, "suppressed") /\ n \notin NotesIn(i, "consumed")
    BY <1>3 DEF NotesIn
  <2>4. NotesIn(i, "consumed")' = NotesIn(i, "consumed") BY <2>2, <2>3
  <2>5. IsFiniteSet(NotesIn(i, "suppressed")) BY TalliesFinite
  <2>. HIDE DEF NotesIn, Items, Senders
  <2>6. Cardinality(NotesIn(i, "suppressed")') = Cardinality(NotesIn(i, "suppressed")) + 1
    BY <2>1, <2>3, <2>5, OneMore
  <2>7. Accounted(i) BY <1>3 DEF Tallied
  <2>. QED BY <1>5, <1>8, <2>4, <2>6, <2>7 DEF Accounted
<1>10. ASSUME NEW j \in Incident \ {i}
       PROVE  IF table'[j].status = "MISSING" THEN Unheard(j)' ELSE Accounted(j)'
  <2>1. n \notin NotesOf(j) BY <1>3, OneSubject
  <2>2. /\ NotesIn(j, "suppressed")' = NotesIn(j, "suppressed")
        /\ NotesIn(j, "consumed")' = NotesIn(j, "consumed")
    BY <1>7, <2>1, NotCounted
  <2>. HIDE DEF NotesIn, Items, Senders
  <2>. QED BY <1>5, <1>8, <2>2 DEF Tallied, Unheard, Accounted
<1>. QED BY <1>3, <1>5, <1>6, <1>9, <1>10 DEF Tallied

\* The work item is counted with the notification it is for.
LEMMA SendKeepsDedup ==
  ASSUME Countable, TypeRefs, ~Fault, InHand, Tallied,
         NEW w \in IngestWorker, IngestSend(w)
  PROVE  InHand' /\ Tallied'
<1>1. /\ ingest[w].pc = "send" /\ Send(ingest[w].incident)
      /\ IngestEnd(w, "consumed") /\ table' = table
  BY DEF IngestSend, storeVars
<1>2. PICK n \in Notification, i \in Incident : n = ingest[w].note /\ i = ingest[w].incident
  BY <1>1, DedupTypes
<1>3. n \in NotesOf(i) /\ topic[n].state = "delivering" /\ table[i].status # "MISSING"
  BY <1>1, <1>2 DEF InHand
<1>4. PICK m \in Message :
        /\ work[m].state = "unused"
        /\ work' = [work EXCEPT ![m] = [incident |-> i, state |-> "visible", receives |-> 0]]
  BY <1>1, <1>2 DEF Send
<1>5. /\ work'[m].incident = i /\ work'[m].state = "visible"
      /\ \A k \in Message \ {m} : work'[k] = work[k]
      /\ work[m].incident = NoIncident /\ NoIncident \notin Incident
  BY <1>4, DedupTypes DEF InHand
<1>6. InHand' BY <1>1, <1>5, EndKeepsInHand DEF InHand
<1>7. PICK entry : entry.state = "consumed" /\ topic' = [topic EXCEPT ![n] = entry]
  <2>. DEFINE new == [topic[n] EXCEPT !.state = "consumed"]
  <2>1. new.state = "consumed" /\ topic' = [topic EXCEPT ![n] = new]
    BY <1>1, <1>2, DedupTypes DEF IngestEnd
  <2>. HIDE DEF new
  <2>. QED BY <2>1
<1>8. PICK idle : idle.pc = "idle" /\ ingest' = [ingest EXCEPT ![w] = idle]
  BY <1>1 DEF IngestEnd, IngestIdle
<1>9. Accounted(i)'
  <2>1. NotesIn(i, "suppressed")' = NotesIn(i, "suppressed") \ {n} BY <1>7, NoteLeaves
  <2>2. NotesIn(i, "consumed")' = NotesIn(i, "consumed") \cup {n} BY <1>3, <1>7, DedupTypes, SMTT(30) DEF NotesIn, NotesOf
  <2>3. n \notin NotesIn(i, "suppressed") /\ n \notin NotesIn(i, "consumed")
    BY <1>3 DEF NotesIn
  <2>4. NotesIn(i, "suppressed")' = NotesIn(i, "suppressed") BY <2>1, <2>3
  <2>5. Items(i)' = Items(i) \cup {m} /\ m \notin Items(i) BY <1>5 DEF Items
  <2>6. Senders(i)' = Senders(i) \ {w} /\ w \in Senders(i)
    <3>1. Senders(i)' = Senders(i) \ {w} BY <1>8, SenderLeaves
    <3>. QED BY <1>1, <1>2, <3>1 DEF Senders
  <2>7. /\ IsFiniteSet(NotesIn(i, "consumed")) /\ IsFiniteSet(Items(i)) /\ IsFiniteSet(Senders(i))
        /\ Cardinality(Items(i)) \in Nat /\ Cardinality(Senders(i)) \in Nat
    BY TalliesFinite
  <2>. HIDE DEF NotesIn, Items, Senders
  <2>8. Cardinality(NotesIn(i, "consumed")') = Cardinality(NotesIn(i, "consumed")) + 1
    BY <2>2, <2>3, <2>7, OneMore
  <2>9. Cardinality(Items(i)') = Cardinality(Items(i)) + 1 BY <2>5, <2>7, OneMore
  <2>10. Cardinality(Senders(i)') = Cardinality(Senders(i)) - 1 BY <2>6, <2>7, OneLess
  <2>11. Accounted(i) BY <1>3 DEF Tallied
  <2>. QED BY <1>1, <2>4, <2>7, <2>8, <2>9, <2>10, <2>11 DEF Accounted
<1>10. ASSUME NEW j \in Incident \ {i}
       PROVE  IF table'[j].status = "MISSING" THEN Unheard(j)' ELSE Accounted(j)'
  <2>1. n \notin NotesOf(j) BY <1>3, OneSubject
  <2>2. /\ NotesIn(j, "suppressed")' = NotesIn(j, "suppressed")
        /\ NotesIn(j, "consumed")' = NotesIn(j, "consumed")
    BY <1>7, <2>1, NotCounted
  <2>3. Items(j)' = Items(j) BY <1>5 DEF Items
  <2>4. Senders(j)' = Senders(j)
    <3>1. Senders(j)' = Senders(j) \ {w} BY <1>8, SenderLeaves
    <3>2. w \notin Senders(j) BY <1>2 DEF Senders
    <3>. QED BY <3>1, <3>2
  <2>. HIDE DEF NotesIn, Items, Senders
  <2>. QED BY <1>1, <2>2, <2>3, <2>4 DEF Tallied, Unheard, Accounted
<1>. QED BY <1>1, <1>3, <1>6, <1>9, <1>10 DEF Tallied

\* Every step either meets a fault or counts none.
LEMMA FaultsCounted == ASSUME [Next]_vars PROVE NoFault \/ Fault
<1>1. \A i, to, item, out : Transition(i, to, item, out) => NoFault \/ Fault BY DEF Transition
<1>2. \A i, out : Create(i, out) \/ Suppress(i, out) => NoFault \/ Fault
  BY DEF Create, Suppress
<1>3. CASE IngestNext
  <2>1. ASSUME NEW w \in IngestWorker, NEW n \in Notification, IngestCreate(w, n)
        PROVE  NoFault \/ Fault
    BY <1>2, <2>1 DEF IngestCreate
  <2>2. ASSUME NEW w \in IngestWorker, IngestSuppress(w) PROVE NoFault \/ Fault
    BY <1>2, <2>2 DEF IngestSuppress
  <2>. QED
    BY <1>3, <2>1, <2>2
    DEF IngestNext, IngestStep, IngestIgnore, IngestSend, Publish, Republish, IngestCrash
<1>4. CASE AgentNext
  <2>1. ASSUME NEW w \in AgentWorker,
               \/ AgentClaim(w)
               \/ \E r \in Rca : AgentConclude(w, r)
               \/ \E failure \in RunFailure : AgentFail(w, failure)
        PROVE  NoFault \/ Fault
    BY <1>1, <2>1 DEF AgentClaim, AgentConclude, AgentFail
  <2>. QED
    BY <1>4, <2>1
    DEF AgentNext, AgentStep, AgentSkip, AgentReceive, QueueStep, Redrive, Duplicate, AgentCrash
<1>5. CASE ApprovalNext
  <2>1. ASSUME NEW a \in Actor, NEW i \in Incident, Approve(a, i) \/ Reject(a, i)
        PROVE  NoFault \/ Fault
    BY <1>1, <2>1 DEF Approve, Reject
  <2>. QED BY <1>5, <2>1 DEF ApprovalNext, Decision, Invoke, ApprovalCrash
<1>6. CASE ExecutorNext
  <2>1. ASSUME NEW w \in ExecutorWorker, ExecutorRecord(w) \/ ExecutorFail(w)
        PROVE  NoFault \/ Fault
    BY <1>1, <2>1 DEF ExecutorRecord, ExecutorFail
  <2>. QED
    BY <1>6, <2>1
    DEF ExecutorNext, ExecutorStep, ExecutorSkip, ExecutorReceive, ExecutorReadAlias,
        ExecutorShift, ExecutorDisableFlag, ExecutorCrash, DuplicateEvent, Deploy
<1>. QED BY <1>3, <1>4, <1>5, <1>6 DEF Next, Replication, NoFault, vars

LEMMA NextKeepsDedup == Countable /\ TypeRefs /\ DedupInv /\ [Next]_vars => DedupInv'
<1>. SUFFICES ASSUME Countable, TypeRefs, DedupInv, [Next]_vars, faults' = 0
              PROVE  InHand' /\ Tallied'
  BY DEF DedupInv
<1>1. ~Fault /\ faults = 0
  <2>1. faults \in Nat BY DedupTypes
  <2>2. ~Fault BY <2>1 DEF Fault
  <2>. QED BY <2>2, FaultsCounted DEF NoFault
<1>2. InHand /\ Tallied BY <1>1 DEF DedupInv
<1>3. CASE IngestNext
  <2>1. ASSUME NEW n \in Notification, Publish(n) PROVE InHand' /\ Tallied'
    <3>. DEFINE new == [topic[n] EXCEPT !.state = "pending"]
    <3>1. /\ new.state = "pending" /\ topic' = [topic EXCEPT ![n] = new]
          /\ topic[n].state = "unpublished" /\ UNCHANGED <<storeVars, work, ingest>>
      BY <2>1, DedupTypes DEF Publish
    <3>. HIDE DEF new
    <3>2. PICK entry : entry.state = "pending" /\ topic' = [topic EXCEPT ![n] = entry] BY <3>1
    <3>. QED BY <1>2, <3>1, <3>2, NewsKeepsDedup
  <2>2. ASSUME NEW w \in IngestWorker, NEW n \in Notification, IngestIgnore(w, n)
        PROVE  InHand' /\ Tallied'
    <3>1. /\ topic[n].state = "pending" /\ (n.name = NoName \/ n.state # "ALARM")
          /\ UNCHANGED <<storeVars, work, ingest>>
      BY <2>2 DEF IngestIgnore, Deliverable
    <3>2. PICK entry : topic' = [topic EXCEPT ![n] = entry] BY <2>2 DEF IngestIgnore
    <3>. QED BY <1>2, <3>1, <3>2, NewsKeepsDedup
  <2>. QED
    BY <1>1, <1>2, <1>3, <2>1, <2>2, CreateKeepsDedup, SuppressKeepsDedup, SendKeepsDedup
    DEF IngestNext, IngestStep, Republish, IngestCrash
<1>4. UNCHANGED work => SameItems BY DEF SameItems
<1>5. UNCHANGED table => CountsKept BY DEF CountsKept
<1>6. CASE AgentNext /\ UNCHANGED ingestVars
  BY <1>1, <1>2, <1>6, AgentKeepsCounts, OthersKeepDedup
<1>7. CASE ApprovalNext /\ UNCHANGED <<work, ingestVars>>
  BY <1>2, <1>4, <1>7, ApprovalKeepsCounts, OthersKeepDedup
<1>8. CASE ExecutorNext /\ UNCHANGED <<work, ingestVars>>
  BY <1>2, <1>4, <1>8, ExecutorKeepsCounts, OthersKeepDedup
<1>9. CASE UNCHANGED <<table, work, ingestVars>>
  BY <1>2, <1>4, <1>5, <1>9, OthersKeepDedup
<1>10. Replication => UNCHANGED <<table, work, ingestVars>> BY DEF Replication, Propagate
<1>. QED
  BY <1>3, <1>6, <1>7, <1>8, <1>9, <1>10 DEF Next, vars, ingestVars

LEMMA InitDedup == Init => DedupInv
<1>. SUFFICES ASSUME Init PROVE InHand /\ Tallied BY DEF DedupInv
<1>1. InHand BY DEF Init, IngestInit, IngestIdle, QueueInit, InHand
<1>2. ASSUME NEW i \in Incident PROVE table[i].status = "MISSING" /\ Unheard(i)
  BY StoreAssumption
  DEF Init, StoreInit, Missing, QueueInit, IngestInit, IngestIdle, Unheard, NotesIn, NotesOf,
      Items, Senders
<1>. QED BY <1>1, <1>2 DEF Tallied

\* However notifications of one incident interleave on concurrent invocations,
\* one of them creates it and queues its one work item and each of the others is
\* counted by one suppression (create_incident's attribute_not_exists and
\* record_suppression's ADD), as long as nothing has failed.
THEOREM DedupKeepsCount ==
  ASSUME Countable
  PROVE  Spec => []DedupConservation
<1>1. DedupInv => DedupConservation
  <2>. SUFFICES ASSUME InHand, Tallied, NEW i \in Incident, table[i].status # "MISSING"
                PROVE  Accounted(i)
    BY DEF DedupInv, DedupConservation, Accounted, NotesIn, Items, Senders
  <2>. QED BY DEF Tallied
<1>2. IInv => TypeRefs BY DEF IInv, TypeRefs
<1>. QED BY <1>1, <1>2, InitDedup, NextKeepsDedup, Invariant, PTL DEF Spec
=============================================================================
