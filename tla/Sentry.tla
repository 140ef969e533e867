------------------------------- MODULE Sentry -------------------------------
(***************************************************************************)
(* The whole pipeline: alarm -> SNS -> ingest -> SQS -> agent -> approval  *)
(* gate -> executor, around one incidents table.                           *)
(***************************************************************************)
EXTENDS Ingest, Agent, Approval, FiniteSets

vars == <<faults, table, replica, work, topic, ingest, agent, runs,
          events, exec, published, alias, flag, effects, gate>>

Init == /\ faults = 0
        /\ StoreInit
        /\ QueueInit
        /\ IngestInit
        /\ AgentInit
        /\ ExecutorInit
        /\ ApprovalInit

Replication == /\ \E i \in Incident : Propagate(i)
               /\ UNCHANGED <<faults, work, ingestVars, agentVars, executorVars, gate>>

Next == \/ IngestNext   /\ UNCHANGED <<agentVars, executorVars, gate>>
        \/ AgentNext    /\ UNCHANGED <<ingestVars, executorVars, gate>>
        \/ ApprovalNext /\ UNCHANGED <<work, ingestVars, agentVars>>
        \/ ExecutorNext /\ UNCHANGED <<work, ingestVars, agentVars, gate>>
        \/ Replication

Spec == Init /\ [][Next]_vars

(***************************************************************************)
(* Fairness: AWS delivers, retries, redrives and replicates, and a running *)
(* invocation takes its next step.  Nothing obliges an operator to decide, *)
(* an alarm to fire, anyone to deploy, or a fault to happen.               *)
(***************************************************************************)
Fairness ==
  /\ \A w \in IngestWorker :
       WF_vars(/\ \/ \E n \in Notification : IngestIgnore(w, n) \/ IngestCreate(w, n)
                  \/ IngestSuppress(w)
                  \/ IngestSend(w)
               /\ UNCHANGED <<agentVars, executorVars, gate>>)
  /\ \A w \in AgentWorker :
       WF_vars(/\ \/ \E m \in Message : AgentSkip(w, m) \/ AgentReceive(w, m)
                  \/ AgentClaim(w)
                  \/ \E r \in Rca : AgentConclude(w, r)
                  \/ \E failure \in RunFailure : AgentFail(w, failure)
               /\ UNCHANGED <<ingestVars, executorVars, gate>>)
  /\ WF_vars(/\ \E m \in Message : Redrive(m)
             /\ UNCHANGED <<storeVars, agentVars, ingestVars, executorVars, gate>>)
  /\ \A a \in Actor : WF_vars(Invoke(a) /\ UNCHANGED <<work, ingestVars, agentVars>>)
  /\ \A w \in ExecutorWorker :
       WF_vars(/\ \/ \E e \in Event : ExecutorSkip(w, e) \/ ExecutorReceive(w, e)
                  \/ ExecutorReadAlias(w) \/ ExecutorShift(w) \/ ExecutorDisableFlag(w)
                  \/ ExecutorRecord(w) \/ ExecutorFail(w)
               /\ UNCHANGED <<work, ingestVars, agentVars, gate>>)
  /\ WF_vars(Replication)

FairSpec == Spec /\ Fairness

-----------------------------------------------------------------------------
(* Invariants *)

\* Types of every variable.
TypeOK == /\ FaultsTypeOK
          /\ StoreTypeOK
          /\ QueueTypeOK
          /\ IngestTypeOK
          /\ AgentTypeOK
          /\ ExecutorTypeOK
          /\ ApprovalTypeOK

\* Whatever crashes, duplicates or stale reads happen, the target is changed on
\* behalf of an incident only when a human approved it and nobody rejected it,
\* for a valid RCA that proposed an action and asked for no investigation
\* (executor/handler.py: "a bad proposal but never a bad action").
HumanGate ==
  \A i \in Incident :
     effects[i] > 0 =>
        /\ table[i].approved_by \in Actor
        /\ table[i].rejected_by = Nobody
        /\ table[i].status \in {"APPROVED", "EXECUTED", "FAILED"}
        /\ table[i].rca \in Rca
        /\ table[i].rca.remediation # "none"
        /\ ~table[i].rca.needs_human

\* EXECUTED is never reported for an incident on whose behalf nothing was
\* changed (_disable_flag: "silently doing nothing while reporting EXECUTED
\* would be worse than failing"), and the record names the approved action.
ExecutedMeansDone ==
  \A i \in Incident :
     table[i].status = "EXECUTED" =>
        /\ effects[i] > 0
        /\ table[i].execution_result.action = table[i].rca.remediation

\* However often its work item is delivered, an incident is investigated at
\* most once, and only one RCA is ever produced (storage.tf: a second
\* investigation must not start on the same incident).
OneInvestigation ==
  \A i \in Incident :
     /\ runs[i] <= 1
     /\ table[i].rca # NoRca => runs[i] = 1
     /\ \A v, w \in AgentWorker :
          agent[v].pc = "run" /\ agent[w].pc = "run" /\ Held(v) = i /\ Held(w) = i => v = w

\* The executor works from the RCA the operator saw: what an invocation read,
\* however stale the read, is what the incident still holds.
WorksFromApprovedRca ==
  \A w \in ExecutorWorker :
     exec[w].pc \in {"alias", "shift", "flag", "record"} =>
        /\ exec[w].rca = table[Working(w)].rca
        /\ table[Working(w)].approved_by \in Actor

\* A step that settles an async event leaves an incident that is carried out or has
\* failed: what was skipped lost nothing (execute(): "the first execution already
\* happened").  There is one exception, a read answered by a copy that lags behind
\* the approval: that skip settles the only event an approved incident has.
SettledMeansExecuted ==
  [][\A e \in Event :
       events[e].state # "done" /\ events'[e].state = "done" =>
         LET i == events[e].incident
         IN  \/ table'[i].status \in {"EXECUTED", "FAILED"}
             \/ /\ i \in Lagging
                /\ table[i].status = "APPROVED"
                /\ replica[i].status \notin {"APPROVED", "EXECUTED", "FAILED"}]_vars

\* A notification that got its incident is backed by a work item, whatever
\* failed in between; the reverse is what NewIsPursued is about.
ConsumedIsQueued ==
  \A n \in Notification :
     topic[n].state = "consumed" /\ n.name # NoName /\ n.state = "ALARM" /\ n.at # NoTime =>
        \E m \in Message : work[m].incident = build_incident_id(n.name, n.at)

-----------------------------------------------------------------------------
(* Why the gate holds: an invariant that every step preserves. *)

\* Nobody works on something that does not exist: a busy invocation holds a
\* delivery, a delivery is about an incident, and what the executor is about to
\* change is one of the resources it may touch.
IngestRefs ==
  \A w \in IngestWorker : ingest[w].pc # "idle" =>
     ingest[w].note \in Notification /\ ingest[w].incident \in Incident

QueueRefs == \A m \in Message : work[m].state # "unused" => work[m].incident \in Incident

AgentRefs ==
  \A w \in AgentWorker : agent[w].pc # "idle" =>
     agent[w].msg \in Message /\ work[agent[w].msg].state # "unused"

EventRefs == \A e \in Event : events[e].state # "unused" => events[e].incident \in Incident

ExecutorRefs ==
  \A w \in ExecutorWorker :
     /\ exec[w].pc # "idle" =>
          exec[w].event \in Event /\ events[exec[w].event].state # "unused"
     /\ exec[w].pc \in {"alias", "shift"} => exec[w].rca.target \in Function
     /\ exec[w].pc = "flag" => exec[w].rca.target \in Flag
     /\ exec[w].pc = "shift" => exec[w].result.to # 0

Refs == IngestRefs /\ QueueRefs /\ AgentRefs /\ EventRefs /\ ExecutorRefs

\* An RCA that proposes an action and asks nobody to investigate.
Proposal(rca) == rca \in Rca /\ rca.remediation # "none" /\ ~rca.needs_human

\* An item tells one story: its status, its RCA and its two names agree.
ItemConsistent(item) ==
  /\ item.status \in {"PENDING_APPROVAL", "APPROVED", "REJECTED", "EXECUTED"} =>
        Proposal(item.rca)
  /\ item.status \in {"APPROVED", "EXECUTED"} => item.approved_by \in Actor
  /\ item.approved_by \in Actor =>
        /\ item.status \in {"APPROVED", "EXECUTED", "FAILED"}
        /\ item.rejected_by = Nobody
        /\ Proposal(item.rca)
  /\ item.rejected_by \in Actor => item.status = "REJECTED"

\* Incident i was approved, and for this RCA.
ApprovedFor(i, rca) == table[i].approved_by \in Actor /\ table[i].rca = rca

TableConsistent ==
  \A i \in Incident :
     /\ ItemConsistent(table[i])
     /\ replica[i].status = "APPROVED" => ApprovedFor(i, replica[i].rca)
     /\ effects[i] > 0 => table[i].approved_by \in Actor
     /\ table[i].status = "EXECUTED" =>
          effects[i] > 0 /\ table[i].execution_result.action = table[i].rca.remediation

\* An invocation of the executor past its guard has an approval to show for it,
\* and one that is about to record EXECUTED did what it is going to report.
ExecutorAuthorised ==
  \A w \in ExecutorWorker :
     /\ exec[w].pc \in {"alias", "shift", "flag", "record"} =>
          ApprovedFor(Working(w), exec[w].rca)
     /\ exec[w].pc \in {"alias", "shift"} => exec[w].rca.remediation = "alias_rollback"
     /\ exec[w].pc = "shift" => exec[w].result.action = "alias_rollback"
     /\ exec[w].pc = "flag" => exec[w].rca.remediation = "feature_flag"
     /\ exec[w].pc = "record" => /\ effects[Working(w)] > 0
                                 /\ exec[w].result.action = exec[w].rca.remediation

\* The inductive invariant behind HumanGate, ExecutedMeansDone and
\* WorksFromApprovedRca: types, references, and the trail of an approval from
\* the item through a stale copy of it into the executor's hands.
IInv == TypeOK /\ Refs /\ TableConsistent /\ ExecutorAuthorised

-----------------------------------------------------------------------------
(* Nothing is left behind.  These hold while nothing goes wrong; the runs    *)
(* with faults show where the code gives them up.                            *)

\* The dated notifications that are about incident i.
NotesOf(i) == {n \in Notification : n.name # NoName /\ n.state = "ALARM" /\ n.at # NoTime
                                    /\ build_incident_id(n.name, n.at) = i}

\* An incident that is NEW is still on its way to the agent: SNS will deliver
\* its notification (again), or an invocation has it, or it has a work item.
NewIsPursued ==
  \A i \in Incident :
     table[i].status = "NEW" =>
        \/ \E n \in NotesOf(i) : topic[n].state \in {"pending", "delivering"}
        \/ QueueVisible(i)

\* An incident that is INVESTIGATING has a live investigation, or its message
\* will show in the dead-letter queue.
CrashedRunReachesDLQ ==
  \A i \in Incident :
     table[i].status = "INVESTIGATING" =>
        \/ \E w \in AgentWorker : agent[w].pc = "run" /\ Held(w) = i
        \/ QueueVisible(i)
        \/ QueueDead(i)

\* The target is changed at most once per incident (approval/handler.py: "the
\* executor cannot run twice").
SingleEffect == \A i \in Incident : effects[i] <= 1

\* However approved rollbacks and deployments of one function interleave, the
\* version it ends up serving is accounted for: the newest one, or the one an
\* executed incident reports as where it went (execution_result, from which a
\* human undoes it).
ServedVersionIsExplained ==
  \A f \in Function :
     (\A w \in ExecutorWorker : exec[w].pc # "record") =>
        \/ alias[f] = published[f]
        \/ \E i \in Incident : /\ table[i].status = "EXECUTED"
                               /\ table[i].rca.target = f
                               /\ table[i].execution_result.to = alias[f]

\* Deduplication keeps count.  As long as nothing has gone wrong, an incident
\* accounts for every notification handled for it: one of them by the work item
\* it was given, each of the others by one suppression.  (Dated notifications.)
DedupConservation ==
  faults = 0 =>
    \A i \in Incident :
       LET count(state) == Cardinality({n \in NotesOf(i) : topic[n].state = state})
           items == Cardinality({m \in Message : work[m].incident = i})
       IN table[i].status # "MISSING" =>
            /\ table[i].suppressed_count = count("suppressed")
            /\ count("consumed") = items
            /\ items + Cardinality({w \in IngestWorker : ingest[w].pc = "send"
                                                         /\ ingest[w].incident = i}) = 1

-----------------------------------------------------------------------------
(* Action properties *)

\* A decision stands and so does what was decided on: once an incident is
\* proposed its RCA never changes, and once somebody approved or rejected it
\* neither name changes and the other one is never filled in.
DecisionStands ==
  [][\A i \in Incident :
       /\ table[i].rca # NoRca => table'[i].rca = table[i].rca
       /\ \/ table[i].approved_by = Nobody /\ table[i].rejected_by = Nobody
          \/ /\ table'[i].approved_by = table[i].approved_by
             /\ table'[i].rejected_by = table[i].rejected_by]_table

-----------------------------------------------------------------------------
(* Refinement of the contract *)

Stage(i) ==
  LET s == table[i].status
  IN CASE s = "MISSING" -> "none"
       [] s \in {"NEW", "INVESTIGATING"} -> "open"
       [] s = "PENDING_APPROVAL" -> "proposed"
       [] s = "REJECTED" -> "refused"
       [] s = "APPROVED" -> "authorised"
       [] s = "EXECUTED" -> "done"
       [] s = "FAILED" /\ table[i].approved_by # Nobody -> "failed"
       [] OTHER -> "settled"

Contract == INSTANCE TriageContract
              WITH stage <- [i \in Incident |-> Stage(i)],
                   acted <- [i \in Incident |-> effects[i] > 0]

\* Every behaviour of the pipeline is one the contract allows.
ImplementsContract == Contract!Spec

-----------------------------------------------------------------------------
(* Liveness *)

\* Every incident reaches a human or is settled, with nobody's help.
EveryIncidentSettles ==
  \A i \in Incident :
     table[i].status = "NEW" ~> table[i].status \notin {"NEW", "INVESTIGATING"}

\* What a human approved is carried out or reported failed.
EveryApprovalConcludes ==
  \A i \in Incident :
     table[i].status = "APPROVED" ~> table[i].status \in {"EXECUTED", "FAILED"}

\* Even with faults nothing circulates for ever: each work item is deleted or
\* dead-lettered, each async event is settled or dropped.
QueuesDrain ==
  /\ \A m \in Message :
       work[m].state \in {"visible", "inflight"} ~> work[m].state \in {"deleted", "dead"}
  /\ \A e \in Event :
       events[e].state \in {"pending", "running"} ~> events[e].state \in {"done", "dropped"}
=============================================================================
