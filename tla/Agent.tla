-------------------------------- MODULE Agent --------------------------------
(***************************************************************************)
(* agent/handler.py: take a work item, claim its incident, investigate,    *)
(* and route the outcome.  The event source mapping delivers one message   *)
(* per invocation and honours batchItemFailures.                           *)
(***************************************************************************)
EXTENDS WorkQueue

CONSTANTS AgentWorker, NoMessage

ASSUME AgentAssumption == NoMessage \notin Message

VARIABLES agent,   \* per worker: control state and the message it holds
          runs     \* history: how often the agent loop ran for an incident

agentVars == <<agent, runs>>

AgentIdle == [pc |-> "idle", msg |-> NoMessage]

AgentTypeOK ==
  /\ agent \in [AgentWorker -> [pc : {"idle", "claim", "run"}, msg : Message \cup {NoMessage}]]
  /\ runs \in [Incident -> Nat]

AgentInit == /\ agent = [w \in AgentWorker |-> AgentIdle]
             /\ runs = [i \in Incident |-> 0]

Held(w) == work[agent[w].msg].incident

\* How the agent loop can end other than with a valid RCA: Bedrock refused
\* access, no answer within max_steps (or an empty one), or anything else,
\* an answer still invalid after its one repair included.
RunFailure == {"ModelAccessError", "MaxStepsExceeded", "Exception"}

\* Mutant: the "nothing to automate" branch is missing.
RouteNoneToo(rca) == IF rca.needs_human THEN "ESCALATED" ELSE "PENDING_APPROVAL"

\* _route
Route(rca) == IF rca.needs_human THEN "ESCALATED"
              ELSE IF rca.remediation = "none" THEN "INFORMATIONAL"
              ELSE "PENDING_APPROVAL"

-----------------------------------------------------------------------------
AgentIdles(w) == agent' = [agent EXCEPT ![w] = AgentIdle]

\* The message was delivered, but the incident is not there or is not NEW: the
\* handler returns and the message is deleted.
AgentSkip(w, m) ==
  /\ agent[w].pc = "idle"
  /\ Receive(m, "deleted")
  /\ \E item \in Reads(work[m].incident) : item.status # "NEW"
  /\ NoFault
  /\ UNCHANGED <<storeVars, agentVars>>

\* The message was delivered and the incident reads NEW.
AgentReceive(w, m) ==
  /\ agent[w].pc = "idle"
  /\ Receive(m, "inflight")
  /\ \E item \in Reads(work[m].incident) : item.status = "NEW"
  /\ agent' = [agent EXCEPT ![w] = [pc |-> "claim", msg |-> m]]
  /\ NoFault
  /\ UNCHANGED <<storeVars, runs>>

\* Mutant: IllegalTransition is ignored, the loser investigates as well.
AgentClaimAnyway(w) ==
  /\ agent[w].pc = "claim"
  /\ \E out \in Outcome : Transition(Held(w), "INVESTIGATING", table[Held(w)], out)
  /\ agent' = [agent EXCEPT ![w].pc = "run"]
  /\ runs' = [runs EXCEPT ![Held(w)] = @ + 1]
  /\ UNCHANGED work

\* transition(INVESTIGATING): whoever is refused raises and hands the message back.
AgentClaim(w) ==
  /\ agent[w].pc = "claim"
  /\ \E out \in Outcome :
       /\ Transition(Held(w), "INVESTIGATING", table[Held(w)], out)
       /\ \/ /\ out = "ok"
             /\ agent' = [agent EXCEPT ![w].pc = "run"]
             /\ runs' = [runs EXCEPT ![Held(w)] = @ + 1]
             /\ UNCHANGED work
          \/ /\ out # "ok"
             /\ Nack(agent[w].msg)
             /\ AgentIdles(w)
             /\ UNCHANGED runs

\* The loop ended with a valid RCA: route it and record it.
AgentConclude(w, r) ==
  /\ agent[w].pc = "run"
  /\ \E out \in Outcome :
       /\ Transition(Held(w), Route(r), [table[Held(w)] EXCEPT !.rca = r], out)
       /\ IF out = "ok" THEN Ack(agent[w].msg) ELSE Nack(agent[w].msg)
  /\ AgentIdles(w)
  /\ UNCHANGED runs

\* Mutant: running out of steps returns without recording anything.
AgentFailSilently(w, failure) ==
  /\ agent[w].pc = "run"
  /\ Ack(agent[w].msg)
  /\ AgentIdles(w)
  /\ NoFault
  /\ UNCHANGED <<storeVars, runs>>

\* The loop failed.  Only running out of steps counts as handled; the other
\* two re-raise, so the message comes back and is then skipped.
AgentFail(w, failure) ==
  /\ agent[w].pc = "run"
  /\ \E out \in Outcome :
       /\ Transition(Held(w), IF failure = "Exception" THEN "FAILED" ELSE "ESCALATED",
                     table[Held(w)], out)
       /\ IF out = "ok" /\ failure = "MaxStepsExceeded"
            THEN Ack(agent[w].msg)
            ELSE Nack(agent[w].msg)
  /\ AgentIdles(w)
  /\ UNCHANGED runs

\* The invocation times out or dies; nobody settles the message.
AgentCrash(w) ==
  /\ agent[w].pc # "idle"
  /\ Fault
  /\ Nack(agent[w].msg)
  /\ AgentIdles(w)
  /\ UNCHANGED <<storeVars, runs>>

\* The queue's own steps.
QueueStep == /\ \E m \in Message : Redrive(m) \/ Duplicate(m)
             /\ UNCHANGED <<storeVars, agentVars>>

AgentStep == \E w \in AgentWorker :
                \/ \E m \in Message : AgentSkip(w, m) \/ AgentReceive(w, m)
                \/ AgentClaim(w)
                \/ \E r \in Rca : AgentConclude(w, r)
                \/ \E failure \in RunFailure : AgentFail(w, failure)

AgentNext == \/ AgentStep
             \/ QueueStep
             \/ \E w \in AgentWorker : AgentCrash(w)
=============================================================================
