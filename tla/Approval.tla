------------------------------- MODULE Approval -------------------------------
(***************************************************************************)
(* approval/handler.py: the approve and reject requests of operators.      *)
(*                                                                         *)
(* get_incident only chooses between 404 and going on, and an item that    *)
(* exists never goes missing, so the read and the conditional write after  *)
(* it are one step.  The invocation of the executor is another: a request  *)
(* can fail between the two.                                               *)
(***************************************************************************)
EXTENDS Executor

CONSTANT EXECUTOR_FUNCTION   \* is the executor's name configured?

ASSUME ApprovalAssumption == EXECUTOR_FUNCTION \in BOOLEAN

VARIABLE gate   \* per operator: the incident approved and not yet handed over

ApprovalTypeOK == gate \in [Actor -> Incident \cup {NoIncident}]

ApprovalInit == gate = [a \in Actor |-> NoIncident]

-----------------------------------------------------------------------------
\* An authorised request about an incident that exists reaches the gate.
Requests(a, i) == gate[a] = NoIncident /\ table[i].status # "MISSING"

\* Mutant: IllegalTransition is ignored and the executor invoked anyway.
ApproveAnyway(a, i) ==
  /\ Requests(a, i)
  /\ \E out \in Outcome :
       /\ Transition(i, "APPROVED", [table[i] EXCEPT !.approved_by = a], out)
       /\ gate' = [gate EXCEPT ![a] = IF out # "error" THEN i ELSE NoIncident]
  /\ UNCHANGED executorVars

\* _approve up to the invocation; 409 when refused.
Approve(a, i) ==
  /\ Requests(a, i)
  /\ \E out \in Outcome :
       /\ Transition(i, "APPROVED", [table[i] EXCEPT !.approved_by = a], out)
       /\ gate' = [gate EXCEPT ![a] = IF out = "ok" /\ EXECUTOR_FUNCTION THEN i ELSE NoIncident]
  /\ UNCHANGED executorVars

\* _reject
Reject(a, i) ==
  /\ Requests(a, i)
  /\ \E out \in Outcome :
       Transition(i, "REJECTED", [table[i] EXCEPT !.rejected_by = a], out)
  /\ UNCHANGED <<executorVars, gate>>

\* _lambda.invoke, asynchronously.
Invoke(a) ==
  /\ gate[a] # NoIncident
  /\ Incoming(gate[a])
  /\ gate' = [gate EXCEPT ![a] = NoIncident]
  /\ NoFault
  /\ UNCHANGED <<storeVars, exec, targetVars, effects>>

\* The request dies after its write, or the invocation fails: 500, no event.
ApprovalCrash(a) ==
  /\ gate[a] # NoIncident
  /\ Fault
  /\ gate' = [gate EXCEPT ![a] = NoIncident]
  /\ UNCHANGED <<storeVars, executorVars>>

Decision == \E a \in Actor, i \in Incident : Approve(a, i) \/ Reject(a, i)

ApprovalNext == \/ Decision
                \/ \E a \in Actor : Invoke(a) \/ ApprovalCrash(a)
=============================================================================
