---------------------------- MODULE IncidentStore ----------------------------
(***************************************************************************)
(* common/incidents.py: the incidents table and the only ways the pipeline *)
(* writes to it.  An item that does not exist is the record Missing.       *)
(*                                                                         *)
(* get_item and scan are called without ConsistentRead, so either may be   *)
(* answered by a replica that lags the table (StaleReads).  A conditional write whose  *)
(* reply is lost is retried by the SDK (max_attempts = 3) and is then      *)
(* refused by the very change it made.                                     *)
(***************************************************************************)
EXTENDS Faults, RcaSchema

CONSTANTS
  Incident,     \* incident ids
  Actor,        \* operators who may call the approval gate
  Rca,          \* the validated RCAs an investigation may end with
  NoIncident, NoRca, Nobody, NoTarget,
  StaleReads    \* may a read be answered by the lagging replica?

ASSUME StoreAssumption ==
  /\ \A r \in Rca : Valid(r)
  /\ NoIncident \notin Incident
  /\ NoRca \notin Rca
  /\ Nobody \notin Actor
  /\ StaleReads \in BOOLEAN

VARIABLES table,    \* the items, as the leader replica has them
          replica   \* the items, as a lagging replica has them

storeVars == <<table, replica>>

Status == {"NEW", "INVESTIGATING", "PENDING_APPROVAL", "APPROVED", "REJECTED",
           "EXECUTED", "ESCALATED", "INFORMATIONAL", "FAILED", "CLOSED"}

ALLOWED_TRANSITIONS ==
  {<<"NEW", "INVESTIGATING">>, <<"NEW", "FAILED">>,
   <<"INVESTIGATING", "PENDING_APPROVAL">>, <<"INVESTIGATING", "ESCALATED">>,
   <<"INVESTIGATING", "INFORMATIONAL">>, <<"INVESTIGATING", "FAILED">>,
   <<"PENDING_APPROVAL", "APPROVED">>, <<"PENDING_APPROVAL", "REJECTED">>,
   <<"APPROVED", "EXECUTED">>, <<"APPROVED", "FAILED">>,
   <<"EXECUTED", "CLOSED">>, <<"REJECTED", "CLOSED">>, <<"ESCALATED", "CLOSED">>,
   <<"INFORMATIONAL", "CLOSED">>, <<"FAILED", "CLOSED">>}

\* execution_result: what the executor says it did, with the alias versions
\* a human needs to undo it.
Result == [action : Remediation \cup {"unset"}, from : Nat, to : Nat]

NoResult == [action |-> "unset", from |-> 0, to |-> 0]

Item == [status           : Status \cup {"MISSING"},
         rca              : Rca \cup {NoRca},
         approved_by      : Actor \cup {Nobody},
         rejected_by      : Actor \cup {Nobody},
         execution_result : Result,
         suppressed_count : Nat]

Missing == [status           |-> "MISSING",
            rca              |-> NoRca,
            approved_by      |-> Nobody,
            rejected_by      |-> Nobody,
            execution_result |-> NoResult,
            suppressed_count |-> 0]

NewItem == [Missing EXCEPT !.status = "NEW"]

StoreTypeOK == /\ table \in [Incident -> Item]
               /\ replica \in [Incident -> Item]

StoreInit == /\ table = [i \in Incident |-> Missing]
             /\ replica = [i \in Incident |-> Missing]

-----------------------------------------------------------------------------
\* get_incident: the item, or an older copy of it.
Reads(i) == {table[i]} \cup (IF StaleReads THEN {replica[i]} ELSE {})

\* A scan is as consistent: of these incidents a page of it may hold an older
\* copy,
Lagging == {i \in Incident : StaleReads /\ replica[i] # table[i]}

\* and incident i in a page with older copies of those in old is
Copy(i, old) == IF i \in old THEN replica[i] ELSE table[i]

\* The replica catches up.
Propagate(i) == /\ StaleReads
                /\ replica[i] # table[i]
                /\ replica' = [replica EXCEPT ![i] = table[i]]
                /\ UNCHANGED table

\* Mutant: an approved incident may still be rejected.
LegalFromApprovedToo(to) ==
  {s \in Status : <<s, to>> \in ALLOWED_TRANSITIONS \/ (to = "REJECTED" /\ s = "APPROVED")}

\* Mutant: the condition only asks that the item exists.
LegalFromAnywhere(to) == Status

LegalFrom(to) == {s \in Status : <<s, to>> \in ALLOWED_TRANSITIONS}

\* Mutant: the update carries no condition.
MoveUnconditionally(i, to, item) == table' = [table EXCEPT ![i] = [item EXCEPT !.status = to]]

\* The update of transition() once its condition holds; item carries the
\* caller's **fields.
Move(i, to, item) ==
  /\ table[i].status \in LegalFrom(to)
  /\ table' = [table EXCEPT ![i] = [item EXCEPT !.status = to]]

\* transition(i, to, fields) and what its caller sees:
\*   "ok"       returned,
\*   "refused"  IllegalTransition, rightly or because the reply to the write
\*              that succeeded was lost and the SDK sent it again,
\*   "error"    any other failure, before the write or after it.
Transition(i, to, item, out) ==
  /\ \/ out = "ok" /\ Move(i, to, item) /\ NoFault
     \/ out = "refused" /\ table[i].status \notin LegalFrom(to) /\ UNCHANGED table /\ NoFault
     \/ out = "refused" /\ Move(i, to, item) /\ Fault
     \/ out = "error" /\ UNCHANGED table /\ Fault
     \/ out = "error" /\ Move(i, to, item) /\ Fault
  /\ UNCHANGED replica

Outcome == {"ok", "refused", "error"}

\* Mutant: put_item without attribute_not_exists.
CreateUnconditionally(i, out) ==
  /\ \/ out = "ok" /\ table' = [table EXCEPT ![i] = NewItem] /\ NoFault
     \/ out = "error" /\ UNCHANGED table /\ Fault
  /\ UNCHANGED replica

\* create_incident(i, alarm); "refused" is DuplicateIncident.
Create(i, out) ==
  LET new == table[i].status = "MISSING"
      put == table' = [table EXCEPT ![i] = NewItem]
  IN /\ \/ out = "ok" /\ new /\ put /\ NoFault
        \/ out = "refused" /\ ~new /\ UNCHANGED table /\ NoFault
        \/ out \in {"refused", "error"} /\ new /\ put /\ Fault
        \/ out = "error" /\ UNCHANGED table /\ Fault
     /\ UNCHANGED replica

\* record_suppression(i): an unconditional counter update, so a retry after a
\* lost reply counts twice.
Suppress(i, out) ==
  LET add(n) == table' = [table EXCEPT ![i].suppressed_count = @ + n]
  IN /\ \/ out = "ok" /\ add(1) /\ NoFault
        \/ out = "ok" /\ add(2) /\ Fault
        \/ out = "error" /\ (UNCHANGED table \/ add(1)) /\ Fault
     /\ UNCHANGED replica
=============================================================================
