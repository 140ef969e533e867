------------------------------- MODULE Executor -------------------------------
(***************************************************************************)
(* executor/handler.py: the only component that changes the target system. *)
(*                                                                         *)
(* It is invoked asynchronously (InvocationType "Event"), so an invocation *)
(* that raises or dies is tried again, up to MaxAttempts times in all, and *)
(* an event may be delivered more than once.                               *)
(*                                                                         *)
(* Published versions are numbered 1..published[f]; the alias serves one.  *)
(***************************************************************************)
EXTENDS IncidentStore

CONSTANTS
  Event,            \* bound: ids of the async events a behaviour may use
  ExecutorWorker,   \* concurrent invocations
  Function, Flag,   \* Config.TARGET_FUNCTIONS, and the flags that exist
  NoEvent,
  MaxAttempts,      \* 1 + the retries of an async invocation
  InitialVersions,  \* how many versions a function may have published at the start
  MaxVersion        \* bound: versions ever published per function

ASSUME ExecutorAssumption ==
  /\ NoEvent \notin Event
  /\ NoTarget \notin Function \cup Flag
  /\ MaxAttempts \in Nat
  /\ MaxVersion \in Nat
  /\ InitialVersions \subseteq Nat \ {0}
  /\ \A r \in Rca : r.target \in Function \cup Flag \cup {NoTarget}

VARIABLES
  events,      \* the async events: incident, delivery state, attempts
  exec,        \* per worker: control state, event, RCA read, alias version read
  published, alias, flag,   \* the target system
  effects      \* history: mutations carried out for an incident

targetVars == <<published, alias, flag>>
executorVars == <<events, exec, published, alias, flag, effects>>

EventState == {"unused", "pending", "running", "done", "dropped"}

ExecutorIdle == [pc |-> "idle", event |-> NoEvent, rca |-> NoRca, result |-> NoResult]

Invocation == [pc     : {"idle", "alias", "shift", "flag", "record", "fail"},
               event  : Event \cup {NoEvent},
               rca    : Rca \cup {NoRca},
               result : Result]

ExecutorTypeOK ==
  /\ events \in [Event -> [incident : Incident \cup {NoIncident},
                           state : EventState, attempts : Nat]]
  /\ exec \in [ExecutorWorker -> Invocation]
  /\ published \in [Function -> Nat \ {0}]
  /\ alias \in [Function -> Nat \ {0}]
  /\ flag \in [Flag -> BOOLEAN]
  /\ effects \in [Incident -> Nat]

ExecutorInit ==
  /\ events = [e \in Event |-> [incident |-> NoIncident, state |-> "unused", attempts |-> 0]]
  /\ exec = [w \in ExecutorWorker |-> ExecutorIdle]
  /\ published \in [Function -> InitialVersions]
  /\ alias = published
  /\ flag = [g \in Flag |-> TRUE]
  /\ effects = [i \in Incident |-> 0]

-----------------------------------------------------------------------------
Incoming(i) ==
  \E e \in Event :
     /\ events[e].state = "unused"
     /\ events' = [events EXCEPT ![e] = [incident |-> i, state |-> "pending", attempts |-> 0]]

\* The event reaches the function twice: Lambda's own duplicate, or the SDK
\* invoking again after a lost reply.
DuplicateEvent(e) ==
  /\ Fault
  /\ events[e].state \notin {"unused", "dropped"}
  /\ Incoming(events[e].incident)
  /\ UNCHANGED <<storeVars, exec, targetVars, effects>>

\* Somebody else deploys: a new version is published and the alias moves to it.
Deploy(f) ==
  /\ published[f] < MaxVersion
  /\ published' = [published EXCEPT ![f] = @ + 1]
  /\ alias' = [alias EXCEPT ![f] = published[f] + 1]
  /\ NoFault
  /\ UNCHANGED <<storeVars, events, exec, flag, effects>>

Working(w) == events[exec[w].event].incident

\* The invocation is over: its event is settled, or tried again.
ExecutorReturns(w) ==
  /\ events' = [events EXCEPT ![exec[w].event].state = "done"]
  /\ exec' = [exec EXCEPT ![w] = ExecutorIdle]

ExecutorRaises(w) ==
  LET e == exec[w].event
  IN /\ events' = [events EXCEPT ![e].state =
                     IF events[e].attempts < MaxAttempts THEN "pending" ELSE "dropped"]
     /\ exec' = [exec EXCEPT ![w] = ExecutorIdle]

Goto(w, pc) == exec' = [exec EXCEPT ![w].pc = pc]

Deliver(e, state) ==
  /\ events[e].state = "pending"
  /\ events[e].attempts < MaxAttempts
  /\ events' = [events EXCEPT ![e].state = state, ![e].attempts = @ + 1]

\* The remediation of the incident as read: a record without an RCA proposes
\* none.
Remedy(item) == IF item.rca = NoRca THEN "none" ELSE item.rca.remediation

\* Mutant: a target that resolves to nothing is reported as carried out.
NextCallLenient(item) ==
  LET target == IF item.rca = NoRca THEN NoTarget ELSE item.rca.target
  IN CASE item.status = "MISSING" -> "fail"
       [] item.status # "MISSING" /\ target \in Function -> "alias"
       [] item.status # "MISSING" /\ target \in Flag -> "flag"
       [] OTHER -> "record"

\* What execute() does next with the incident it read: look up the alias, turn
\* the flag off, record that nothing was to be done, or raise ExecutionError
\* (no incident; a target that resolves to nothing it may touch).
NextCall(item) ==
  LET target == IF item.rca = NoRca THEN NoTarget ELSE item.rca.target
  IN CASE item.status = "MISSING" -> "fail"
       [] item.status # "MISSING" /\ Remedy(item) = "none" -> "record"
       [] item.status # "MISSING" /\ Remedy(item) = "alias_rollback" ->
            IF target \in Function THEN "alias" ELSE "fail"
       [] OTHER -> IF target \in Flag THEN "flag" ELSE "fail"

\* Delivered, but the incident does not read APPROVED: skipped.
ExecutorSkip(w, e) ==
  /\ exec[w].pc = "idle"
  /\ Deliver(e, "done")
  /\ \E item \in Reads(events[e].incident) : item.status \notin {"APPROVED", "MISSING"}
  /\ NoFault
  /\ UNCHANGED <<storeVars, exec, targetVars, effects>>

\* Delivered, and the incident reads APPROVED, or is not there.
ExecutorReceive(w, e) ==
  /\ exec[w].pc = "idle"
  /\ Deliver(e, "running")
  /\ \E item \in Reads(events[e].incident) :
       /\ item.status \in {"APPROVED", "MISSING"}
       /\ exec' = [exec EXCEPT ![w] =
                     [pc |-> NextCall(item), event |-> e, rca |-> item.rca,
                      result |-> [NoResult EXCEPT !.action = "none"]]]
  /\ NoFault
  /\ UNCHANGED <<storeVars, targetVars, effects>>

\* Mutant: the earliest version is taken to have a predecessor.
ExecutorReadAliasPastFirst(w) ==
  /\ exec[w].pc = "alias"
  /\ LET current == alias[exec[w].rca.target]
     IN exec' = [exec EXCEPT ![w].pc = "shift",
                   ![w].result = [action |-> "alias_rollback", from |-> current,
                                  to |-> current - 1]]
  /\ NoFault
  /\ UNCHANGED <<storeVars, events, targetVars, effects>>

\* get_alias and _previous_version: positional, from what the alias serves now.
ExecutorReadAlias(w) ==
  /\ exec[w].pc = "alias"
  /\ LET current == alias[exec[w].rca.target]
     IN \/ /\ current > 1
           /\ exec' = [exec EXCEPT ![w].pc = "shift",
                         ![w].result = [action |-> "alias_rollback",
                                        from |-> current, to |-> current - 1]]
           /\ NoFault
        \/ current <= 1 /\ Goto(w, "fail") /\ NoFault
        \/ Goto(w, "fail") /\ Fault
  /\ UNCHANGED <<storeVars, events, targetVars, effects>>

\* The target was changed on behalf of worker w's incident.
Effect(w) == effects' = [effects EXCEPT ![Working(w)] = @ + 1]

NoEffect == UNCHANGED <<targetVars, effects>>

\* Mutant: the version to shift to is worked out again at the update.
ExecutorShiftAfresh(w) ==
  LET f == exec[w].rca.target
  IN /\ exec[w].pc = "shift"
     /\ alias' = [alias EXCEPT ![f] = alias[f] - 1]
     /\ Effect(w)
     /\ Goto(w, "record")
     /\ NoFault
     /\ UNCHANGED <<published, flag, storeVars, events>>

\* update_alias.  An AWS failure becomes an ExecutionError, whether or not the
\* update went through.
ExecutorShift(w) ==
  LET f == exec[w].rca.target
      shift == /\ alias' = [alias EXCEPT ![f] = exec[w].result.to]
               /\ Effect(w)
               /\ UNCHANGED <<published, flag>>
  IN /\ exec[w].pc = "shift"
     /\ \/ shift /\ Goto(w, "record") /\ NoFault
        \/ shift /\ Goto(w, "fail") /\ Fault
        \/ NoEffect /\ Goto(w, "fail") /\ Fault
     /\ UNCHANGED <<storeVars, events>>

\* _disable_flag: the one flag the detail names is set to disabled.
ExecutorDisableFlag(w) ==
  LET disable == /\ flag' = [flag EXCEPT ![exec[w].rca.target] = FALSE]
                 /\ Effect(w)
                 /\ UNCHANGED <<published, alias>>
  IN /\ exec[w].pc = "flag"
     /\ \/ /\ disable
           /\ exec' = [exec EXCEPT ![w].pc = "record", ![w].result.action = "feature_flag"]
           /\ NoFault
        \/ disable /\ Goto(w, "fail") /\ Fault
        \/ NoEffect /\ Goto(w, "fail") /\ Fault
     /\ UNCHANGED <<storeVars, events>>

\* transition(EXECUTED).  IllegalTransition goes to the handler's except clause;
\* any other error leaves the function without a word on the incident.
ExecutorRecord(w) ==
  /\ exec[w].pc = "record"
  /\ \E out \in Outcome :
       /\ Transition(Working(w), "EXECUTED",
                     [table[Working(w)] EXCEPT !.execution_result = exec[w].result], out)
       /\ \/ out = "ok" /\ ExecutorReturns(w)
          \/ out = "refused" /\ Goto(w, "fail") /\ UNCHANGED events
          \/ out = "error" /\ ExecutorRaises(w)
  /\ UNCHANGED <<targetVars, effects>>

\* Mutant: the except clause only re-raises.
ExecutorFailSilently(w) ==
  /\ exec[w].pc = "fail"
  /\ NoFault
  /\ ExecutorRaises(w)
  /\ UNCHANGED <<storeVars, targetVars, effects>>

\* The except clause: try to record FAILED, swallow a refusal, raise anyway.
ExecutorFail(w) ==
  /\ exec[w].pc = "fail"
  /\ \E out \in Outcome : Transition(Working(w), "FAILED", table[Working(w)], out)
  /\ ExecutorRaises(w)
  /\ UNCHANGED <<targetVars, effects>>

\* The invocation times out or dies between two calls.
ExecutorCrash(w) ==
  /\ exec[w].pc # "idle"
  /\ Fault
  /\ ExecutorRaises(w)
  /\ UNCHANGED <<storeVars, targetVars, effects>>

ExecutorStep == \E w \in ExecutorWorker :
                   \/ \E e \in Event : ExecutorSkip(w, e) \/ ExecutorReceive(w, e)
                   \/ ExecutorReadAlias(w)
                   \/ ExecutorShift(w)
                   \/ ExecutorDisableFlag(w)
                   \/ ExecutorRecord(w)
                   \/ ExecutorFail(w)

ExecutorNext == \/ ExecutorStep
                \/ \E w \in ExecutorWorker : ExecutorCrash(w)
                \/ \E e \in Event : DuplicateEvent(e)
                \/ \E f \in Function : Deploy(f)
=============================================================================
