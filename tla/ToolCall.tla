------------------------------ MODULE ToolCall ------------------------------
(***************************************************************************)
(* agent/tools/init.py and base.py: one tool call of the model's.          *)
(*                                                                         *)
(* A call is dispatched to its tool, which talks to AWS or GitHub call by  *)
(* call and ends with a payload for the model.  clock counts the seconds   *)
(* the tool spends asleep or waiting under a timeout of its own; other     *)
(* calls are taken to be instantaneous.                                    *)
(***************************************************************************)
EXTENDS Naturals, FiniteSets, SequencesExt

CONSTANTS
  Request,       \* the calls a model may make: [tool, fits, ...arguments]
  NoPayload      \* no result yet

VARIABLES
  call,          \* the request being served
  pc,            \* what the tool does next; "done" when it has answered
  clock,         \* seconds since the call began
  payload        \* what goes back to the model

callVars == <<call, pc, clock, payload>>

\* _REGISTRY
Tool == {"search_logs", "get_metrics", "get_recent_changes", "search_runbooks"}

\* error_result: a failure the model reasons about.
Failure == [tool |-> "error"]

Return(result) == pc' = "done" /\ payload' = result

\* resolve_log_groups, resolve_function and QUEUE_NAMES: the allow-listed names.
Resolves(r) ==
  CASE r.tool = "search_logs" -> r.target \in {"api", "consumer", "both"}
    [] r.tool = "get_metrics" -> r.target \in {"api", "consumer", "queue", "dlq"}
    [] OTHER                  -> TRUE

\* The members of a set of numbers, least first.
Ascending(S) == [k \in 1..Cardinality(S) |->
                   CHOOSE n \in S : Cardinality({m \in S : m < n}) = k - 1]

Total(values) ==
  LET sum[n \in 0..Len(values)] == IF n = 0 THEN 0 ELSE sum[n - 1] + values[n]
  IN  sum[Len(values)]

CallInit ==
  /\ call \in Request
  /\ pc = "dispatch"
  /\ clock = 0
  /\ payload = NoPayload

\* An unknown tool, arguments it does not take, or a name that is not listed.
Refuse ==
  /\ pc = "dispatch"
  /\ \/ call.tool \notin Tool
     \/ ~call.fits
     \/ ~Resolves(call)
  /\ Return(Failure)
  /\ UNCHANGED <<call, clock>>

\* dispatch hands the call to the tool, whose first step is first.
Dispatch(name, first) ==
  /\ pc = "dispatch"
  /\ call.tool = name
  /\ call.fits
  /\ Resolves(call)
  /\ pc' = first
  /\ UNCHANGED <<call, clock, payload>>
=============================================================================
