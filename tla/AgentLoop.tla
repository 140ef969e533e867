------------------------------ MODULE AgentLoop ------------------------------
(***************************************************************************)
(* agent/bedrock.py and _run_investigation of agent/handler.py: what one   *)
(* investigation does between claiming its incident and its verdict.       *)
(*                                                                         *)
(* run_agent alternates model calls and tool calls; its answer is parsed   *)
(* and validated, and an invalid one gets one repair, a second run_agent   *)
(* without tools.  A model answer is a record: whether it is empty, text   *)
(* without a usable JSON object, or an object, and then its raw fields.    *)
(***************************************************************************)
EXTENDS RcaSchema, Sequences

CONSTANTS
  Answer,          \* final texts the model may produce: [kind, raw]
  max_steps,       \* Config.MAX_AGENT_STEPS
  max_attempts,    \* attempts of one Converse call
  MaxToolUses,     \* bound: tool calls in one response
  TokenCounts      \* bound: tokens one response may report

ASSUME LoopAssumption ==
  /\ max_steps \in Nat \ {0}
  /\ max_attempts \in Nat \ {0}
  /\ MaxToolUses \in Nat
  /\ TokenCounts \subseteq Nat
  /\ \A a \in Answer : a.kind \in {"empty", "prose", "object"}

VARIABLES
  pc,           \* "call", "tools", "parse" or "done"
  repairing,    \* is this the repair run?
  step,         \* responses received by the current run_agent
  attempt,      \* failed attempts of the current Converse call
  transcript,   \* messages: role, and how many toolUse / toolResult blocks
  toRun,        \* tool uses of the last response not run yet
  steps,        \* run.steps: tool calls recorded, in this run and the first
  tokens,       \* token count of the current AgentRun
  kept,         \* token count of the first AgentRun, while the repair runs
  answer,       \* final_text of the current AgentRun
  outcome,      \* how _run_investigation ended
  billed,       \* history: tokens of every response received
  asked         \* history: tool uses the model asked for

loopVars == <<pc, repairing, step, attempt, transcript, toRun, steps, tokens, kept,
              answer, outcome, billed, asked>>

Outcomes == {"none", "rca", "ModelAccessError", "MaxStepsExceeded", "Exception"}

NoAnswer == [kind |-> "empty"]

Prompt == <<[role |-> "user", blocks |-> 0]>>

LoopTypeOK ==
  /\ pc \in {"call", "tools", "parse", "done"}
  /\ repairing \in BOOLEAN
  /\ step \in 0..max_steps
  /\ attempt \in 0..(max_attempts - 1)
  /\ transcript \in Seq([role : {"user", "assistant"}, blocks : 0..MaxToolUses])
  /\ toRun \in 0..MaxToolUses
  /\ {steps, tokens, kept, billed, asked} \subseteq Nat
  /\ answer \in Answer \cup {NoAnswer}
  /\ outcome \in Outcomes

LoopInit ==
  /\ pc = "call" /\ repairing = FALSE /\ step = 0 /\ attempt = 0
  /\ transcript = Prompt /\ toRun = 0 /\ steps = 0
  /\ tokens = 0 /\ kept = 0 /\ billed = 0 /\ asked = 0
  /\ answer = NoAnswer /\ outcome = "none"

-----------------------------------------------------------------------------
Conclude(result) == pc' = "done" /\ outcome' = result

\* _converse: throttled, wait and try again.
Throttled ==
  /\ pc = "call"
  /\ attempt < max_attempts - 1
  /\ attempt' = attempt + 1
  /\ UNCHANGED <<pc, repairing, step, transcript, toRun, steps, tokens, kept, answer,
                 outcome, billed, asked>>

\* _converse: throttled once too often, or an error that is not retried.
CallFails ==
  /\ pc = "call"
  /\ \E result \in {"ModelAccessError", "Exception"} : Conclude(result)
  /\ UNCHANGED <<repairing, step, attempt, transcript, toRun, steps, tokens, kept,
                 answer, billed, asked>>

\* A response arrived: its tokens count, its message joins the transcript.
Received(uses, cost) ==
  /\ pc = "call"
  /\ tokens' = tokens + cost
  /\ billed' = billed + cost
  /\ step' = step + 1
  /\ attempt' = 0
  /\ transcript' = Append(transcript, [role |-> "assistant", blocks |-> uses])

\* It asks for tools, whatever its stop reason.  Without a toolConfig it cannot.
WantsTools(uses, cost) ==
  /\ ~repairing
  /\ uses > 0
  /\ Received(uses, cost)
  /\ pc' = "tools"
  /\ toRun' = uses
  /\ asked' = asked + uses
  /\ UNCHANGED <<repairing, steps, kept, answer, outcome>>

\* It asks for none: that is the final text, unless it was cut off.
Answers(a, stop, cost) ==
  /\ Received(0, cost)
  /\ answer' = a
  /\ IF stop = "max_tokens" THEN Conclude("MaxStepsExceeded")
                            ELSE pc' = "parse" /\ UNCHANGED outcome
  /\ UNCHANGED <<repairing, toRun, steps, kept, asked>>

\* Mutant: the tool call is recorded only when it succeeded.
RunToolForgets(status) ==
  /\ pc = "tools" /\ toRun > 0
  /\ toRun' = toRun - 1
  /\ steps' = IF status = "success" THEN steps + 1 ELSE steps
  /\ UNCHANGED <<pc, repairing, step, attempt, transcript, tokens, kept, answer,
                 outcome, billed, asked>>

\* One requested tool runs; an error is evidence, recorded like a result.
RunTool(status) ==
  /\ pc = "tools" /\ toRun > 0
  /\ toRun' = toRun - 1
  /\ steps' = steps + 1
  /\ UNCHANGED <<pc, repairing, step, attempt, transcript, tokens, kept, answer,
                 outcome, billed, asked>>

\* Mutant: the results are only sent back while the loop goes on asking.
ReportToolsForgets ==
  /\ pc = "tools" /\ toRun = 0
  /\ IF step < max_steps THEN pc' = "call" /\ UNCHANGED outcome
                         ELSE Conclude("MaxStepsExceeded")
  /\ UNCHANGED <<repairing, step, attempt, transcript, toRun, steps, tokens, kept, answer,
                 billed, asked>>

\* All ran: their results go back in one message, if a step is left.
ReportTools ==
  /\ pc = "tools" /\ toRun = 0
  /\ transcript' = Append(transcript, [role |-> "user",
                                       blocks |-> transcript[Len(transcript)].blocks])
  /\ IF step < max_steps THEN pc' = "call" /\ UNCHANGED outcome
                         ELSE Conclude("MaxStepsExceeded")
  /\ UNCHANGED <<repairing, step, attempt, toRun, steps, tokens, kept, answer, billed, asked>>

\* extract_json and validate: what becomes of the final text.
Judgement == IF answer.kind = "object" THEN Verdict(answer.raw) ELSE "ValueError"

\* Mutant: the first run's tokens are forgotten.
AcceptUnfolded ==
  /\ pc = "parse"
  /\ Judgement = "valid"
  /\ Conclude("rca")
  /\ UNCHANGED <<repairing, step, attempt, transcript, toRun, steps, tokens, kept, answer,
                 billed, asked>>

\* A valid RCA.  The repair's tokens are folded into the first run.
Accept ==
  /\ pc = "parse"
  /\ Judgement = "valid"
  /\ Conclude("rca")
  /\ tokens' = tokens + kept
  /\ UNCHANGED <<repairing, step, attempt, transcript, toRun, steps, kept, answer, billed, asked>>

\* Mutant: an invalid repair is repaired again.
RepairAgain ==
  /\ pc = "parse"
  /\ Judgement \in {"ValueError", "InvalidRCA"}
  /\ answer.kind # "empty"
  /\ pc' = "call" /\ repairing' = TRUE /\ step' = 0 /\ attempt' = 0
  /\ transcript' = Prompt
  /\ kept' = tokens /\ tokens' = 0
  /\ answer' = NoAnswer
  /\ UNCHANGED <<toRun, steps, outcome, billed, asked>>

\* Invalid for the first time, and not empty: one more run, with no tools.
Repair ==
  /\ pc = "parse"
  /\ Judgement \in {"ValueError", "InvalidRCA"}
  /\ ~repairing
  /\ answer.kind # "empty"
  /\ pc' = "call" /\ repairing' = TRUE /\ step' = 0 /\ attempt' = 0
  /\ transcript' = Prompt
  /\ kept' = tokens /\ tokens' = 0
  /\ answer' = NoAnswer
  /\ UNCHANGED <<toRun, steps, outcome, billed, asked>>

\* Mutant: only an answer with an object in it is thought worth repairing.
GiveUpOnProse ==
  /\ pc = "parse"
  /\ Judgement # "valid"
  /\ \/ repairing
     \/ Judgement \in {"TypeError", "ValueError"}
     \/ answer.kind = "empty"
  /\ Conclude(IF answer.kind = "empty" /\ ~repairing THEN "MaxStepsExceeded" ELSE "Exception")
  /\ UNCHANGED <<repairing, step, attempt, transcript, toRun, steps, tokens, kept, answer,
                 billed, asked>>

\* Nothing to repair, invalid again, or an exception validate() did not mean.
GiveUp ==
  /\ pc = "parse"
  /\ Judgement # "valid"
  /\ \/ repairing
     \/ Judgement = "TypeError"
     \/ answer.kind = "empty"
  /\ Conclude(IF answer.kind = "empty" /\ ~repairing THEN "MaxStepsExceeded" ELSE "Exception")
  /\ UNCHANGED <<repairing, step, attempt, transcript, toRun, steps, tokens, kept, answer,
                 billed, asked>>

LoopNext ==
  \/ Throttled
  \/ CallFails
  \/ \E cost \in TokenCounts :
        \/ \E uses \in 1..MaxToolUses : WantsTools(uses, cost)
        \/ \E a \in Answer, stop \in {"end_turn", "max_tokens"} : Answers(a, stop, cost)
  \/ \E status \in {"success", "error"} : RunTool(status)
  \/ ReportTools
  \/ Accept
  \/ Repair
  \/ GiveUp

LoopSpec == LoopInit /\ [][LoopNext]_loopVars /\ WF_loopVars(LoopNext)

-----------------------------------------------------------------------------
\* The accepted RCA is a safe proposal: it changes the target only for a defect
\* of the target's own, never while asking for a human, never without evidence,
\* and a rollback names the change at fault.
ProposalIsSafe ==
  outcome = "rca" /\ answer.raw.remediation # "none" =>
     /\ answer.raw.cause \in {"code_defect", "config", "capacity"}
     /\ ~answer.raw.needs_human
     /\ answer.raw.evidence
     /\ answer.raw.remediation = "alias_rollback" => answer.raw.suspect

\* The cost recorded with an RCA is the cost of every response paid for, the
\* first run's and the repair's ("so the metric stays honest").
CostIsHonest == outcome = "rca" => tokens = billed

\* The trace holds every tool call the model asked for, failed ones included.
TraceIsComplete == pc # "tools" => steps = asked

\* The types, and a trace to go with every answer: an operator who checks the
\* agent's reasoning is shown each call it made.
LoopInv == LoopTypeOK /\ TraceIsComplete

\* What is sent to the model is a legal conversation: it starts and ends with a
\* user message, roles alternate, and each tool use is answered right away.
ConversationIsLegal ==
  pc = "call" =>
    /\ transcript[1].role = "user" /\ transcript[Len(transcript)].role = "user"
    /\ \A k \in 1..(Len(transcript) - 1) :
         /\ transcript[k].role # transcript[k + 1].role
         /\ transcript[k].role = "assistant" => transcript[k + 1].blocks = transcript[k].blocks

\* An answer that is no valid RCA is sent back for repair before the
\* investigation is given up (validate: "or raise InvalidRCA with a message
\* specific enough for the model to repair itself"); only one that makes
\* validate() itself fail, an unhashable cause or remediation, is not.
InvalidAnswerIsRepaired ==
  outcome = "Exception" /\ ~repairing =>
     \/ answer.kind = "empty"
     \/ answer.kind = "object" /\ Unhashable(answer.raw)

\* Every investigation ends.
LoopEnds == <>(pc = "done")
=============================================================================
