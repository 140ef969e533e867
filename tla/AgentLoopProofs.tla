--------------------------- MODULE AgentLoopProofs ---------------------------
(***************************************************************************)
(* One investigation, proved for every set of answers the model may give   *)
(* and every limit on steps, attempts and tool calls: the conversation is  *)
(* legal, the trace complete, the cost honest, and what is accepted safe.  *)
(***************************************************************************)
EXTENDS AgentLoop, TLAPS

\* A conversation so far: it starts with a user message, roles alternate, and
\* each tool use but the last message's is answered right away.
Conversation(t) ==
  /\ Len(t) > 0
  /\ t[1].role = "user"
  /\ \A k \in 1..(Len(t) - 1) :
       /\ t[k].role # t[k + 1].role
       /\ t[k].role = "assistant" => t[k + 1].blocks = t[k].blocks

\* Whose turn it is.
Turns ==
  /\ pc = "call" => Conversation(transcript) /\ transcript[Len(transcript)].role = "user"
  /\ pc = "tools" => Conversation(transcript) /\ transcript[Len(transcript)].role = "assistant"

\* The counters: a call is only made with a step left, every tool use is run or
\* still to run, and every token is in the current run or the one before it.
Counts ==
  /\ pc = "call" => step < max_steps
  /\ steps + toRun = asked
  /\ pc # "tools" => toRun = 0
  /\ ~repairing => kept = 0
  /\ tokens + (IF outcome = "rca" THEN 0 ELSE kept) = billed

\* How far the answer has come: none before it is given, judged once accepted.
Progress ==
  /\ pc = "done" <=> outcome # "none"
  /\ pc \in {"call", "tools"} => answer = NoAnswer
  /\ outcome = "rca" => Judgement = "valid"

\* The inductive invariant of the loop.
LoopIInv == LoopTypeOK /\ Turns /\ Counts /\ Progress /\ InvalidAnswerIsRepaired

-----------------------------------------------------------------------------
(* The conversation *)

Message == [role : {"user", "assistant"}, blocks : 0..MaxToolUses]

LEMMA ConversationStarts == Prompt \in Seq(Message) /\ Conversation(Prompt)
                            /\ Prompt[Len(Prompt)].role = "user"
BY LoopAssumption DEF Prompt, Message, Conversation

\* The other party answers; a user message answers every tool use.
LEMMA ConversationGrows ==
  ASSUME NEW t \in Seq(Message), Conversation(t), NEW m \in Message,
         m.role # t[Len(t)].role,
         t[Len(t)].role = "assistant" => m.blocks = t[Len(t)].blocks
  PROVE  /\ Append(t, m) \in Seq(Message)
         /\ Conversation(Append(t, m))
         /\ Append(t, m)[Len(Append(t, m))] = m
<1>. DEFINE u == Append(t, m)
<1>1. /\ u \in Seq(Message) /\ Len(u) = Len(t) + 1 /\ Len(t) \in Nat
      /\ u[Len(u)] = m
      /\ \A k \in 1..Len(t) : u[k] = t[k]
  OBVIOUS
<1>. HIDE DEF u
<1>2. ASSUME NEW k \in 1..(Len(u) - 1)
      PROVE  /\ u[k].role # u[k + 1].role
             /\ u[k].role = "assistant" => u[k + 1].blocks = u[k].blocks
  <2>1. CASE k = Len(t) BY <1>1, <2>1
  <2>2. CASE k # Len(t)
    <3>1. k \in 1..(Len(t) - 1) /\ u[k] = t[k] /\ u[k + 1] = t[k + 1] BY <1>1, <2>2
    <3>. QED BY <3>1 DEF Conversation
  <2>. QED BY <2>1, <2>2
<1>3. Len(u) > 0 /\ u[1].role = "user" BY <1>1 DEF Conversation
<1>4. Conversation(u) BY <1>2, <1>3 DEF Conversation
<1>. QED BY <1>1, <1>4 DEF u

-----------------------------------------------------------------------------
(* The invariant *)

\* The parts of the type invariant the steps below change one by one.
LEMMA LoopTypes ==
  LoopTypeOK <=>
    /\ pc \in {"call", "tools", "parse", "done"} /\ repairing \in BOOLEAN
    /\ step \in 0..max_steps /\ attempt \in 0..(max_attempts - 1)
    /\ transcript \in Seq(Message)
    /\ toRun \in 0..MaxToolUses
    /\ steps \in Nat /\ tokens \in Nat /\ kept \in Nat /\ billed \in Nat /\ asked \in Nat
    /\ answer \in Answer \cup {NoAnswer} /\ outcome \in Outcomes
BY DEF LoopTypeOK, Message

LEMMA LoopStarts == LoopInit => LoopIInv
<1>. SUFFICES ASSUME LoopInit PROVE LoopIInv OBVIOUS
<1>1. LoopTypeOK
  <2>1. step \in 0..max_steps /\ attempt \in 0..(max_attempts - 1) /\ toRun \in 0..MaxToolUses
    BY LoopAssumption DEF LoopInit
  <2>2. transcript \in Seq(Message) BY ConversationStarts DEF LoopInit
  <2>. QED BY <2>1, <2>2, LoopTypes DEF LoopInit, Outcomes
<1>2. Turns BY ConversationStarts DEF LoopInit, Turns
<1>3. Counts BY LoopAssumption DEF LoopInit, Counts
<1>4. Progress /\ InvalidAnswerIsRepaired
  BY DEF LoopInit, Progress, InvalidAnswerIsRepaired
<1>. QED BY <1>1, <1>2, <1>3, <1>4 DEF LoopIInv

\* A response arrives: it is the assistant's turn, and it was the user's.
LEMMA ReceivedKeeps ==
  ASSUME LoopIInv, NEW uses \in 0..MaxToolUses, NEW cost \in TokenCounts, Received(uses, cost)
  PROVE  /\ transcript' \in Seq(Message) /\ Conversation(transcript')
         /\ transcript'[Len(transcript')].role = "assistant"
         /\ step' \in 0..max_steps /\ attempt' \in 0..(max_attempts - 1)
         /\ tokens' \in Nat /\ billed' \in Nat
         /\ outcome # "rca" /\ tokens' + kept = billed'
<1>. DEFINE m == [role |-> "assistant", blocks |-> uses]
<1>1. pc = "call" /\ transcript' = Append(transcript, m) BY DEF Received
<1>2. /\ transcript \in Seq(Message) /\ Conversation(transcript)
      /\ transcript[Len(transcript)].role = "user"
  BY <1>1, LoopTypes DEF LoopIInv, Turns
<1>3. m \in Message /\ m.role = "assistant" BY DEF Message
<1>. HIDE DEF m
<1>4. /\ transcript' \in Seq(Message) /\ Conversation(transcript')
      /\ transcript'[Len(transcript')] = m
  BY <1>1, <1>2, <1>3, ConversationGrows
<1>5. cost \in Nat BY LoopAssumption
<1>6. outcome = "none" BY <1>1, LoopTypes DEF LoopIInv, Progress
<1>7. step' \in 0..max_steps /\ attempt' \in 0..(max_attempts - 1)
  <2>1. step \in 0..max_steps BY LoopTypes DEF LoopIInv
  <2>2. step < max_steps BY <1>1 DEF LoopIInv, Counts
  <2>3. step' = step + 1 /\ attempt' = 0 BY DEF Received
  <2>. QED BY <2>1, <2>2, <2>3, LoopAssumption
<1>8. tokens' \in Nat /\ billed' \in Nat /\ tokens' + kept = billed'
  <2>1. tokens \in Nat /\ billed \in Nat /\ kept \in Nat BY LoopTypes DEF LoopIInv
  <2>2. tokens + kept = billed BY <1>6 DEF LoopIInv, Counts
  <2>. QED BY <1>5, <2>1, <2>2 DEF Received
<1>. QED BY <1>3, <1>4, <1>6, <1>7, <1>8

LEMMA LoopSteps == LoopIInv /\ [LoopNext]_loopVars => LoopIInv'
<1>. SUFFICES ASSUME LoopIInv, [LoopNext]_loopVars PROVE LoopIInv' OBVIOUS
<1>. USE DEF LoopIInv
<1>1. /\ pc \in {"call", "tools", "parse", "done"} /\ repairing \in BOOLEAN
      /\ step \in 0..max_steps /\ attempt \in 0..(max_attempts - 1)
      /\ transcript \in Seq(Message) /\ toRun \in 0..MaxToolUses
      /\ steps \in Nat /\ tokens \in Nat /\ kept \in Nat /\ billed \in Nat /\ asked \in Nat
      /\ answer \in Answer \cup {NoAnswer} /\ outcome \in Outcomes
  BY LoopTypes
<1>2. CASE Throttled
  <2>1. LoopTypeOK' BY <1>1, <1>2, LoopAssumption DEF Throttled, LoopTypeOK, Message
  <2>. QED BY <1>2, <2>1 DEF Throttled, Turns, Counts, Progress, Judgement, InvalidAnswerIsRepaired
<1>3. CASE CallFails
  <2>1. /\ pc = "call" /\ pc' = "done" /\ outcome' \in {"ModelAccessError", "Exception"}
        /\ UNCHANGED <<repairing, step, attempt, transcript, toRun, steps, tokens, kept,
                       answer, billed, asked>>
    BY <1>3 DEF CallFails, Conclude
  <2>2. LoopTypeOK' BY <1>1, <2>1 DEF LoopTypeOK, Message, Outcomes
  <2>3. Counts' BY <1>1, <2>1 DEF Counts, Progress
  <2>4. Progress' /\ InvalidAnswerIsRepaired'
    BY <2>1 DEF Progress, InvalidAnswerIsRepaired, NoAnswer
  <2>. QED BY <2>1, <2>2, <2>3, <2>4 DEF Turns
<1>4. ASSUME NEW cost \in TokenCounts, NEW uses \in 1..MaxToolUses, WantsTools(uses, cost)
      PROVE  LoopIInv'
  <2>1. Received(uses, cost) /\ uses \in 0..MaxToolUses BY <1>4, LoopAssumption DEF WantsTools
  <2>2. /\ pc = "call" /\ pc' = "tools" /\ toRun' = uses /\ asked' = asked + uses
        /\ ~repairing /\ UNCHANGED <<repairing, steps, kept, answer, outcome>>
    BY <1>4 DEF WantsTools, Received
  <2>3. LoopTypeOK'
    <3>1. asked' \in Nat /\ toRun' \in 0..MaxToolUses BY <1>1, <2>1, <2>2, LoopAssumption
    <3>. QED BY <1>1, <2>1, <2>2, <3>1, ReceivedKeeps DEF LoopTypeOK, Message
  <2>4. Turns' BY <2>1, <2>2, ReceivedKeeps DEF Turns
  <2>5. Counts' BY <1>1, <2>1, <2>2, ReceivedKeeps, LoopAssumption DEF Counts
  <2>6. Progress' /\ InvalidAnswerIsRepaired'
    BY <2>2 DEF Progress, InvalidAnswerIsRepaired
  <2>. QED BY <2>3, <2>4, <2>5, <2>6
<1>5. ASSUME NEW cost \in TokenCounts, NEW a \in Answer, NEW stop, Answers(a, stop, cost)
      PROVE  LoopIInv'
  <2>1. Received(0, cost) /\ 0 \in 0..MaxToolUses BY <1>5, LoopAssumption DEF Answers
  <2>2. /\ pc = "call" /\ answer' = a
        /\ \/ pc' = "done" /\ outcome' = "MaxStepsExceeded"
           \/ pc' = "parse" /\ outcome' = outcome
        /\ UNCHANGED <<repairing, toRun, steps, kept, asked>>
    BY <1>5 DEF Answers, Received, Conclude
  <2>3. LoopTypeOK'
    BY <1>1, <2>1, <2>2, ReceivedKeeps DEF LoopTypeOK, Message, Outcomes
  <2>4. Turns' BY <2>2 DEF Turns
  <2>5. Counts' BY <1>1, <2>1, <2>2, ReceivedKeeps DEF Counts
  <2>6. Progress' /\ InvalidAnswerIsRepaired'
    BY <2>2 DEF Progress, InvalidAnswerIsRepaired
  <2>. QED BY <2>3, <2>4, <2>5, <2>6
<1>6. ASSUME NEW status, RunTool(status) PROVE LoopIInv'
  <2>1. LoopTypeOK'
    <3>1. steps' \in Nat /\ toRun' \in 0..MaxToolUses BY <1>1, <1>6, LoopAssumption DEF RunTool
    <3>. QED BY <1>1, <1>6, <3>1 DEF RunTool, LoopTypeOK, Message
  <2>2. Turns' BY <1>6 DEF RunTool, Turns
  <2>3. Counts' BY <1>1, <1>6 DEF RunTool, Counts
  <2>4. Progress' /\ InvalidAnswerIsRepaired'
    BY <1>6 DEF RunTool, Progress, Judgement, InvalidAnswerIsRepaired
  <2>. QED BY <2>1, <2>2, <2>3, <2>4
<1>7. CASE ReportTools
  <2>. DEFINE last == transcript[Len(transcript)]
              m    == [role |-> "user", blocks |-> last.blocks]
  <2>1. /\ pc = "tools" /\ transcript' = Append(transcript, m)
        /\ \/ step < max_steps /\ pc' = "call" /\ outcome' = outcome
           \/ pc' = "done" /\ outcome' = "MaxStepsExceeded"
        /\ UNCHANGED <<repairing, step, attempt, toRun, steps, tokens, kept, answer, billed, asked>>
        /\ toRun = 0
    BY <1>7 DEF ReportTools, Conclude
  <2>2. Conversation(transcript) /\ last.role = "assistant" BY <2>1 DEF Turns
  <2>3. last \in Message BY <1>1, <2>2 DEF Conversation
  <2>4. m \in Message /\ m.role = "user" /\ m.blocks = last.blocks BY <2>3 DEF Message
  <2>. HIDE DEF m
  <2>5. /\ transcript' \in Seq(Message) /\ Conversation(transcript')
        /\ transcript'[Len(transcript')] = m
    BY <1>1, <2>1, <2>2, <2>4, ConversationGrows
  <2>6. LoopTypeOK' BY <1>1, <2>1, <2>5 DEF LoopTypeOK, Message, Outcomes
  <2>7. Turns' BY <2>1, <2>4, <2>5 DEF Turns
  <2>8. Counts' BY <1>1, <2>1 DEF Counts, Progress
  <2>9. Progress' /\ InvalidAnswerIsRepaired'
    BY <2>1 DEF Progress, Judgement, InvalidAnswerIsRepaired
  <2>. QED BY <2>6, <2>7, <2>8, <2>9
<1>8. CASE Accept
  <2>1. /\ pc = "parse" /\ pc' = "done" /\ outcome' = "rca" /\ tokens' = tokens + kept
        /\ Judgement = "valid"
        /\ UNCHANGED <<repairing, step, attempt, transcript, toRun, steps, kept, answer,
                       billed, asked>>
    BY <1>8 DEF Accept, Conclude
  <2>2. LoopTypeOK' BY <1>1, <2>1 DEF LoopTypeOK, Message, Outcomes
  <2>3. Counts' BY <1>1, <2>1 DEF Counts, Progress
  <2>4. Progress' /\ InvalidAnswerIsRepaired'
    BY <2>1 DEF Progress, Judgement, InvalidAnswerIsRepaired
  <2>. QED BY <2>1, <2>2, <2>3, <2>4 DEF Turns
<1>9. CASE Repair
  <2>1. /\ pc = "parse" /\ pc' = "call" /\ step' = 0 /\ attempt' = 0
        /\ repairing' = TRUE /\ ~repairing /\ transcript' = Prompt
        /\ kept' = tokens /\ tokens' = 0 /\ answer' = NoAnswer
        /\ UNCHANGED <<toRun, steps, outcome, billed, asked>>
    BY <1>9 DEF Repair
  <2>2. LoopTypeOK'
    BY <1>1, <2>1, ConversationStarts, LoopAssumption DEF LoopTypeOK, Message
  <2>3. Turns' BY <2>1, ConversationStarts DEF Turns
  <2>4. Counts' BY <1>1, <2>1, LoopAssumption DEF Counts, Progress
  <2>5. Progress' /\ InvalidAnswerIsRepaired'
    BY <2>1 DEF Progress, InvalidAnswerIsRepaired
  <2>. QED BY <2>2, <2>3, <2>4, <2>5
<1>10. CASE GiveUp
  <2>1. /\ pc = "parse" /\ pc' = "done" /\ outcome' \in {"MaxStepsExceeded", "Exception"}
        /\ UNCHANGED <<repairing, step, attempt, transcript, toRun, steps, tokens, kept, answer,
                       billed, asked>>
    BY <1>10 DEF GiveUp, Conclude
  <2>2. LoopTypeOK' BY <1>1, <2>1 DEF LoopTypeOK, Message, Outcomes
  <2>3. Counts' BY <1>1, <2>1 DEF Counts, Progress
  <2>4. Progress' BY <2>1 DEF Progress
  <2>5. InvalidAnswerIsRepaired'
    BY <1>10, <2>1 DEF GiveUp, Judgement, Verdict, InvalidAnswerIsRepaired
  <2>. QED BY <2>1, <2>2, <2>3, <2>4, <2>5 DEF Turns
<1>11. CASE UNCHANGED loopVars
  BY <1>11 DEF loopVars, LoopTypeOK, Turns, Counts, Progress, Judgement, InvalidAnswerIsRepaired
<1>. QED BY <1>2, <1>3, <1>4, <1>5, <1>6, <1>7, <1>8, <1>9, <1>10, <1>11 DEF LoopNext

\* At every step of run_agent and _run_investigation, the repair included, the
\* transcript, the counters and the judgement fit together.
THEOREM LoopInvariant == LoopSpec => []LoopIInv
BY LoopStarts, LoopSteps, PTL DEF LoopSpec

-----------------------------------------------------------------------------
(* What it gives *)

\* The trace shown with an answer holds every tool call the model asked for,
\* failed ones included (run.steps), however many it asked for at once.
THEOREM TraceHoldsEveryCall == LoopSpec => []LoopInv
<1>1. LoopIInv => LoopInv
  <2>. SUFFICES ASSUME LoopIInv PROVE LoopInv OBVIOUS
  <2>1. pc # "tools" => steps = asked
    BY LoopTypes DEF LoopIInv, Counts
  <2>. QED BY <2>1 DEF LoopIInv, LoopInv, TraceIsComplete
<1>. QED BY <1>1, LoopInvariant, PTL

\* The cost recorded with an RCA is the cost of every response, in the first run
\* and in the repair ("so the metric stays honest").
THEOREM CostCountsEveryResponse == LoopSpec => []CostIsHonest
<1>1. LoopIInv => CostIsHonest BY LoopTypes DEF LoopIInv, Counts, CostIsHonest
<1>. QED BY <1>1, LoopInvariant, PTL

\* Each request to the model (_converse) is a legal conversation: roles
\* alternate and no toolUse goes without its toolResult, even after failed tools
\* and in the repair.
THEOREM RequestsAreLegal == LoopSpec => []ConversationIsLegal
<1>1. LoopIInv => ConversationIsLegal
  BY DEF LoopIInv, Turns, Conversation, ConversationIsLegal
<1>. QED BY <1>1, LoopInvariant, PTL

\* No answer that is merely invalid is given up without a repair.
THEOREM InvalidAnswersAreRepaired == LoopSpec => []InvalidAnswerIsRepaired
<1>1. LoopIInv => InvalidAnswerIsRepaired BY DEF LoopIInv
<1>. QED BY <1>1, LoopInvariant, PTL

\* What validate() lets through, whatever fields the model sends: an action is
\* proposed for a defect of the target's own only, with evidence, without
\* asking for a human, and a rollback names a suspect.
LEMMA ValidIsSafe ==
  ASSUME NEW raw, Verdict(raw) = "valid", raw.remediation # "none"
  PROVE  /\ raw.cause \in {"code_defect", "config", "capacity"}
         /\ ~raw.needs_human
         /\ raw.evidence
         /\ raw.remediation = "alias_rollback" => raw.suspect
<1>1. Errors(raw) = {} BY DEF Verdict
<1>2. raw.cause \in RootCause BY <1>1 DEF Errors
<1>3. ~raw.needs_human BY <1>1 DEF Errors
<1>4. raw.cause # "unknown" BY <1>1, <1>3 DEF Errors
<1>5. raw.cause \notin {"load", "external"} BY <1>1 DEF Errors
<1>6. raw.evidence BY <1>1 DEF Errors
<1>7. raw.remediation = "alias_rollback" => raw.suspect BY <1>1 DEF Errors
<1>. QED BY <1>2, <1>3, <1>4, <1>5, <1>6, <1>7 DEF RootCause

\* An investigation that ends with an RCA ends with a safe proposal, in whichever
\* run the model gave it.
THEOREM AcceptedIsSafe == LoopSpec => []ProposalIsSafe
<1>1. LoopIInv => ProposalIsSafe
  <2>. SUFFICES ASSUME LoopIInv, outcome = "rca", answer.raw.remediation # "none"
                PROVE  ProposalIsSafe
    BY DEF ProposalIsSafe
  <2>1. Verdict(answer.raw) = "valid" BY DEF LoopIInv, Progress, Judgement
  <2>. QED BY <2>1, ValidIsSafe DEF ProposalIsSafe
<1>. QED BY <1>1, LoopInvariant, PTL
=============================================================================
