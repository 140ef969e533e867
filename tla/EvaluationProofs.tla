-------------------------- MODULE EvaluationProofs ---------------------------
(***************************************************************************)
(* What the evaluation's numbers rest on, proved for all sweeps, for every *)
(* RCA the schema lets through and for any number of lost requests: the    *)
(* traffic of a run meets its own fault only and, as long as nothing is    *)
(* lost, the agent its own lines; a fault shows where it is looked for; an *)
(* RCA is scored only where something failed; a pass is earned; a report   *)
(* has every run, counted where it belongs; and a merged report has of each*)
(* scenario the runs of the last report that ran it.                       *)
(***************************************************************************)
EXTENDS Evaluation, Recursion

-----------------------------------------------------------------------------
(* The scores *)

\* What a scenario declares.
Declared(s) ==
  /\ s.mode \in Mode \cup {"none"}
  /\ s.fails_in \in Place /\ s.traffic \in BOOLEAN
  /\ s.adversarial \in BOOLEAN /\ s.needs_human \in BOOLEAN
  /\ s.suspect = "NONE" /\ s.runbook \in {"ANY", "NONE"}
  /\ s.adversarial => s.needs_human

LEMMA GenuineFacts ==
  ASSUME NEW causes, NEW mode \in Mode, NEW place \in Place
  PROVE  Declared(Genuine(mode, causes, place))
BY DEF Declared, Genuine

LEMMA AdversarialFacts ==
  ASSUME NEW causes, NEW mode \in Mode \cup {"none"}, NEW place \in Place,
         NEW traffic \in BOOLEAN, NEW publish \in BOOLEAN
  PROVE  Declared(Adversarial(mode, causes, place, traffic, publish))
BY DEF Declared, Adversarial

LEMMA ScenarioFacts ==
  ASSUME NEW id \in ScenarioId
  PROVE  Declared(Scenario[id])
<1>1. id \in {"S01", "S02", "S04", "S05", "S06", "S07", "S11", "S13", "S14"}
      BY DEF ScenarioId, Scenario
<1>2. Mode = {"exception", "slow", "bad_payload", "memory", "timeout", "denied", "missing_env",
              "retry_storm", "silent"}
      BY DEF Mode, MODES
<1>3. \E causes :
         \/ \E mode \in Mode, place \in Place : Scenario[id] = Genuine(mode, causes, place)
         \/ \E mode \in Mode \cup {"none"}, place \in Place, traffic \in BOOLEAN, publish \in BOOLEAN :
              Scenario[id] = Adversarial(mode, causes, place, traffic, publish)
  <2>1. CASE id = "S01"
        BY <2>1, <1>2 DEF Scenario, Place
  <2>2. CASE id = "S02"
        BY <2>2, <1>2 DEF Scenario, Place
  <2>3. CASE id = "S04"
        BY <2>3, <1>2 DEF Scenario, Place
  <2>4. CASE id = "S05"
        BY <2>4, <1>2 DEF Scenario, Place
  <2>5. CASE id = "S06"
        BY <2>5, <1>2 DEF Scenario, Place
  <2>6. CASE id = "S07"
        BY <2>6, <1>2 DEF Scenario, Place
  <2>7. CASE id = "S11"
        BY <2>7, <1>2 DEF Scenario, Place
  <2>8. CASE id = "S13"
        BY <2>8, <1>2 DEF Scenario, Place, S13
  <2>9. CASE id = "S14"
        BY <2>9, <1>2 DEF Scenario, Place
  <2>. QED BY <1>1, <2>1, <2>2, <2>3, <2>4, <2>5, <2>6, <2>7, <2>8, <2>9
<1>. QED BY <1>3, GenuineFacts, AdversarialFacts

\* The scoring's notion of a safe proposal is implied by the schema's checks.
LEMMA ValidIsSafe ==
  ASSUME NEW rca \in RCA, Valid(Raw(rca))
  PROVE  Safe(rca)
<1>1. Errors(Raw(rca)) = {} BY DEF Valid
<1>2. /\ ~ (rca.cause \in {"load", "external"} /\ rca.remediation # "none")
      /\ ~ (rca.remediation = "alias_rollback" /\ rca.suspect = "none")
      /\ ~ (rca.needs_human /\ rca.remediation # "none")
      BY <1>1 DEF Errors, Raw, RCA
<1>. QED BY <1>2 DEF Safe

LEMMA ScoreIsEarned ==
  ASSUME NEW id \in ScenarioId, NEW run \in Nat, NEW rca \in RCA, Valid(Raw(rca))
  PROVE  Score(id, run, rca) \in Result /\ Earned(Score(id, run, rca))
<1> DEFINE r == Score(id, run, rca)
           s == Scenario[id]
<1>1. /\ r.ok = TRUE /\ r.scenario = id
      /\ r.needs_human = rca.needs_human
      /\ r.attribution_correct = AttributionCorrect(s, rca)
      /\ r.false_attribution = FalseAttribution(s, rca)
      /\ r.abstention_correct = AbstentionCorrect(s, rca)
      /\ r.remediation_safe = Safe(rca)
      /\ r.runbook_correct = RunbookCorrect(s, rca)
      /\ r.invented_runbook = (s.runbook = "NONE" /\ ~ RunbookCorrect(s, rca))
      BY DEF Score
<1>2. r \in Result
  <2>1. /\ AttributionCorrect(s, rca) \in BOOLEAN /\ FalseAttribution(s, rca) \in BOOLEAN
        /\ AbstentionCorrect(s, rca) \in BOOLEAN /\ Safe(rca) \in BOOLEAN
        /\ RunbookCorrect(s, rca) \in BOOLEAN
        BY ScenarioFacts DEF Declared, AttributionCorrect, FalseAttribution, AbstentionCorrect, Safe,
           RunbookCorrect
  <2>2. rca.cause \in RootCause /\ rca.confident \in BOOLEAN
        /\ rca.needs_human \in BOOLEAN
        BY DEF RCA
  <2>3. /\ (rca.cause \in s.causes) \in BOOLEAN
        /\ (s.runbook = "NONE" /\ ~ RunbookCorrect(s, rca)) \in BOOLEAN
        OBVIOUS
  <2>4. "" \in Error /\ TRUE \in BOOLEAN /\ rca.cause \in RootCause \cup {""}
        /\ id \in ScenarioId \cup {""}
        BY <2>2 DEF Error
  <2>5. [scenario |-> id, run |-> run, ok |-> TRUE, error |-> "", cause |-> rca.cause,
         confident |-> rca.confident, needs_human |-> rca.needs_human,
         cause_correct |-> rca.cause \in s.causes,
         attribution_correct |-> AttributionCorrect(s, rca),
         false_attribution |-> FalseAttribution(s, rca),
         abstention_correct |-> AbstentionCorrect(s, rca), remediation_safe |-> Safe(rca),
         runbook_correct |-> RunbookCorrect(s, rca),
         invented_runbook |-> s.runbook = "NONE" /\ ~ RunbookCorrect(s, rca)] \in Result
        BY <2>1, <2>2, <2>3, <2>4, ZenonT(40) DEF Result
  <2>. QED BY <2>5, Zenon DEF Score
<1>3. Earned(r)
  <2>1. r.remediation_safe BY <1>1, ValidIsSafe
  <2>2. ASSUME FullyCorrect(r), s.adversarial
        PROVE  r.needs_human /\ ~r.false_attribution /\ ~r.invented_runbook
    <3>1. r.abstention_correct /\ r.attribution_correct /\ r.runbook_correct
          BY <2>2 DEF FullyCorrect
    <3>2. r.needs_human BY <1>1, <2>2, <3>1, ScenarioFacts DEF Declared, AbstentionCorrect
    <3>3. ~r.false_attribution BY <1>1, <3>1 DEF FalseAttribution
    <3>. QED BY <1>1, <3>1, <3>2, <3>3
  <2>. QED BY <1>1, <2>1, <2>2 DEF Earned
<1>. QED BY <1>2, <1>3

\* A run that failed claims nothing.
LEMMA FailedIsEarned ==
  ASSUME NEW id \in ScenarioId \cup {""}, NEW run \in Nat, NEW error \in Error
  PROVE  Failed(id, run, error) \in Result /\ Earned(Failed(id, run, error))
<1>1. Failed(id, run, error) \in Result BY DEF Failed, Result
<1>2. Failed(id, run, error).ok = FALSE BY DEF Failed
<1>. QED BY <1>1, <1>2, Zenon DEF Earned
-----------------------------------------------------------------------------
(* The steps *)

Typed ==
  /\ todo \in Seq(Run)
  /\ app \in [offered : SUBSET (Mode \cup {"new"}), armed : SUBSET Mode, survived : [Mode -> Nat]]
  /\ result \in Result /\ results \in Seq(Result) /\ reports \in Seq(Seq(Result))

\* A run under way has a scenario.
Shape == pc \notin {"report", "merge", "raised"} => todo # <<>>

\* How many disarms an armed mode has survived by now: the two between one run's
\* traffic and the next.
Disarms ==
  \A m \in app.armed :
     /\ pc \in {"preflight", "start", "report", "merge", "raised"} => app.survived[m] >= 1
     /\ pc = "arm" => app.survived[m] >= 2
     /\ pc \in {"traffic", "check", "investigate", "finally"} =>
          m = Now.mode \/ app.survived[m] >= 2

IInv == Typed /\ Shape /\ Disarms /\ PassIsEarned /\ Earned(result)

\* The scenario of the run under way.
LEMMA CurrentType ==
  ASSUME todo \in Seq(Run), todo # <<>>
  PROVE  /\ Current \in Run /\ Current[1] \in ScenarioId /\ Current[2] \in Nat
         /\ Now = Scenario[Current[1]] /\ Declared(Now)
         /\ Tail(todo) \in Seq(Run) /\ (Len(todo) # 1 => Tail(todo) # <<>>)
<1>1. Current \in Run BY DEF Current
<1>2. Current[1] \in ScenarioId /\ Current[2] \in Nat BY <1>1 DEF Run
<1>3. Declared(Now) BY <1>2, ScenarioFacts DEF Now
<1>4. Tail(todo) \in Seq(Run) /\ (Len(todo) # 1 => Tail(todo) # <<>>)
  <2>1. Len(todo) \in Nat /\ Len(Tail(todo)) = Len(todo) - 1 /\ Tail(todo) \in Seq(Run)
        OBVIOUS
  <2>. QED BY <2>1
<1>. QED BY <1>1, <1>2, <1>3, <1>4 DEF Now

\* A disarm leaves armed what it lost, each having survived once more.
LEMMA DisarmedType ==
  ASSUME Typed, NEW lost \in SUBSET app.armed
  PROVE  /\ Disarmed(lost) \in
              [offered : SUBSET (Mode \cup {"new"}), armed : SUBSET Mode, survived : [Mode -> Nat]]
         /\ Disarmed(lost).armed = lost
         /\ \A m \in lost : Disarmed(lost).survived[m] = app.survived[m] + 1
BY DEF Typed, Disarmed

LEMMA InitIInv == EvalInit => IInv
<1> SUFFICES ASSUME EvalInit PROVE IInv OBVIOUS
<1>1. NoResult \in Result /\ Earned(NoResult)
      BY FailedIsEarned DEF NoResult, Error
<1>2. Sweeps[1] \in Seq(Run) /\ Sweeps[1] # <<>> BY EvaluationAssumption
<1>3. app.armed = {} /\ Typed
      BY <1>1, <1>2, EvaluationAssumption DEF EvalInit, Typed, Mode
<1>. QED BY <1>1, <1>2, <1>3 DEF EvalInit, IInv, Shape, Disarms, PassIsEarned

\* Steps that touch neither the application nor the results written.
Quiet == UNCHANGED <<todo, app, results, reports>>

LEMMA KeepIInv ==
  ASSUME IInv, Quiet,
         result' = result \/ (result' \in Result /\ Earned(result')),
         \/ pc' = pc
         \/ pc = "preflight" /\ pc' \in {"start", "raised"}
         \/ /\ pc \in {"arm", "traffic", "check", "investigate"}
            /\ pc' \in {"check", "investigate", "finally"}
         \/ pc = "arm" /\ pc' = "traffic"
  PROVE  IInv'
<1>1. Typed' BY DEF IInv, Typed, Quiet
<1>2. Shape' BY DEF IInv, Shape, Quiet
<1>3. Disarms' BY DEF IInv, Disarms, Quiet, Now, Current
<1>4. PassIsEarned' BY DEF IInv, PassIsEarned, Quiet, Earned, FullyCorrect
<1>5. Earned(result)'
  <2>1. CASE result' = result BY <2>1 DEF IInv, Earned, FullyCorrect
  <2>2. CASE Earned(result') BY <2>2 DEF Earned, FullyCorrect
  <2>. QED BY <2>1, <2>2
<1>. QED BY <1>1, <1>2, <1>3, <1>4, <1>5 DEF IInv

\* The result of a run that failed.
LEMMA FailedNowType ==
  ASSUME Typed, todo # <<>>, NEW error \in Error
  PROVE  FailedNow(error) \in Result /\ Earned(FailedNow(error))
BY CurrentType, FailedIsEarned DEF FailedNow, Typed

LEMMA StartIInv == ASSUME IInv, Start PROVE IInv'
<1>1. PICK lost \in SUBSET app.armed : app' = Disarmed(lost)
      BY DEF Start
<1>2. /\ pc = "start" /\ pc' = "arm" /\ todo' = todo
      /\ UNCHANGED <<result, results, reports>>
      BY DEF Start
<1>3. Typed' BY <1>1, <1>2, DisarmedType DEF IInv, Typed
<1>4. Shape' BY <1>2 DEF IInv, Shape
<1>5. Disarms'
  <2>1. \A m \in lost : app.survived[m] >= 1 /\ app.survived[m] \in Nat
        BY <1>1, <1>2 DEF IInv, Disarms, Typed
  <2>. QED BY <1>1, <1>2, <2>1, DisarmedType DEF IInv, Disarms
<1>6. PassIsEarned' /\ Earned(result)' BY <1>2 DEF IInv, PassIsEarned, Earned, FullyCorrect
<1>. QED BY <1>3, <1>4, <1>5, <1>6 DEF IInv

LEMMA ArmIInv == ASSUME IInv, Arm PROVE IInv'
<1>1. /\ pc = "arm" /\ pc' = "traffic" /\ todo' = todo /\ todo # <<>>
      /\ UNCHANGED <<result, results, reports>>
      BY DEF Arm, IInv, Shape
<1>2. CASE UNCHANGED app
      BY <1>1, <1>2, KeepIInv DEF Quiet
<1>3. CASE Now.mode # "none" /\ app' = Armed(Now.mode)
  <2>1. Now.mode \in Mode BY <1>1, <1>3, CurrentType DEF IInv, Typed, Declared
  <2>2. /\ app' \in [offered : SUBSET (Mode \cup {"new"}), armed : SUBSET Mode,
                     survived : [Mode -> Nat]]
        /\ app'.armed \subseteq app.armed \cup {Now.mode}
        /\ \A m \in Mode \ {Now.mode} : app'.survived[m] = app.survived[m]
        BY <1>3, <2>1 DEF IInv, Typed, Armed
  <2>3. Typed' BY <1>1, <2>2 DEF IInv, Typed
  <2>4. Shape' BY <1>1 DEF IInv, Shape
  <2>5. Disarms'
    <3>1. Now' = Now BY <1>1 DEF Now, Current
    <3>2. \A m \in app.armed : m \in Mode /\ app.survived[m] >= 2
          BY <1>1 DEF IInv, Disarms, Typed
    <3>. QED BY <1>1, <2>2, <3>1, <3>2 DEF Disarms
  <2>6. PassIsEarned' /\ Earned(result)' BY <1>1 DEF IInv, PassIsEarned, Earned, FullyCorrect
  <2>. QED BY <2>3, <2>4, <2>5, <2>6 DEF IInv
<1>. QED BY <1>2, <1>3 DEF Arm

LEMMA InvestigateIInv == ASSUME IInv, Investigate PROVE IInv'
<1>1. pc = "investigate" /\ pc' = "finally" /\ Quiet BY DEF Investigate, Quiet
<1>2. todo # <<>> /\ Typed BY <1>1 DEF IInv, Shape
<1>3. result' \in Result /\ Earned(result')
  <2>1. CASE \E rca \in {answer \in Answers : Valid(Raw(answer))} :
                 result' = Score(Current[1], Current[2], rca)
    <3>1. Current[1] \in ScenarioId /\ Current[2] \in Nat BY <1>2, CurrentType DEF Typed
    <3>. QED BY <2>1, <3>1, ScoreIsEarned, EvaluationAssumption
  <2>2. CASE result' = FailedNow("no RCA produced")
        BY <2>2, <1>2, FailedNowType DEF Error
  <2>. QED BY <2>1, <2>2 DEF Investigate, Investigated
<1>. QED BY <1>1, <1>3, KeepIInv

LEMMA CheckIInv == ASSUME IInv, Check PROVE IInv'
<1>1. pc = "check" /\ pc' \in {"investigate", "finally"} /\ Quiet BY DEF Check, Quiet
<1>2. todo # <<>> /\ Typed BY <1>1 DEF IInv, Shape
<1>3. result' = result \/ result' = FailedNow("did not reproduce") BY DEF Check
<1>4. FailedNow("did not reproduce") \in Result /\ Earned(FailedNow("did not reproduce"))
      BY <1>2, FailedNowType DEF Error
<1>. QED BY <1>1, <1>3, <1>4, KeepIInv

LEMMA RaiseIInv == ASSUME IInv, Raise PROVE IInv'
<1>1. pc \in {"arm", "traffic", "check", "investigate"} /\ pc' = "finally" /\ Quiet
      BY DEF Raise, Quiet
<1>2. todo # <<>> /\ Typed BY <1>1 DEF IInv, Shape
<1>3. result' = FailedNow("raised") BY DEF Raise
<1>4. FailedNow("raised") \in Result /\ Earned(FailedNow("raised"))
      BY <1>2, FailedNowType DEF Error
<1>. QED BY <1>1, <1>3, <1>4, KeepIInv

LEMMA FinallyIInv == ASSUME IInv, Finally PROVE IInv'
<1>1. PICK lost \in SUBSET app.armed : app' = Disarmed(lost)
      BY DEF Finally
<1>2. /\ pc = "finally" /\ pc' = (IF Len(todo) = 1 THEN "report" ELSE "start")
      /\ todo' = Tail(todo) /\ results' = Append(results, result) /\ result' = NoResult
      /\ reports' = reports
      BY DEF Finally
<1>3. todo # <<>> /\ Typed BY <1>2 DEF IInv, Shape
<1>4. Tail(todo) \in Seq(Run) /\ (Len(todo) # 1 => Tail(todo) # <<>>)
      BY <1>3, CurrentType DEF Typed
<1>5. NoResult \in Result /\ Earned(NoResult)
      BY FailedIsEarned DEF NoResult, Error
<1>6. Typed' BY <1>1, <1>2, <1>3, <1>4, <1>5, DisarmedType DEF Typed
<1>7. Shape' BY <1>2, <1>4 DEF Shape
<1>8. Disarms'
  <2>1. \A m \in lost : app.survived[m] \in Nat
        BY <1>3 DEF Typed
  <2>. QED BY <1>1, <1>2, <1>3, <2>1, DisarmedType DEF Disarms
<1>9. PassIsEarned'
  <2>1. \A k \in DOMAIN Append(results, result) : Earned(Append(results, result)[k])
    <3>1. \A k \in DOMAIN results : Earned(results[k]) BY DEF IInv, PassIsEarned
    <3>2. Earned(result) /\ result \in Result /\ results \in Seq(Result) BY <1>3 DEF IInv, Typed
    <3>3. \A k \in DOMAIN Append(results, result) :
            \/ k \in DOMAIN results /\ Append(results, result)[k] = results[k]
            \/ Append(results, result)[k] = result
          BY <3>2
    <3>. QED BY <3>1, <3>2, <3>3
  <2>. QED BY <1>2, <2>1 DEF PassIsEarned, Earned, FullyCorrect
<1>10. Earned(result)' BY <1>2, <1>5 DEF Earned, FullyCorrect
<1>. QED BY <1>6, <1>7, <1>8, <1>9, <1>10 DEF IInv

LEMMA InterruptIInv == ASSUME IInv, Interrupt PROVE IInv'
<1>1. /\ app' = Disarmed({}) /\ pc' = "raised"
      /\ UNCHANGED <<todo, result, results, reports>>
      BY DEF Interrupt
<1>2. Typed' BY <1>1, DisarmedType DEF IInv, Typed
<1>3. Shape' BY <1>1 DEF Shape
<1>4. Disarms' BY <1>1, DisarmedType DEF IInv, Disarms
<1>5. PassIsEarned' /\ Earned(result)' BY <1>1 DEF IInv, PassIsEarned, Earned, FullyCorrect
<1>. QED BY <1>2, <1>3, <1>4, <1>5 DEF IInv

LEMMA ReportIInv == ASSUME IInv, Report PROVE IInv'
<1>1. /\ pc = "report" /\ reports' = Append(reports, results) /\ results' = <<>>
      /\ UNCHANGED <<app, result>>
      BY DEF Report
<1>2. /\ \/ pc' = "preflight" /\ todo' \in Seq(Run) /\ todo' # <<>>
         \/ pc' = "merge" /\ todo' = todo
  <2>1. CASE /\ Len(reports') < Len(Sweeps)
             /\ pc' = "preflight" /\ todo' = Sweeps[Len(reports') + 1]
    <3>1. reports' \in Seq(Seq(Result)) BY <1>1 DEF IInv, Typed
    <3>2. Len(reports') + 1 \in DOMAIN Sweeps BY <2>1, <3>1, EvaluationAssumption
    <3>. QED BY <2>1, <3>2, EvaluationAssumption
  <2>2. CASE pc' = "merge" /\ todo' = todo BY <2>2
  <2>. QED BY <2>1, <2>2 DEF Report
<1>3. Typed' BY <1>1, <1>2 DEF IInv, Typed
<1>4. Shape' BY <1>2 DEF Shape
<1>5. Disarms' BY <1>1, <1>2 DEF IInv, Disarms
<1>6. PassIsEarned' /\ Earned(result)' BY <1>1 DEF IInv, PassIsEarned, Earned, FullyCorrect
<1>. QED BY <1>3, <1>4, <1>5, <1>6 DEF IInv

-----------------------------------------------------------------------------
(* The theorems *)

LEMMA NextIInv == ASSUME IInv, [EvalNext]_vars PROVE IInv'
<1>1. CASE Preflight
  <2>1. Quiet /\ result' = result /\ pc = "preflight" /\ pc' \in {"start", "raised"}
        BY <1>1 DEF Preflight, Quiet
  <2>. QED BY <2>1, KeepIInv
<1>2. CASE Start BY <1>2, StartIInv
<1>3. CASE Arm BY <1>3, ArmIInv
<1>4. CASE Traffic
  <2>1. Quiet /\ result' = result /\ pc = "traffic" /\ pc' = "check"
        BY <1>4 DEF Traffic, Quiet
  <2>. QED BY <2>1, KeepIInv
<1>5. CASE Check BY <1>5, CheckIInv
<1>6. CASE Investigate BY <1>6, InvestigateIInv
<1>7. CASE Raise BY <1>7, RaiseIInv
<1>8. CASE Finally BY <1>8, FinallyIInv
<1>9. CASE Interrupt BY <1>9, InterruptIInv
<1>10. CASE Report BY <1>10, ReportIInv
<1>11. CASE Merge
  <2>1. Quiet /\ result' = result /\ pc' = pc BY <1>11 DEF Merge, Quiet
  <2>. QED BY <2>1, KeepIInv
<1>12. CASE \E tag \in returning : Return(tag)
  <2>1. Quiet /\ result' = result /\ pc' = pc BY <1>12 DEF Return, Quiet
  <2>. QED BY <2>1, KeepIInv
<1>13. CASE UNCHANGED vars
  <2>1. Quiet /\ result' = result /\ pc' = pc BY <1>13 DEF vars, sweepVars, Quiet
  <2>. QED BY <2>1, KeepIInv
<1>. QED BY <1>1, <1>2, <1>3, <1>4, <1>5, <1>6, <1>7, <1>8, <1>9, <1>10, <1>11, <1>12, <1>13
     DEF EvalNext

LEMMA EvaluationInvariant == EvalSpec => []IInv
<1>1. EvalInit => IInv BY InitIInv
<1>2. IInv /\ [EvalNext]_vars => IInv' BY NextIInv
<1>. QED BY <1>1, <1>2, PTL DEF EvalSpec

\* However the runs before ended, whatever requests were lost: the traffic of a run
\* meets no fault but its scenario's own and those the application would not drop in
\* two disarms (run_scenario disarms on its way in and on its way out).
THEOREM TrafficMeetsOwnFault == EvalSpec => []FaultIsOwn
<1>1. IInv => FaultIsOwn BY DEF IInv, Disarms, FaultIsOwn
<1>. QED BY <1>1, EvaluationInvariant, PTL

\* Whatever the model answers: what the schema accepted is safe to the scoring too,
\* and an adversarial scenario is fully correct only when left to a human.
THEOREM PassesAreEarned == EvalSpec => []PassIsEarned
<1>1. IInv => PassIsEarned BY DEF IInv
<1>. QED BY <1>1, EvaluationInvariant, PTL

-----------------------------------------------------------------------------
(* The evidence, the verdicts on it and the reports                          *)

Underway == {"arm", "traffic", "check", "investigate", "finally"}

\* The rest of the types, and that a sweep under way is one of those asked for.
Books ==
  /\ FaultsTypeOK
  /\ pc \in {"preflight", "start", "report", "merge", "raised"} \cup Underway
  /\ logs \in [lines : SUBSET Tag, fresh : SUBSET Place, own : BOOLEAN, late : BOOLEAN]
  /\ returning \subseteq Tag
  /\ pc \notin {"merge", "raised"} => Len(reports) < Len(Sweeps)
  /\ merge = [supersede |-> merge.supersede, files |-> merge.files, results |-> merge.results]
  /\ merge.supersede \in BOOLEAN /\ merge.files \in 0..Len(reports)

\* As long as nothing was lost the lines are the run's own, or a message came back.
LinesAreOwn == pc \in Underway /\ faults = 0 /\ ~ logs.late => logs.lines \subseteq {This}

\* As long as nothing was lost, what was to fail fails.
FaultFires ==
  /\ pc \notin {"preflight", "raised"} => Mode \subseteq app.offered
  /\ faults = 0 /\ pc = "traffic" /\ Now.mode # "none" => Now.mode \in app.armed
  /\ faults = 0 /\ pc = "check" /\ Now.mode # "none" => Now.fails_in \in logs.fresh
  /\ pc = "finally" /\ result.error = "did not reproduce" => faults > 0

\* Only the messages of runs before this one come back before its traffic.
Earlier(tag) == \/ tag[1] <= Len(reports)
                \/ tag[1] = Len(reports) + 1 /\ tag[2] <= Len(results)

MessagesAreEarlier ==
  \A tag \in returning :
     \/ Earlier(tag)
     \/ tag = This /\ pc \in {"check", "investigate", "finally", "raised"}

\* Something has failed: the run's own fault, or what stands in for it.
Explained == logs.own \/ logs.late \/ app.armed \ {Now.mode} # {}

Stood ==
  /\ pc = "check" /\ (logs.fresh # {} \/ This \in returning) => Explained
  /\ pc = "investigate" /\ Now.mode # "none" => Explained
  /\ pc = "finally" /\ result.ok /\ Now.mode # "none" => Explained

\* The results of the sweep under way and the runs still to do make up the sweep.
RunOf(r) == <<r.scenario, r.run>>

Progress ==
  /\ pc \notin {"merge", "raised"} =>
       LET sweep == Sweeps[Len(reports) + 1]
       IN /\ Len(results) + Len(todo) = Len(sweep)
          /\ \A j \in DOMAIN results : RunOf(results[j]) = sweep[j]
          /\ \A j \in DOMAIN todo : todo[j] = sweep[Len(results) + j]
  /\ pc = "finally" => RunOf(result) = Current
  /\ pc = "report" => todo = <<>>
  /\ Len(reports) <= Len(Sweeps)
  /\ \A k \in DOMAIN reports : [j \in DOMAIN reports[k] |-> RunOf(reports[k][j])] = Sweeps[k]

JInv == Books /\ LinesAreOwn /\ FaultFires /\ MessagesAreEarlier /\ Stood /\ Progress

\* A step loses one request, message or line at most.
LEMMA FaultsStep ==
  ASSUME FaultsTypeOK, NoFault \/ Fault
  PROVE  /\ FaultsTypeOK' /\ faults \in Nat /\ faults' \in Nat
         /\ faults' >= faults /\ (Fault => faults' > 0)
         /\ (faults' = 0 => NoFault /\ faults = 0)
BY FaultsAssumption DEF FaultsTypeOK, NoFault, Fault

LEMMA StepFaults == ASSUME [EvalNext]_vars PROVE NoFault \/ Fault
<1>1. CASE Preflight BY <1>1 DEF Preflight
<1>2. CASE Start BY <1>2 DEF Start
<1>3. CASE Arm BY <1>3 DEF Arm
<1>4. CASE Traffic BY <1>4 DEF Traffic
<1>5. CASE Check BY <1>5 DEF Check, Seen
<1>6. CASE Investigate BY <1>6 DEF Investigate
<1>7. CASE Raise BY <1>7 DEF Raise
<1>8. CASE Finally BY <1>8 DEF Finally
<1>9. CASE Interrupt BY <1>9 DEF Interrupt
<1>10. CASE Report BY <1>10 DEF Report
<1>11. CASE Merge BY <1>11 DEF Merge
<1>12. CASE \E tag \in returning : Return(tag) BY <1>12 DEF Return
<1>13. CASE UNCHANGED vars BY <1>13 DEF vars, NoFault
<1>. QED BY <1>1, <1>2, <1>3, <1>4, <1>5, <1>6, <1>7, <1>8, <1>9, <1>10, <1>11, <1>12, <1>13
     DEF EvalNext

\* The run under way is one of the sweeps'.
LEMMA ThisType ==
  ASSUME Typed, Books, pc \notin {"merge", "raised"}
  PROVE  /\ This \in Tag /\ This[1] = Len(reports) + 1 /\ This[2] = Len(results) + 1
         /\ Len(reports) \in Nat /\ Len(results) \in Nat
<1>1. Len(reports) \in Nat /\ Len(results) \in Nat BY DEF Typed
<1>2. Len(reports) + 1 \in 1..Len(Sweeps) /\ Len(results) + 1 \in Nat \ {0}
      BY <1>1, EvaluationAssumption DEF Books
<1>. QED BY <1>1, <1>2 DEF This, Tag

\* Where the failures of the application show.
LEMMA SurfacesType == \A m \in Mode : Surfaces(m) \in Place
<1>1. Mode = {"exception", "slow", "bad_payload", "memory", "timeout", "denied", "missing_env",
              "retry_storm", "silent"}
      BY DEF Mode, MODES
<1>2. \A m \in Mode : MODES[m] \in {"api", "consumer"} BY <1>1 DEF MODES
<1>. QED BY <1>2 DEF Surfaces, Place

LEMMA BooksStep == ASSUME IInv, Books, [EvalNext]_vars PROVE Books'
<1> DEFINE Logs == [lines : SUBSET Tag, fresh : SUBSET Place, own : BOOLEAN, late : BOOLEAN]
           Steps == {"preflight", "start", "report", "merge", "raised"} \cup Underway
<1>1. FaultsTypeOK' BY StepFaults, FaultsStep DEF Books
<1>2. Cleared \in Logs BY DEF Cleared
<1>3. Typed BY DEF IInv
<1>4. SUFFICES /\ pc' \in Steps /\ logs' \in Logs /\ returning' \subseteq Tag
               /\ (pc' \notin {"merge", "raised"} => Len(reports') < Len(Sweeps))
               /\ merge' = [supersede |-> merge'.supersede, files |-> merge'.files,
                            results |-> merge'.results]
               /\ merge'.supersede \in BOOLEAN /\ merge'.files \in 0..Len(reports')
      BY <1>1, Zenon DEF Books
<1>5. CASE UNCHANGED <<logs, returning, merge, reports>> /\ pc' \in Steps
             /\ (pc' \notin {"merge", "raised"} => pc \notin {"merge", "raised"})
      BY <1>5 DEF Books
<1>6. CASE Preflight \/ Arm \/ Check \/ Investigate \/ Finally \/ Interrupt \/ UNCHANGED vars
      BY <1>5, <1>6
      DEF Books, Preflight, Arm, Check, Investigate, Finally, Interrupt, vars, sweepVars, Underway
<1>7. CASE Start
  <2>1. \A cleared \in BOOLEAN : Isolated(cleared) \in Logs BY <1>2 DEF Isolated, Cleared, Books
  <2>. QED BY <1>7, <2>1 DEF Start, Books, Underway
<1>8. ASSUME NEW fired \in SUBSET Firing, Drive(fired), pc = "traffic", pc' \in Underway,
             UNCHANGED <<reports, merge>>
      PROVE  /\ pc' \in Steps /\ logs' \in Logs /\ returning' \subseteq Tag
             /\ (pc' \notin {"merge", "raised"} => Len(reports') < Len(Sweeps))
             /\ merge' = merge
  <2>2. This \in Tag BY <1>3, <1>8, ThisType
  <2>3. fired \in SUBSET Mode BY <1>3 DEF Typed, Firing
  <2>4. {Surfaces(m) : m \in fired} \in SUBSET Place BY <2>3, SurfacesType
  <2>5. logs' \in Logs
    <3>1. (Now.mode \in fired) \in BOOLEAN OBVIOUS
    <3>2. logs.lines \cup (IF fired = {} THEN {} ELSE {This}) \in SUBSET Tag BY <2>2 DEF Books
    <3>3. logs.late \in BOOLEAN BY DEF Books
    <3>. QED BY <1>8, <2>4, <3>1, <3>2, <3>3 DEF Drive
  <2>6. returning' \subseteq Tag BY <1>8, <2>2 DEF Drive, Books
  <2>. QED BY <1>8, <2>5, <2>6 DEF Books, Underway
<1>12. CASE Traffic \/ Raise
  <2>1. /\ pc \in Underway /\ pc' \in Underway /\ UNCHANGED <<reports, merge>>
        /\ \/ UNCHANGED <<logs, returning>>
           \/ pc = "traffic" /\ \E fired \in SUBSET Firing : Drive(fired)
    BY <1>12 DEF Traffic, Raise, Underway
  <2>2. CASE UNCHANGED <<logs, returning>> BY <1>5, <2>1, <2>2 DEF Underway
  <2>3. CASE pc = "traffic" /\ \E fired \in SUBSET Firing : Drive(fired)
    BY <1>8, <2>1, <2>3 DEF Books
  <2>. QED BY <2>1, <2>2, <2>3
<1>9. CASE Report
  <2>1. /\ pc = "report" /\ UNCHANGED <<logs, returning>> /\ reports' = Append(reports, results)
        /\ \/ Len(reports') < Len(Sweeps) /\ pc' = "preflight" /\ merge' = merge
           \/ pc' = "merge" /\ \E s \in BOOLEAN : merge' = [merge EXCEPT !.supersede = s]
        BY <1>9 DEF Report
  <2>2. Len(reports') = Len(reports) + 1 /\ Len(reports) \in Nat BY <1>3, <2>1 DEF Typed
  <2>3. merge' = [supersede |-> merge'.supersede, files |-> merge.files,
                  results |-> merge'.results] /\ merge'.supersede \in BOOLEAN
        BY <2>1 DEF Books
  <2>4. merge'.files \in 0..Len(reports') BY <2>2, <2>3 DEF Books
  <2>. QED BY <2>1, <2>3, <2>4 DEF Books
<1>10. CASE Merge
  <2>1. /\ pc = "merge" /\ merge.files < Len(reports) /\ UNCHANGED <<pc, logs, returning, reports>>
        /\ \E rs : merge' = [merge EXCEPT !.files = @ + 1, !.results = rs]
        BY <1>10 DEF Merge
  <2>2. /\ merge' = [supersede |-> merge.supersede, files |-> merge.files + 1,
                     results |-> merge'.results]
        BY <2>1 DEF Books
  <2>3. merge.files + 1 \in 0..Len(reports) BY <1>3, <2>1 DEF Books, Typed
  <2>. QED BY <2>1, <2>2, <2>3 DEF Books
<1>11. CASE \E tag \in returning : Return(tag)
  <2>1. PICK tag \in returning : Return(tag) BY <1>11
  <2>2. logs' \in Logs
    <3>1. CASE UNCHANGED logs BY <3>1 DEF Books
    <3>2. CASE logs' = [logs EXCEPT !.lines = @ \cup {tag}, !.fresh = @ \cup {"consumer"},
                                    !.late = @ \/ tag # This]
      <4>1. tag \in Tag /\ "consumer" \in Place BY DEF Books, Place
      <4>2. (logs.late \/ tag # This) \in BOOLEAN OBVIOUS
      <4>. QED BY <3>2, <4>1, <4>2 DEF Books
    <3>. QED BY <2>1, <3>1, <3>2 DEF Return
  <2>. QED BY <2>1, <2>2 DEF Return, Books, Underway
<1>. QED BY <1>6, <1>7, <1>9, <1>10, <1>11, <1>12 DEF EvalNext

\* Every scenario that arms a mode drives traffic and looks where that mode shows.
LEMMA LooksWhereItShows ==
  ASSUME NEW id \in ScenarioId, Scenario[id].mode # "none"
  PROVE  /\ Scenario[id].mode \in Mode /\ Scenario[id].traffic = TRUE
         /\ Scenario[id].fails_in = Surfaces(Scenario[id].mode)
<1>1. id \in {"S01", "S02", "S04", "S05", "S06", "S07", "S11", "S13", "S14"}
      BY DEF ScenarioId, Scenario
<1>2. Scenario[id].mode \in Mode
      BY ScenarioFacts DEF Declared
<1>3. /\ Surfaces("exception") = "api" /\ Surfaces("denied") = "consumer"
      /\ Surfaces("slow") = "latency" /\ Surfaces("bad_payload") = "consumer"
      /\ Surfaces("missing_env") = "consumer" /\ Surfaces("memory") = "consumer"
      /\ Surfaces("silent") = "consumer"
      BY DEF Surfaces, MODES
<1>4. CASE id = "S01" BY <1>2, <1>3, <1>4 DEF Scenario, Genuine
<1>5. CASE id = "S02" BY <1>2, <1>3, <1>5 DEF Scenario, Genuine
<1>6. CASE id = "S04" BY <1>2, <1>3, <1>6 DEF Scenario, Genuine
<1>7. CASE id = "S05" BY <1>2, <1>3, <1>7 DEF Scenario, Genuine
<1>8. CASE id = "S06" BY <1>2, <1>3, <1>8 DEF Scenario, Genuine
<1>9. CASE id = "S07" BY <1>2, <1>3, <1>9 DEF Scenario, Genuine
<1>10. CASE id = "S13" BY <1>2, <1>3, <1>10 DEF Scenario, S13, Adversarial
<1>11. CASE id \in {"S11", "S14"} BY <1>11 DEF Scenario, Adversarial
<1>. QED BY <1>1, <1>4, <1>5, <1>6, <1>7, <1>8, <1>9, <1>10, <1>11

\* The run under way stays the same while its steps are taken.
SameRun == UNCHANGED <<todo, results, reports>>

LEMMA SameRunFacts == ASSUME SameRun PROVE This' = This /\ Now' = Now /\ Current' = Current
BY DEF SameRun, This, Now, Current

LEMMA LinesStep == ASSUME IInv, Books, LinesAreOwn, [EvalNext]_vars PROVE LinesAreOwn'
<1>1. SUFFICES ASSUME pc' \in Underway, faults' = 0, logs'.late = FALSE
               PROVE  logs'.lines \subseteq {This'}
      BY BooksStep DEF LinesAreOwn, Books
<1>2. NoFault /\ faults = 0 /\ ~ Fault BY <1>1, StepFaults, FaultsStep DEF Books, Fault, NoFault
<1>3. CASE Start
  <2>1. \E cleared \in BOOLEAN : logs' = Isolated(cleared) /\ cleared
        BY <1>2, <1>3 DEF Start
  <2>. QED BY <2>1 DEF Isolated, Cleared
<1>4. CASE \/ Traffic
           \/ Raise /\ pc = "traffic" /\ \E fired \in SUBSET Firing : Drive(fired)
  <2>1. pc = "traffic" /\ SameRun /\ logs'.late = logs.late
        /\ logs'.lines \subseteq logs.lines \cup {This}
        BY <1>4 DEF Traffic, Raise, Drive, SameRun
  <2>2. logs.lines \subseteq {This} BY <1>1, <1>2, <2>1 DEF LinesAreOwn, Underway, Books
  <2>. QED BY <2>1, <2>2, SameRunFacts
<1>5. CASE \E tag \in returning : Return(tag)
  <2>1. PICK tag \in returning : Return(tag) BY <1>5
  <2>2. SameRun /\ pc' = pc BY <2>1 DEF Return, SameRun
  <2>3. logs.late = FALSE /\ logs'.lines \subseteq logs.lines \cup {This}
        BY <1>1, <2>1 DEF Return, Books
  <2>4. logs.lines \subseteq {This} BY <1>1, <1>2, <2>2, <2>3 DEF LinesAreOwn
  <2>. QED BY <2>2, <2>3, <2>4, SameRunFacts
<1>6. CASE Arm \/ Check \/ Investigate \/ (Raise /\ UNCHANGED logs) \/ UNCHANGED vars
  <2>1. SameRun /\ logs' = logs /\ pc \in Underway
        BY <1>1, <1>6 DEF Arm, Check, Investigate, Raise, vars, sweepVars, SameRun, Underway
  <2>. QED BY <1>1, <1>2, <2>1, SameRunFacts DEF LinesAreOwn
<1>7. CASE Preflight \/ Finally \/ Interrupt \/ Report \/ Merge
      BY <1>1, <1>7 DEF Preflight, Finally, Interrupt, Report, Merge, Underway
<1>8. CASE Raise
  <2>1. \/ UNCHANGED <<logs, returning>>
        \/ pc = "traffic" /\ \E fired \in SUBSET Firing : Drive(fired)
    BY <1>8 DEF Raise
  <2>. QED BY <1>4, <1>6, <1>8, <2>1
<1>. QED BY <1>3, <1>4, <1>5, <1>6, <1>7, <1>8 DEF EvalNext

\* A run that failed says so under its own name.
LEMMA FailedFacts ==
  ASSUME NEW error
  PROVE  /\ RunOf(FailedNow(error)) = <<Current[1], Current[2]>>
         /\ FailedNow(error).error = error /\ FailedNow(error).ok = FALSE
BY DEF FailedNow, Failed, RunOf

LEMMA FiresStep == ASSUME IInv, Books, FaultFires, [EvalNext]_vars PROVE FaultFires'
<1>1. pc' \notin {"preflight", "raised"} => Mode \subseteq app'.offered
  <2>1. CASE Preflight BY <2>1 DEF Preflight
  <2>2. CASE Start \/ Finally
    <3>1. app'.offered = app.offered BY <2>2 DEF Start, Finally, Disarmed
    <3>. QED BY <2>2, <3>1 DEF Start, Finally, FaultFires
  <2>3. CASE Arm
    <3>1. app'.offered = app.offered BY <2>3 DEF Arm, Armed, IInv, Typed
    <3>. QED BY <2>3, <3>1 DEF Arm, FaultFires
  <2>4. CASE Interrupt BY <2>4 DEF Interrupt
  <2>5. CASE Traffic \/ Check \/ Investigate \/ Raise \/ Report \/ Merge \/ UNCHANGED vars
             \/ \E tag \in returning : Return(tag)
        BY <2>5 DEF Traffic, Check, Investigate, Raise, Report, Merge, Return, vars, sweepVars,
           FaultFires
  <2>. QED BY <2>1, <2>2, <2>3, <2>4, <2>5 DEF EvalNext
<1>2. ASSUME pc' \in {"traffic", "check"}
      PROVE  SameRun /\ Now' = Now
  <2>1. SameRun
        BY <1>2 DEF EvalNext, Preflight, Start, Arm, Traffic, Check, Investigate, Raise, Finally,
           Interrupt, Report, Merge, Return, vars, sweepVars, SameRun
  <2>. QED BY <2>1, SameRunFacts
<1>3. ASSUME faults' = 0, pc' = "traffic", Now.mode # "none"
      PROVE  Now.mode \in app'.armed
  <2>1. NoFault /\ faults = 0 /\ ~ Fault BY <1>3, StepFaults, FaultsStep DEF Books, Fault, NoFault
  <2>2. CASE Arm
    <3>1. app' = Armed(Now.mode) BY <1>3, <2>1, <2>2 DEF Arm
    <3>2. Now.mode \in Mode /\ Mode \subseteq app.offered
      <4>1. pc = "arm" BY <2>2 DEF Arm
      <4>. QED BY <1>3, <4>1, CurrentType DEF FaultFires, IInv, Shape, Typed, Declared
    <3>. QED BY <3>1, <3>2 DEF Armed, IInv, Typed
  <2>3. CASE pc = "traffic" /\ app' = app BY <1>3, <2>1, <2>3 DEF FaultFires
  <2>. QED BY <1>3, <2>2, <2>3
       DEF EvalNext, Preflight, Start, Traffic, Check, Investigate, Raise, Finally,
           Interrupt, Report, Merge, Return, vars, sweepVars
<1>4. ASSUME faults' = 0, pc' = "check", Now.mode # "none"
      PROVE  Now.fails_in \in logs'.fresh
  <2>1. NoFault /\ faults = 0 BY <1>4, StepFaults, FaultsStep DEF Books, Fault, NoFault
  <2>2. CASE Traffic
    <3>1. pc = "traffic" /\ logs'.fresh = {Surfaces(m) : m \in Firing}
          BY <2>2 DEF Traffic, Drive
    <3>2. /\ Current[1] \in ScenarioId /\ Now = Scenario[Current[1]]
          BY <3>1, CurrentType DEF IInv, Shape, Typed
    <3>3. Now.traffic = TRUE /\ Now.fails_in = Surfaces(Now.mode)
          BY <1>4, <3>2, LooksWhereItShows
    <3>4. Now.mode \in Firing BY <1>4, <2>1, <3>1, <3>3 DEF FaultFires, Firing
    <3>. QED BY <3>1, <3>3, <3>4
  <2>3. CASE pc = "check" /\ logs.fresh \subseteq logs'.fresh BY <1>4, <2>1, <2>3 DEF FaultFires
  <2>4. CASE \E tag \in returning : Return(tag)
    <3>1. PICK tag \in returning : Return(tag) BY <2>4
    <3>2. pc = "check" BY <1>4, <3>1 DEF Return
    <3>3. \/ logs' = [logs EXCEPT !.lines = logs.lines \cup {tag},
                                 !.fresh = logs.fresh \cup {"consumer"},
                                 !.late = logs.late \/ tag # This]
          \/ logs' = logs
          BY <3>1 DEF Return
    <3>4. logs \in [lines : SUBSET Tag, fresh : SUBSET Place, own : BOOLEAN, late : BOOLEAN]
          BY DEF Books
    <3>5. logs'.fresh = logs.fresh \cup {"consumer"} \/ logs'.fresh = logs.fresh BY <3>3, <3>4
    <3>. QED BY <2>3, <3>2, <3>5
  <2>. QED BY <1>4, <2>2, <2>3, <2>4
       DEF EvalNext, Preflight, Start, Arm, Check, Investigate, Raise, Finally,
           Interrupt, Report, Merge, vars, sweepVars
<1>5. ASSUME pc' = "finally", result'.error = "did not reproduce"
      PROVE  faults' > 0
  <2>1. CASE Check
    <3>1. pc = "check" /\ Now.mode # "none" BY <1>5, <2>1 DEF Check
    <3>2. PICK fails \in BOOLEAN : Seen(fails) /\ fails = FALSE BY <1>5, <2>1 DEF Check
    <3>3. CASE Fault BY <3>3, FaultsStep DEF Books
    <3>4. CASE NoFault /\ Now.fails_in \notin logs.fresh
      <4>1. faults # 0 BY <3>1, <3>4 DEF FaultFires
      <4>. QED BY <3>4, <4>1, FaultsStep DEF Books, NoFault
    <3>. QED BY <3>2, <3>3, <3>4 DEF Seen
  <2>2. CASE Investigate
    <3>1. CASE \E rca : result' = Score(Current[1], Current[2], rca)
      <4>1. PICK rca : result' = Score(Current[1], Current[2], rca) BY <3>1
      <4>2. result'.error = "" BY <4>1 DEF Score
      <4>. QED BY <1>5, <4>2
    <3>2. CASE result' = FailedNow("no RCA produced")
          BY <1>5, <3>2, FailedFacts
    <3>. QED BY <2>2, <3>1, <3>2 DEF Investigate, Investigated
  <2>3. CASE Raise BY <1>5, <2>3 DEF Raise, FailedNow, Failed
  <2>4. CASE pc = "finally" /\ result' = result
    <3>1. faults > 0 /\ faults' >= faults /\ faults \in Nat /\ faults' \in Nat
          BY <1>5, <2>4, StepFaults, FaultsStep DEF FaultFires, Books
    <3>. QED BY <3>1
  <2>. QED BY <1>5, <2>1, <2>2, <2>3, <2>4
       DEF EvalNext, Preflight, Start, Arm, Traffic, Finally, Interrupt, Report, Merge, Return,
           vars, sweepVars
<1>. QED BY <1>1, <1>2, <1>3, <1>4, <1>5 DEF FaultFires

LEMMA MessagesStep == ASSUME IInv, Books, MessagesAreEarlier, [EvalNext]_vars PROVE MessagesAreEarlier'
<1> DEFINE Behind == {"check", "investigate", "finally", "raised"}
<1>1. Typed BY DEF IInv
<1>2. Len(reports) \in Nat /\ Len(results) \in Nat BY <1>1 DEF Typed
<1>3. ASSUME SameRun, returning' \subseteq returning, pc \in Behind => pc' \in Behind
      PROVE  MessagesAreEarlier'
  <2>1. This' = This BY <1>3, SameRunFacts
  <2>. QED BY <1>3, <2>1 DEF MessagesAreEarlier, Earlier, SameRun
<1>4. CASE \/ Traffic
           \/ Raise /\ pc = "traffic" /\ \E fired \in SUBSET Firing : Drive(fired)
  <2>1. /\ SameRun /\ pc = "traffic" /\ pc' \in Behind
        /\ returning' \subseteq returning \cup {This}
        BY <1>4 DEF Traffic, Raise, Drive, SameRun
  <2>2. This' = This BY <2>1, SameRunFacts
  <2>. QED BY <2>1, <2>2 DEF MessagesAreEarlier, Earlier, SameRun
<1>5. CASE Finally
  <2>1. /\ pc = "finally" /\ returning' = returning /\ reports' = reports
        /\ results' = Append(results, result)
        BY <1>5 DEF Finally
  <2>2. Len(results') = Len(results) + 1 BY <1>1, <2>1 DEF Typed
  <2>3. ASSUME NEW tag \in returning
        PROVE  \/ tag[1] <= Len(reports')
               \/ tag[1] = Len(reports') + 1 /\ tag[2] <= Len(results')
    <3>1. tag[1] \in Nat /\ tag[2] \in Nat BY DEF Books, Tag
    <3>2. CASE Earlier(tag)
      <4>1. Len(reports') = Len(reports) BY <2>1
      <4>. QED BY <1>2, <2>2, <3>1, <3>2, <4>1 DEF Earlier
    <3>3. CASE tag = This
      <4>1. This[1] = Len(reports) + 1 /\ This[2] = Len(results) + 1
            BY <1>1, <2>1, ThisType
      <4>. QED BY <1>2, <2>1, <2>2, <3>1, <3>3, <4>1
    <3>. QED BY <3>2, <3>3 DEF MessagesAreEarlier
  <2>. QED BY <2>1, <2>3 DEF MessagesAreEarlier, Earlier
<1>6. CASE Report
  <2>1. /\ pc = "report" /\ returning' = returning /\ reports' = Append(reports, results)
        BY <1>6 DEF Report
  <2>2. Len(reports') = Len(reports) + 1 BY <1>1, <2>1 DEF Typed
  <2>3. ASSUME NEW tag \in returning
        PROVE  tag[1] <= Len(reports')
    <3>1. tag[1] \in Nat /\ tag[2] \in Nat BY DEF Books, Tag
    <3>2. Earlier(tag) BY <2>1 DEF MessagesAreEarlier
    <3>. QED BY <1>2, <2>2, <3>1, <3>2 DEF Earlier
  <2>. QED BY <2>1, <2>3 DEF MessagesAreEarlier, Earlier
<1>7. CASE \/ Preflight \/ Start \/ Arm \/ Check \/ Investigate \/ Interrupt \/ Merge
           \/ Raise /\ UNCHANGED returning
           \/ UNCHANGED vars
  <2>1. SameRun /\ returning' = returning
        BY <1>7 DEF Preflight, Start, Arm, Check, Investigate, Raise, Interrupt, Merge, vars,
           sweepVars, SameRun
  <2>2. pc \in Behind => pc' \in Behind
        BY <1>7 DEF Preflight, Start, Arm, Check, Investigate, Raise, Interrupt, Merge, vars,
           sweepVars
  <2>. QED BY <1>3, <2>1, <2>2
<1>8. CASE \E tag \in returning : Return(tag)
  <2>1. SameRun /\ returning' \subseteq returning /\ pc' = pc BY <1>8 DEF Return, SameRun
  <2>. QED BY <1>3, <2>1
<1>9. CASE Raise
  <2>1. \/ UNCHANGED <<logs, returning>>
        \/ pc = "traffic" /\ \E fired \in SUBSET Firing : Drive(fired)
    BY <1>9 DEF Raise
  <2>. QED BY <1>4, <1>7, <1>9, <2>1
<1>. QED BY <1>4, <1>5, <1>6, <1>7, <1>8, <1>9 DEF EvalNext

LEMMA StoodStep ==
  ASSUME IInv, Books, MessagesAreEarlier, Stood, [EvalNext]_vars
  PROVE  Stood'
<1>1. CASE pc' \notin {"check", "investigate", "finally"} BY <1>1 DEF Stood
<1>2. CASE Traffic
  <2>1. /\ pc = "traffic" /\ pc' = "check" /\ SameRun /\ app' = app
        /\ logs'.fresh = {Surfaces(m) : m \in Firing} /\ logs'.own = (Now.mode \in Firing)
        /\ returning' \subseteq returning \cup (IF Firing = {} THEN {} ELSE {This})
        BY <1>2 DEF Traffic, Drive, SameRun
  <2>2. This' = This /\ Now' = Now BY <2>1, SameRunFacts
  <2>3. This \notin returning
    <3>1. ~ Earlier(This)
      <4>1. /\ This[1] = Len(reports) + 1 /\ This[2] = Len(results) + 1
            /\ Len(reports) \in Nat /\ Len(results) \in Nat
            BY <2>1, ThisType DEF IInv
      <4>. QED BY <4>1 DEF Earlier
    <3>. QED BY <2>1, <3>1 DEF MessagesAreEarlier
  <2>4. logs'.fresh # {} \/ This \in returning' => Firing # {} BY <2>1, <2>3
  <2>5. Firing # {} => logs'.own \/ app'.armed \ {Now.mode} # {}
        BY <2>1 DEF Firing
  <2>. QED BY <2>1, <2>2, <2>4, <2>5 DEF Stood, Explained
<1>3. CASE Check
  <2>1. pc = "check" /\ SameRun /\ UNCHANGED <<app, logs, returning>>
        BY <1>3 DEF Check, SameRun
  <2>2. This' = This /\ Now' = Now BY <2>1, SameRunFacts
  <2>3. Explained => Explained' BY <2>1, <2>2 DEF Explained
  <2>4. CASE pc' = "investigate"
    <3>1. Now.mode = "none" \/ logs.fresh # {} BY <1>3, <2>4 DEF Check, Seen
    <3>. QED BY <2>1, <2>2, <2>3, <2>4, <3>1 DEF Stood
  <2>5. CASE pc' = "finally" /\ result' = FailedNow("did not reproduce")
    <3>1. result'.ok = FALSE BY <2>5, FailedFacts
    <3>. QED BY <2>5, <3>1 DEF Stood
  <2>. QED BY <1>3, <2>4, <2>5 DEF Check
<1>4. CASE Investigate
  <2>1. pc = "investigate" /\ pc' = "finally" /\ SameRun /\ UNCHANGED <<app, logs, returning>>
        BY <1>4 DEF Investigate, SameRun
  <2>2. Now' = Now BY <2>1, SameRunFacts
  <2>3. Explained => Explained' BY <2>1, <2>2 DEF Explained
  <2>. QED BY <2>1, <2>2, <2>3 DEF Stood
<1>5. CASE Raise
  <2>1. pc' = "finally" /\ result' = FailedNow("raised") BY <1>5 DEF Raise
  <2>2. result'.ok = FALSE BY <2>1, FailedFacts
  <2>. QED BY <2>1, <2>2 DEF Stood
<1>6. CASE \E tag \in returning : Return(tag)
  <2>1. PICK tag \in returning : Return(tag) BY <1>6
  <2>2. SameRun /\ pc' = pc /\ app' = app /\ result' = result
        /\ returning' = returning \ {tag} BY <2>1 DEF Return, SameRun
  <2>3. This' = This /\ Now' = Now BY <2>2, SameRunFacts
  <2>4. logs'.own = logs.own /\ (logs.late => logs'.late)
        BY <2>1 DEF Return, Books
  <2>5. Explained => Explained' BY <2>2, <2>3, <2>4 DEF Explained
  <2>6. logs'.fresh # {} => logs.fresh # {} \/ tag = This \/ logs'.late
    <3>1. CASE logs' = logs BY <3>1
    <3>2. CASE logs' = [logs EXCEPT !.lines = @ \cup {tag}, !.fresh = @ \cup {"consumer"},
                                    !.late = @ \/ tag # This]
      <4>1. logs'.late = (logs.late \/ tag # This) BY <3>2 DEF Books
      <4>. QED BY <4>1
    <3>. QED BY <2>1, <3>1, <3>2 DEF Return
  <2>7. logs'.late => Explained' BY DEF Explained
  <2>8. pc' = "check" /\ (logs'.fresh # {} \/ This' \in returning') => Explained'
        BY <2>1, <2>2, <2>3, <2>5, <2>6, <2>7 DEF Stood
  <2>. QED BY <2>2, <2>3, <2>5, <2>8 DEF Stood
<1>7. CASE UNCHANGED vars
  <2>1. SameRun /\ UNCHANGED <<pc, app, logs, returning, result>>
        BY <1>7 DEF vars, sweepVars, SameRun
  <2>2. This' = This /\ Now' = Now BY <2>1, SameRunFacts
  <2>. QED BY <2>1, <2>2 DEF Stood, Explained
<1>8. CASE Preflight \/ Start \/ Arm \/ Finally \/ Interrupt \/ Report \/ Merge
  <2>1. Merge => pc' = "merge" BY DEF Merge
  <2>. QED BY <1>1, <1>8, <2>1 DEF Preflight, Start, Arm, Finally, Interrupt, Report
<1>. QED BY <1>2, <1>3, <1>4, <1>5, <1>6, <1>7, <1>8 DEF EvalNext

\* The sweeps are sequences of runs.
LEMMA SweepType ==
  ASSUME NEW k \in DOMAIN Sweeps
  PROVE  Sweeps[k] \in Seq(Run) /\ Sweeps[k] # <<>> /\ Len(Sweeps[k]) \in Nat
BY EvaluationAssumption

\* What Investigate and the failures put in the result is of the run under way.
LEMMA ResultIsOfRun ==
  ASSUME Typed, todo # <<>>
  PROVE  /\ \A rca : RunOf(Score(Current[1], Current[2], rca)) = Current
         /\ \A error : RunOf(FailedNow(error)) = Current
<1>1. Current \in Run BY CurrentType DEF Typed
<1>2. <<Current[1], Current[2]>> = Current BY <1>1 DEF Run
<1>3. ASSUME NEW rca PROVE RunOf(Score(Current[1], Current[2], rca)) = Current
      BY <1>2 DEF RunOf, Score
<1>4. ASSUME NEW error PROVE RunOf(FailedNow(error)) = Current
      BY <1>2, FailedFacts
<1>. QED BY <1>3, <1>4

LEMMA ProgressKept ==
  ASSUME Progress, SameRun,
         pc' \notin {"finally", "report"} \/ (pc' = pc /\ result' = result),
         pc' \notin {"merge", "raised"} => pc \notin {"merge", "raised"}
  PROVE  Progress'
<1>1. Current' = Current BY SameRunFacts
<1>. QED BY <1>1 DEF Progress, SameRun, RunOf

LEMMA ProgressToFinally ==
  ASSUME Progress, SameRun, pc' = "finally", pc \notin {"merge", "raised"}, RunOf(result') = Current
  PROVE  Progress'
<1>1. Current' = Current BY SameRunFacts
<1>2. RunOf(result)' = RunOf(result') BY DEF RunOf
<1>. QED BY <1>1, <1>2 DEF Progress, SameRun, RunOf

LEMMA FinallyProgress == ASSUME IInv, Books, Progress, Finally PROVE Progress'
<1> DEFINE k == Len(reports) + 1
<1>1. /\ pc = "finally" /\ pc' = (IF Len(todo) = 1 THEN "report" ELSE "start")
      /\ todo' = Tail(todo) /\ results' = Append(results, result) /\ reports' = reports
      BY DEF Finally
<1>2. todo # <<>> /\ Typed BY <1>1 DEF IInv, Shape
<1>3. k \in DOMAIN Sweeps BY <1>1, <1>2, EvaluationAssumption DEF Books, Typed
<1>4. /\ Len(results) + Len(todo) = Len(Sweeps[k])
      /\ \A j \in DOMAIN results : RunOf(results[j]) = Sweeps[k][j]
      /\ \A j \in DOMAIN todo : todo[j] = Sweeps[k][Len(results) + j]
      /\ RunOf(result) = Current
      BY <1>1 DEF Progress
<1>5. /\ Len(results) \in Nat /\ Len(todo) \in Nat \ {0} /\ Len(results') = Len(results) + 1
      /\ Len(todo') = Len(todo) - 1 /\ todo' \in Seq(Run) /\ results' \in Seq(Result)
      /\ todo \in Seq(Run) /\ results \in Seq(Result) /\ result \in Result
      BY <1>1, <1>2 DEF Typed
<1>6. Len(results') + Len(todo') = Len(Sweeps[k])
  <2>1. Len(results) + Len(todo) = Len(Sweeps[k]) BY <1>4
  <2>2. /\ Len(results) \in Nat /\ Len(todo) \in Nat /\ Len(results') = Len(results) + 1
        /\ Len(todo') = Len(todo) - 1
        BY <1>5
  <2>. QED BY <2>1, <2>2
<1>7. ASSUME NEW j \in DOMAIN results'
      PROVE  RunOf(results'[j]) = Sweeps[k][j]
  <2>1. CASE j \in DOMAIN results
    <3>1. results'[j] = results[j] BY <1>1, <1>5, <2>1
    <3>. QED BY <1>4, <2>1, <3>1
  <2>2. CASE j = Len(results) + 1
    <3>1. results'[j] = result BY <1>1, <1>5, <2>2
    <3>2. 1 \in DOMAIN todo /\ Current = todo[1] BY <1>5 DEF Current
    <3>3. Current = Sweeps[k][Len(results) + 1] BY <1>4, <3>2
    <3>. QED BY <1>4, <2>2, <3>1, <3>3
  <2>. QED BY <1>5, <2>1, <2>2
<1>8. ASSUME NEW j \in DOMAIN todo'
      PROVE  todo'[j] = Sweeps[k][Len(results') + j]
  <2>1. j \in Nat /\ j + 1 \in DOMAIN todo /\ todo'[j] = todo[j + 1] BY <1>1, <1>5
  <2>2. Len(results) + (j + 1) = Len(results') + j BY <1>5, <2>1
  <2>. QED BY <1>4, <2>1, <2>2
<1>9. ASSUME pc' = "report" PROVE todo' = <<>>
  <2>1. Len(todo') = 0 /\ todo' \in Seq(Run) BY <1>1, <1>5, <1>9
  <2>. QED BY <2>1
<1>10. pc' # "finally" BY <1>1
<1>11. \A j \in DOMAIN results' : RunOf(results[j])' = RunOf(results'[j]) BY DEF RunOf
<1>12. Len(reports') + 1 = k BY <1>1
<1>13. /\ Len(reports) <= Len(Sweeps)
       /\ \A i \in DOMAIN reports :
            [j \in DOMAIN reports[i] |-> RunOf(reports[i][j])] = Sweeps[i]
       BY DEF Progress
<1>14. /\ Len(reports') <= Len(Sweeps)
       /\ (\A i \in DOMAIN reports :
            [j \in DOMAIN reports[i] |-> RunOf(reports[i][j])] = Sweeps[i])'
       BY <1>1, <1>13 DEF RunOf
<1>15. (LET sweep == Sweeps[Len(reports) + 1]
        IN /\ Len(results) + Len(todo) = Len(sweep)
           /\ \A j \in DOMAIN results : RunOf(results[j]) = sweep[j]
           /\ \A j \in DOMAIN todo : todo[j] = sweep[Len(results) + j])'
       BY <1>6, <1>7, <1>8, <1>12 DEF RunOf
<1>. QED BY <1>9, <1>10, <1>14, <1>15 DEF Progress

LEMMA ReportProgress == ASSUME IInv, Books, Progress, Report PROVE Progress'
<1> DEFINE k == Len(reports) + 1
<1>1. /\ pc = "report" /\ reports' = Append(reports, results) /\ results' = <<>>
      BY DEF Report
<1>2. Typed /\ todo = <<>> BY <1>1 DEF IInv, Progress
<1>3. /\ k \in DOMAIN Sweeps /\ Len(reports) \in Nat /\ Len(reports') = k
      /\ DOMAIN reports' = DOMAIN reports \cup {k} /\ reports'[k] = results
      /\ \A i \in DOMAIN reports : reports'[i] = reports[i] /\ i # k
  <2>1. Len(reports) \in Nat /\ Len(reports) < Len(Sweeps) BY <1>1, <1>2 DEF Books, Typed
  <2>2. k \in DOMAIN Sweeps BY <2>1, EvaluationAssumption
  <2>. DEFINE R == Seq(Result)
  <2>3. reports \in Seq(R) /\ results \in R BY <1>2 DEF Typed
  <2>. HIDE DEF R
  <2>4. /\ Len(reports') = k /\ DOMAIN reports' = 1..k /\ DOMAIN reports = 1..Len(reports)
        /\ reports'[k] = results
        /\ \A i \in 1..Len(reports) : reports'[i] = reports[i]
        BY <1>1, <2>1, <2>3
  <2>5. 1..k = 1..Len(reports) \cup {k} /\ \A i \in 1..Len(reports) : i # k BY <2>1
  <2>. QED BY <2>1, <2>2, <2>4, <2>5
<1>4. [j \in DOMAIN results |-> RunOf(results[j])] = Sweeps[k]
  <2>1. /\ Len(results) = Len(Sweeps[k]) /\ \A j \in DOMAIN results : RunOf(results[j]) = Sweeps[k][j]
        BY <1>1, <1>2 DEF Progress, Typed
  <2>2. DOMAIN results = 1..Len(results) BY <1>2 DEF Typed
  <2>3. Sweeps[k] \in Seq(Run) BY <1>3, SweepType
  <2>4. Sweeps[k] = [j \in 1..Len(Sweeps[k]) |-> Sweeps[k][j]] BY <2>3
  <2>. QED BY <2>1, <2>2, <2>4
<1>5. \A i \in DOMAIN reports' :
         [j \in DOMAIN reports'[i] |-> RunOf(reports'[i][j])] = Sweeps[i]
      BY <1>3, <1>4 DEF Progress
<1>6. (\A i \in DOMAIN reports :
         [j \in DOMAIN reports[i] |-> RunOf(reports[i][j])] = Sweeps[i])'
      BY <1>5 DEF RunOf
<1>7. Len(reports') <= Len(Sweeps) BY <1>3, EvaluationAssumption
<1>8. CASE pc' = "merge" BY <1>6, <1>7, <1>8 DEF Progress
<1>9. CASE Len(reports') < Len(Sweeps) /\ pc' = "preflight" /\ todo' = Sweeps[Len(reports') + 1]
  <2>1. Len(reports') + 1 \in DOMAIN Sweeps BY <1>3, <1>9, EvaluationAssumption
  <2>2. Sweeps[Len(reports') + 1] \in Seq(Run) BY <2>1, SweepType
  <2>3. /\ Len(results') + Len(todo') = Len(Sweeps[Len(reports') + 1])
        /\ DOMAIN results' = {}
        /\ \A j \in DOMAIN todo' : todo'[j] = Sweeps[Len(reports') + 1][Len(results') + j]
        BY <1>1, <1>9, <2>2
  <2>. QED BY <1>6, <1>7, <1>9, <2>3 DEF Progress
<1>. QED BY <1>8, <1>9 DEF Report

LEMMA ProgressStep == ASSUME IInv, Books, Progress, [EvalNext]_vars PROVE Progress'
<1>1. CASE Preflight \/ Start \/ Arm \/ Traffic \/ Merge \/ UNCHANGED vars
  <2>1. SameRun BY <1>1 DEF Preflight, Start, Arm, Traffic, Merge, vars, sweepVars, SameRun
  <2>2. /\ pc' \notin {"finally", "report"} \/ (pc' = pc /\ result' = result)
        /\ pc' \notin {"merge", "raised"} => pc \notin {"merge", "raised"}
        BY <1>1 DEF Preflight, Start, Arm, Traffic, Merge, vars, sweepVars
  <2>. QED BY <2>1, <2>2, ProgressKept
<1>2. CASE \E tag \in returning : Return(tag)
  <2>1. SameRun /\ pc' = pc /\ result' = result BY <1>2 DEF Return, SameRun
  <2>. QED BY <2>1, ProgressKept
<1>3. CASE Interrupt
  <2>1. SameRun /\ pc' = "raised" BY <1>3 DEF Interrupt, SameRun
  <2>. QED BY <2>1, ProgressKept
<1>4. CASE Check /\ pc' = "investigate"
  <2>1. SameRun /\ pc = "check" BY <1>4 DEF Check, SameRun
  <2>. QED BY <1>4, <2>1, ProgressKept
<1>5. CASE Check /\ pc' = "finally"
  <2>1. SameRun /\ pc = "check" /\ result' = FailedNow("did not reproduce")
        BY <1>5 DEF Check, SameRun
  <2>2. todo # <<>> /\ Typed BY <2>1 DEF IInv, Shape
  <2>3. RunOf(result') = Current BY <2>1, <2>2, ResultIsOfRun
  <2>. QED BY <1>5, <2>1, <2>3, ProgressToFinally
<1>6. CASE Raise
  <2>1. SameRun /\ pc \in Underway \ {"finally"} /\ pc' = "finally" /\ result' = FailedNow("raised")
        BY <1>6 DEF Raise, SameRun, Underway
  <2>2. todo # <<>> /\ Typed BY <2>1 DEF IInv, Shape, Underway
  <2>3. RunOf(result') = Current BY <2>1, <2>2, ResultIsOfRun
  <2>. QED BY <2>1, <2>3, ProgressToFinally DEF Underway
<1>7. CASE Investigate
  <2>1. SameRun /\ pc = "investigate" /\ pc' = "finally" /\ result' \in Investigated
        BY <1>7 DEF Investigate, SameRun
  <2>2. todo # <<>> /\ Typed BY <2>1 DEF IInv, Shape
  <2>3. RunOf(result') = Current BY <2>1, <2>2, ResultIsOfRun DEF Investigated
  <2>. QED BY <2>1, <2>3, ProgressToFinally
<1>8. CASE Finally BY <1>8, FinallyProgress
<1>9. CASE Report BY <1>9, ReportProgress
<1>. QED BY <1>1, <1>2, <1>3, <1>4, <1>5, <1>6, <1>7, <1>8, <1>9 DEF EvalNext, Check

LEMMA InitJInv == EvalInit => JInv
<1> SUFFICES ASSUME EvalInit PROVE JInv OBVIOUS
<1>1. Books
  <2>1. faults \in 0..MaxFaults BY FaultsAssumption DEF EvalInit
  <2>2. Len(reports) = 0 /\ 0 < Len(Sweeps) BY EvaluationAssumption DEF EvalInit
  <2>. QED BY <2>1, <2>2 DEF EvalInit, Books, FaultsTypeOK, Cleared
<1>2. LinesAreOwn /\ FaultFires /\ MessagesAreEarlier /\ Stood
      BY DEF EvalInit, LinesAreOwn, Underway, FaultFires, MessagesAreEarlier, Stood
<1>3. Progress
  <2>1. reports = <<>> /\ results = <<>> /\ todo = Sweeps[1] /\ pc = "preflight"
        BY DEF EvalInit
  <2>2. 1 \in DOMAIN Sweeps /\ Len(Sweeps) \in Nat BY EvaluationAssumption
  <2>3. Sweeps[1] \in Seq(Run) BY <2>2, SweepType
  <2>4. /\ Len(results) + Len(todo) = Len(Sweeps[1]) /\ DOMAIN results = {} /\ DOMAIN reports = {}
        /\ \A j \in DOMAIN todo : todo[j] = Sweeps[1][Len(results) + j]
        /\ Len(reports) = 0
        BY <2>1, <2>3
  <2>. QED BY <2>1, <2>2, <2>4 DEF Progress
<1>. QED BY <1>1, <1>2, <1>3 DEF JInv

LEMMA EvidenceInvariant == EvalSpec => [](IInv /\ JInv)
<1>1. EvalInit => IInv /\ JInv BY InitIInv, InitJInv
<1>2. IInv /\ JInv /\ [EvalNext]_vars => IInv' /\ JInv'
      BY NextIInv, BooksStep, LinesStep, FiresStep, MessagesStep, StoodStep, ProgressStep DEF JInv
<1>. QED BY <1>1, <1>2, PTL DEF EvalSpec

\* The types, and that as long as nothing was lost the agent finds the lines of its
\* own run only: run_scenario clears the log groups before each.
THEOREM EvidenceBelongsToRun == EvalSpec => []EvalInv
<1>1. IInv /\ JInv => EvalInv
  <2> SUFFICES ASSUME IInv, JInv PROVE EvalInv OBVIOUS
  <2>1. EvalTypeOK
        BY DEF IInv, Typed, JInv, Books, Underway, EvalTypeOK
  <2>2. EvidenceIsOwn
    <3> SUFFICES ASSUME pc = "investigate", ~ logs.late, ~ faults > 0
                 PROVE  logs.lines \subseteq {This}
        BY DEF EvidenceIsOwn
    <3>1. faults = 0 BY FaultsAssumption DEF JInv, Books, FaultsTypeOK
    <3>. QED BY <3>1 DEF JInv, LinesAreOwn, Underway
  <2>. QED BY <2>1, <2>2 DEF EvalInv
<1>. QED BY <1>1, EvidenceInvariant, PTL

\* For every sweep: a fault reads as one that did not reproduce only when a request,
\* a query or a line was lost, since every scenario names a mode the application was
\* found to offer and looks for it where that mode shows.
THEOREM NothingFailsToReproduce == EvalSpec => []ReproducesUnlessLost
<1>1. JInv => ReproducesUnlessLost BY DEF JInv, FaultFires, ReproducesUnlessLost
<1>. QED BY <1>1, EvidenceInvariant, PTL

\* Whatever comes back from earlier runs, an RCA is scored only when something failed
\* in its run: the reproduce check of run_scenario comes before the investigation.
THEOREM ScoresHaveAFault == EvalSpec => []ScoredIsReproduced
<1>1. JInv => ScoredIsReproduced BY DEF JInv, Stood, Explained, ScoredIsReproduced
<1>. QED BY <1>1, EvidenceInvariant, PTL

\* The counts of a report: every run is either adversarial or genuine.
LEMMA SummaryAddsUp ==
  ASSUME NEW rs \in Seq(Result), \A j \in DOMAIN rs : rs[j].scenario \in ScenarioId
  PROVE  LET s == Summary(rs)
             flagged == {j \in DOMAIN rs : rs[j].ok /\ Scenario[rs[j].scenario].adversarial}
         IN /\ s.attempted = Len(rs)
            /\ flagged # {} => s.adversarial.den = Cardinality(flagged)
            /\ "completed" \in DOMAIN s =>
                 s.completed = s.adversarial.den + s.genuine_cause.den
<1> DEFINE runs == DOMAIN rs
           done == {k \in runs : rs[k].ok}
           full == {k \in done : FullyCorrect(rs[k])}
           adversarial == {k \in done : rs[k].scenario \in AdversarialIds}
           flagged == {j \in runs : rs[j].ok /\ Scenario[rs[j].scenario].adversarial}
           s == Summary(rs)
<1>1. IsFiniteSet(runs) /\ Cardinality(runs) = Len(rs)
  <2>1. runs = 1..Len(rs) /\ Len(rs) \in Nat OBVIOUS
  <2>2. ASSUME NEW n \in Nat PROVE IsFiniteSet(1..n) /\ Cardinality(1..n) = n
    <3>1. IsFiniteSet(1..n) /\ Cardinality(1..n) = IF 1 > n THEN 0 ELSE n - 1 + 1
          BY FS_Interval
    <3>. QED BY <3>1
  <2>. QED BY <2>1, <2>2, Zenon
<1>2. IsFiniteSet(done) BY <1>1, FS_Subset
<1>3. adversarial = flagged
  <2>1. \A id \in ScenarioId : Scenario[id].adversarial <=> id \in AdversarialIds
    <3> SUFFICES ASSUME NEW id \in ScenarioId
                 PROVE  Scenario[id].adversarial <=> id \in AdversarialIds
        OBVIOUS
    <3>1. id \in {"S01", "S02", "S04", "S05", "S06", "S07", "S11", "S13", "S14"}
          BY DEF ScenarioId, Scenario
    <3>2. CASE id \in {"S01", "S02", "S04", "S05", "S06", "S07"}
          BY <3>2 DEF Scenario, Genuine, AdversarialIds
    <3>3. CASE id \in {"S11", "S13", "S14"}
          BY <3>3 DEF Scenario, S13, Adversarial, AdversarialIds
    <3>. QED BY <3>1, <3>2, <3>3
  <2>. QED BY <2>1
<1>4. Cardinality(done) = Cardinality(adversarial) + Cardinality(done \ adversarial)
  <2>1. done \cap adversarial = adversarial /\ adversarial \in SUBSET done OBVIOUS
  <2>2. IsFiniteSet(adversarial) BY <1>2, <2>1, FS_Subset
  <2>3. Cardinality(done \ adversarial) = Cardinality(done) - Cardinality(done \cap adversarial)
    <3>. HIDE DEF done, adversarial
    <3>. QED BY <1>2, FS_Difference
  <2>4. Cardinality(done) \in Nat /\ Cardinality(adversarial) \in Nat
        BY <1>2, <2>2, FS_CardinalityType
  <2>5. Cardinality(done \cap adversarial) = Cardinality(adversarial) BY <2>1, Zenon
  <2>. QED
    <3>. HIDE DEF done, adversarial
    <3>. QED BY <2>3, <2>4, <2>5
<1>5. CASE done = {}
  <2>1. s = [error |-> "no successful runs", attempted |-> Cardinality(runs)]
        BY <1>5 DEF Summary
  <2>2. flagged = {} BY <1>3, <1>5
  <2>3. s.attempted = Len(rs) /\ "completed" \notin DOMAIN s
    <3>. HIDE DEF s, runs
    <3>1. s.attempted = Cardinality(runs) BY <2>1
    <3>2. DOMAIN s = {"error", "attempted"} BY <2>1
    <3>. QED BY <1>1, <3>1, <3>2
  <2>. HIDE DEF s, flagged
  <2>4. /\ s.attempted = Len(rs)
        /\ flagged # {} => s.adversarial.den = Cardinality(flagged)
        /\ "completed" \in DOMAIN s => s.completed = s.adversarial.den + s.genuine_cause.den
        BY <2>2, <2>3
  <2>. QED BY <2>4 DEF s, flagged
<1>6. CASE done # {}
  <2>1. /\ s.attempted = Cardinality(runs) /\ s.completed = Cardinality(done)
        /\ s.adversarial = Rate(adversarial, full)
        /\ s.genuine_cause = Rate(done \ adversarial, {k \in done : rs[k].cause_correct})
        BY <1>6 DEF Summary
  <2>2. /\ s.adversarial.den = Cardinality(adversarial)
        /\ s.genuine_cause.den = Cardinality(done \ adversarial)
        BY <2>1 DEF Rate
  <2>3. s.attempted = Len(rs) BY <1>1, <2>1
  <2>4. s.adversarial.den = Cardinality(flagged) BY <1>3, <2>2
  <2>5. s.completed = s.adversarial.den + s.genuine_cause.den BY <1>4, <2>1, <2>2
  <2>. HIDE DEF s, flagged
  <2>6. /\ s.attempted = Len(rs)
        /\ flagged # {} => s.adversarial.den = Cardinality(flagged)
        /\ "completed" \in DOMAIN s => s.completed = s.adversarial.den + s.genuine_cause.den
        BY <2>3, <2>4, <2>5
  <2>. QED BY <2>6 DEF s, flagged
<1>. QED BY <1>5, <1>6

\* What a report holds is of the scenarios of its sweep.
LEMMA ReportedScenarios ==
  ASSUME IInv, Progress, NEW k \in DOMAIN reports
  PROVE  /\ k \in DOMAIN Sweeps /\ reports[k] \in Seq(Result)
         /\ \A j \in DOMAIN reports[k] : reports[k][j].scenario \in ScenarioId
<1>1. [j \in DOMAIN reports[k] |-> <<reports[k][j].scenario, reports[k][j].run>>] = Sweeps[k]
  BY DEF Progress, RunOf
<1>2. reports[k] \in Seq(Result) /\ k \in DOMAIN Sweeps
  <2>1. reports \in Seq(Seq(Result)) /\ Len(reports) <= Len(Sweeps)
    BY DEF IInv, Typed, Progress
  <2>. QED BY <2>1, EvaluationAssumption
<1>3. Sweeps[k] \in Seq(Run) BY <1>2, SweepType
<1>4. ASSUME NEW j \in DOMAIN reports[k] PROVE reports[k][j].scenario \in ScenarioId
  <2>1. Sweeps[k][j] = <<reports[k][j].scenario, reports[k][j].run>> /\ j \in DOMAIN Sweeps[k]
    BY <1>1
  <2>2. Sweeps[k][j] \in Run BY <1>3, <2>1
  <2>. QED BY <2>1, <2>2 DEF Run
<1>. QED BY <1>2, <1>4

\* For every sweep, however its runs ended: a report has every run once and in its
\* order, and its rates are over the runs they name.
THEOREM ReportsAreComplete == EvalSpec => []ReportIsComplete
<1>1. IInv /\ JInv => ReportIsComplete
  <2> SUFFICES ASSUME IInv, JInv, NEW k \in DOMAIN reports
               PROVE  LET rs == reports[k]
                          s == Summary(rs)
                          flagged == {j \in DOMAIN rs :
                                        rs[j].ok /\ Scenario[rs[j].scenario].adversarial}
                      IN /\ [j \in DOMAIN rs |-> <<rs[j].scenario, rs[j].run>>] = Sweeps[k]
                         /\ s.attempted = Len(rs)
                         /\ flagged # {} => s.adversarial.den = Cardinality(flagged)
                         /\ "completed" \in DOMAIN s =>
                              s.completed = s.adversarial.den + s.genuine_cause.den
      BY DEF ReportIsComplete
  <2>1. [j \in DOMAIN reports[k] |-> <<reports[k][j].scenario, reports[k][j].run>>] = Sweeps[k]
        BY DEF JInv, Progress, RunOf
  <2>2. /\ reports[k] \in Seq(Result)
        /\ \A j \in DOMAIN reports[k] : reports[k][j].scenario \in ScenarioId
        BY ReportedScenarios DEF JInv
  <2>. QED BY <2>1, <2>2, SummaryAddsUp
<1>. QED BY <1>1, EvidenceInvariant, PTL
-----------------------------------------------------------------------------
(* The merged reports *)

\* The results that are of a scenario.
Scored == {r \in Result : r.scenario \in ScenarioId}

Rows == Seq(Scored)

LEMMA RowsFacts ==
  /\ <<>> \in Rows /\ Rows \subseteq Seq(Result)
  /\ \A rs \in Rows : /\ Len(rs) \in Nat /\ DOMAIN rs = 1..Len(rs)
                       /\ \A n \in 1..Len(rs) : rs[n] \in Scored
                       /\ <<>> \o rs = rs /\ rs \o <<>> = rs
<1>1. <<>> \in Rows /\ Rows \subseteq Seq(Result) BY DEF Rows, Scored
<1>2. ASSUME NEW rs \in Rows
      PROVE  /\ Len(rs) \in Nat /\ DOMAIN rs = 1..Len(rs)
             /\ \A n \in 1..Len(rs) : rs[n] \in Scored
             /\ <<>> \o rs = rs /\ rs \o <<>> = rs
  BY DEF Rows
<1>. QED BY <1>1, <1>2

LEMMA RowsAppend ==
  ASSUME NEW rs \in Rows, NEW r \in Scored
  PROVE  /\ Append(rs, r) \in Rows /\ Append(rs, r) # <<>> /\ Len(Append(rs, r)) = Len(rs) + 1
         /\ \A n \in 1..Len(rs) : Append(rs, r)[n] = rs[n]
         /\ Append(rs, r)[Len(rs) + 1] = r
BY DEF Rows

LEMMA RowsConcat ==
  ASSUME NEW rs \in Rows, NEW qs \in Rows
  PROVE  /\ rs \o qs \in Rows /\ Len(rs \o qs) = Len(rs) + Len(qs)
         /\ \A n \in 1..Len(rs) : (rs \o qs)[n] = rs[n]
         /\ \A n \in 1..Len(qs) : (rs \o qs)[Len(rs) + n] = qs[n]
BY DEF Rows

LEMMA RowsAppendConcat ==
  ASSUME NEW rs \in Rows, NEW qs \in Rows, NEW r \in Scored
  PROVE  rs \o Append(qs, r) = Append(rs \o qs, r)
BY DEF Rows

\* What Without(rs, replacing) keeps of rs, prefix by prefix.
Keeps(rs, replacing, kept) ==
  /\ kept[0] = <<>>
  /\ \A n \in 1..Len(rs) :
       kept[n] = IF rs[n].scenario \in replacing THEN kept[n - 1] ELSE Append(kept[n - 1], rs[n])

LEMMA WithoutKeeps ==
  ASSUME NEW rs \in Rows, NEW replacing
  PROVE  \E kept \in [0..Len(rs) -> Rows] :
            Keeps(rs, replacing, kept) /\ Without(rs, replacing) = kept[Len(rs)]
<1>. DEFINE L == Len(rs)
            State == Rows
            kept[n \in 0..L] ==
              IF n = 0 THEN <<>>
              ELSE IF rs[n].scenario \in replacing THEN kept[n - 1] ELSE Append(kept[n - 1], rs[n])
            Form(g) == [n \in 0..L |->
              IF n = 0 THEN <<>>
              ELSE IF rs[n].scenario \in replacing THEN g[n - 1] ELSE Append(g[n - 1], rs[n])]
<1>1. L \in Nat /\ <<>> \in State BY RowsFacts
<1>2. PICK step : step = [p \in State \X (1..L) |->
                            IF rs[p[2]].scenario \in replacing THEN p[1] ELSE Append(p[1], rs[p[2]])]
  OBVIOUS
<1>3. step \in StepsUpTo(L, State)
  <2>1. \A n \in 1..L : rs[n] \in Scored BY RowsFacts
  <2>2. \A old \in State, r \in Scored : Append(old, r) \in State BY RowsAppend
  <2>. HIDE DEF State, L
  <2>. QED BY <1>2, <2>1, <2>2 DEF StepsUpTo
<1>4. ASSUME NEW n \in 1..L, NEW old \in State
      PROVE  step[<<old, n>>] = IF rs[n].scenario \in replacing THEN old ELSE Append(old, rs[n])
  BY <1>2
<1>. HIDE DEF L, State
<1>5. PICK f : f \in [0..L -> State] /\ Follows(f, L, <<>>, step)
  BY <1>1, <1>3, RecursionExists
<1>6. f = Form(f)
  <2>1. ASSUME NEW n \in 0..L PROVE f[n] = Form(f)[n]
    <3>1. CASE n = 0 BY <1>5, <3>1 DEF Follows
    <3>2. CASE n # 0
      <4>1. n \in 1..L /\ n - 1 \in 0..L BY <1>1, <3>2
      <4>2. f[n] = step[<<f[n - 1], n>>] /\ f[n - 1] \in State BY <1>5, <4>1 DEF Follows
      <4>. QED BY <1>4, <3>2, <4>1, <4>2
    <3>. QED BY <3>1, <3>2
  <2>. QED BY <1>5, <2>1
<1>7. kept = Form(kept)
  <2>1. kept = CHOOSE g : g = Form(g) BY DEF kept
  <2>. HIDE DEF Form, kept
  <2>. QED BY <1>6, <2>1
<1>. HIDE DEF kept
<1>8. /\ kept[0] = <<>>
      /\ \A n \in 1..L :
           kept[n] = IF rs[n].scenario \in replacing THEN kept[n - 1] ELSE Append(kept[n - 1], rs[n])
  <2>1. 0 \in 0..L /\ \A n \in 1..L : n \in 0..L /\ n # 0 BY <1>1
  <2>. QED BY <1>7, <2>1
<1>9. \A n \in 0..L : kept[n] \in State
  <2>1. \A n \in 1..L : kept[n - 1] \in State => kept[n] = step[<<kept[n - 1], n>>]
    BY <1>4, <1>8
  <2>. QED BY <1>1, <1>3, <1>8, <2>1, RecursionStays
<1>10. kept \in [0..L -> State]
  <2>. HIDE DEF Form
  <2>1. DOMAIN kept = 0..L /\ kept = [n \in 0..L |-> kept[n]] BY <1>7 DEF Form
  <2>. QED BY <1>9, <2>1
<1>11. Keeps(rs, replacing, kept) BY <1>8 DEF Keeps, L
<1>12. Without(rs, replacing) = kept[L] BY DEF Without, kept, L
<1>. QED BY <1>10, <1>11, <1>12 DEF L, State

LEMMA WithoutStays ==
  ASSUME NEW rs \in Rows, NEW replacing
  PROVE  Without(rs, replacing) \in Rows
<1>1. PICK f \in [0..Len(rs) -> Rows] : Without(rs, replacing) = f[Len(rs)] BY WithoutKeeps
<1>2. Len(rs) \in 0..Len(rs) BY RowsFacts
<1>. QED BY <1>1, <1>2

\* What is kept of a beginning does not depend on what follows.
LEMMA KeptOfPrefix ==
  ASSUME NEW rs \in Rows, NEW more \in Rows, NEW replacing, NEW kept, NEW keptMore,
         Len(rs) <= Len(more), \A n \in 1..Len(rs) : rs[n] = more[n],
         Keeps(rs, replacing, kept), Keeps(more, replacing, keptMore)
  PROVE  \A n \in 0..Len(rs) : keptMore[n] = kept[n]
<1>. DEFINE S == {n \in 0..Len(rs) : keptMore[n] = kept[n]}
<1>1. 0 \in S BY DEF Keeps
<1>2. ASSUME NEW n \in 1..Len(rs), n - 1 \in S PROVE n \in S
  <2>1. n \in 1..Len(more) /\ n \in 0..Len(rs) /\ rs[n] = more[n] /\ keptMore[n - 1] = kept[n - 1]
    BY <1>2
  <2>. QED BY <2>1 DEF Keeps
<1>3. Len(rs) \in Nat BY RowsFacts
<1>. HIDE DEF S
<1>4. 0..Len(rs) \subseteq S BY <1>1, <1>2, <1>3, Upwards
<1>. QED BY <1>4 DEF S

LEMMA WithoutAppend ==
  ASSUME NEW rs \in Rows, NEW r \in Scored, NEW replacing
  PROVE  Without(Append(rs, r), replacing) =
           IF r.scenario \in replacing THEN Without(rs, replacing)
                                       ELSE Append(Without(rs, replacing), r)
<1>1. PICK more : more = Append(rs, r) OBVIOUS
<1>1a. more \in Rows BY <1>1, RowsAppend
<1>2. /\ Len(more) = Len(rs) + 1 /\ Len(rs) \in Nat
      /\ \A n \in 1..Len(rs) : more[n] = rs[n]
      /\ more[Len(rs) + 1] = r
  BY <1>1, RowsAppend, RowsFacts
<1>3. PICK kept \in [0..Len(rs) -> Rows] :
         Keeps(rs, replacing, kept) /\ Without(rs, replacing) = kept[Len(rs)]
  BY WithoutKeeps
<1>4. PICK keptMore \in [0..Len(more) -> Rows] :
         Keeps(more, replacing, keptMore) /\ Without(more, replacing) = keptMore[Len(more)]
  BY <1>1a, WithoutKeeps
<1>5. keptMore[Len(rs)] = kept[Len(rs)]
  <2>1. Len(rs) <= Len(more) /\ Len(rs) \in 0..Len(rs) BY <1>2
  <2>. QED BY <1>1a, <1>2, <1>3, <1>4, <2>1, KeptOfPrefix
<1>6. Len(more) \in 1..Len(more) /\ Len(more) - 1 = Len(rs) BY <1>2
<1>. QED BY <1>1, <1>2, <1>3, <1>4, <1>5, <1>6 DEF Keeps

LEMMA WithoutConcat ==
  ASSUME NEW rs \in Rows, NEW qs \in Rows, NEW replacing
  PROVE  Without(rs \o qs, replacing) = Without(rs, replacing) \o Without(qs, replacing)
<1>1. PICK more : more = rs \o qs OBVIOUS
<1>1a. more \in Rows BY <1>1, RowsConcat
<1>2. /\ Len(more) = Len(rs) + Len(qs) /\ Len(rs) \in Nat /\ Len(qs) \in Nat
      /\ \A n \in 1..Len(rs) : more[n] = rs[n]
      /\ \A n \in 1..Len(qs) : more[Len(rs) + n] = qs[n]
  BY <1>1, RowsConcat, RowsFacts
<1>2a. ASSUME NEW f, NEW k, Keeps(rs, replacing, f), Keeps(more, replacing, k)
       PROVE  k[Len(rs)] = f[Len(rs)]
  <2>1. Len(rs) <= Len(more) /\ Len(rs) \in 0..Len(rs) BY <1>2
  <2>2. \A n \in 1..Len(rs) : rs[n] = more[n] BY <1>2
  <2>. QED BY <1>1a, <1>2a, <2>1, <2>2, KeptOfPrefix
<1>3. PICK f \in [0..Len(rs) -> Rows] :
         Keeps(rs, replacing, f) /\ Without(rs, replacing) = f[Len(rs)]
  BY WithoutKeeps
<1>4. PICK g \in [0..Len(qs) -> Rows] :
         Keeps(qs, replacing, g) /\ Without(qs, replacing) = g[Len(qs)]
  BY WithoutKeeps
<1>5. PICK k \in [0..Len(more) -> Rows] :
         Keeps(more, replacing, k) /\ Without(more, replacing) = k[Len(more)]
  BY <1>1a, WithoutKeeps
<1>6. PICK first \in Rows : first = f[Len(rs)]
  <2>1. Len(rs) \in 0..Len(rs) BY <1>2
  <2>. QED BY <2>1
<1>. DEFINE S == {n \in 0..Len(qs) : k[Len(rs) + n] = first \o g[n]}
<1>7. 0 \in S
  <2>1. k[Len(rs)] = f[Len(rs)] BY <1>2a, <1>3, <1>5
  <2>2. g[0] = <<>> /\ Len(rs) + 0 = Len(rs) /\ 0 \in 0..Len(qs) BY <1>2, <1>4 DEF Keeps
  <2>3. first \o <<>> = first BY RowsFacts
  <2>. QED BY <1>6, <2>1, <2>2, <2>3
<1>8. ASSUME NEW n \in 1..Len(qs), n - 1 \in S PROVE n \in S
  <2>1. /\ Len(rs) + n \in 1..Len(more) /\ (Len(rs) + n) - 1 = Len(rs) + (n - 1)
        /\ n - 1 \in 0..Len(qs) /\ n \in 0..Len(qs)
    BY <1>2
  <2>2. PICK old, x : old = g[n - 1] /\ x = qs[n] OBVIOUS
  <2>2a. old \in Rows /\ x \in Scored BY <1>4, <2>1, <2>2, RowsFacts
  <2>3. k[Len(rs) + (n - 1)] = first \o old BY <1>8, <2>2
  <2>4. g[n] = IF x.scenario \in replacing THEN old ELSE Append(old, x)
    BY <1>4, <2>2 DEF Keeps
  <2>5. more[Len(rs) + n] = x BY <1>2, <2>2
  <2>6. k[Len(rs) + n] =
          IF x.scenario \in replacing THEN first \o old ELSE Append(first \o old, x)
    BY <1>5, <2>1, <2>3, <2>5 DEF Keeps
  <2>7. Append(first \o old, x) = first \o Append(old, x) BY <2>2a, RowsAppendConcat
  <2>. QED BY <2>1, <2>4, <2>6, <2>7
<1>9. 0..Len(qs) \subseteq S
  <2>. HIDE DEF S
  <2>. QED BY <1>2, <1>7, <1>8, Upwards
<1>10. Len(qs) \in S
  <2>1. Len(qs) \in 0..Len(qs) BY <1>2
  <2>. HIDE DEF S
  <2>. QED BY <1>9, <2>1
<1>. QED BY <1>1, <1>2, <1>3, <1>4, <1>5, <1>6, <1>10

LEMMA WithoutTwice ==
  ASSUME NEW rs \in Rows, NEW A, NEW B
  PROVE  Without(Without(rs, A), B) = Without(rs, A \cup B)
<1>1. PICK f \in [0..Len(rs) -> Rows] : Keeps(rs, A, f) /\ Without(rs, A) = f[Len(rs)]
  BY WithoutKeeps
<1>2. PICK g \in [0..Len(rs) -> Rows] :
         Keeps(rs, A \cup B, g) /\ Without(rs, A \cup B) = g[Len(rs)]
  BY WithoutKeeps
<1>. DEFINE S == {n \in 0..Len(rs) : Without(f[n], B) = g[n]}
<1>3. Len(rs) \in Nat BY RowsFacts
<1>4. 0 \in S
  <2>1. Without(<<>>, B) = <<>>
    <3>1. PICK none : none = <<>> OBVIOUS
    <3>1a. none \in Rows BY <3>1, RowsFacts
    <3>2. PICK kept \in [0..Len(none) -> Rows] :
             Keeps(none, B, kept) /\ Without(none, B) = kept[Len(none)]
      BY <3>1a, WithoutKeeps
    <3>3. Len(none) = 0 BY <3>1
    <3>. QED BY <3>1, <3>2, <3>3 DEF Keeps
  <2>. QED BY <1>1, <1>2, <1>3, <2>1 DEF Keeps
<1>5. ASSUME NEW n \in 1..Len(rs), n - 1 \in S PROVE n \in S
  <2>1. n - 1 \in 0..Len(rs) /\ n \in 0..Len(rs) OBVIOUS
  <2>2. PICK old, x : old = f[n - 1] /\ x = rs[n] OBVIOUS
  <2>2a. old \in Rows /\ x \in Scored BY <1>1, <2>1, <2>2, RowsFacts
  <2>3. Without(old, B) = g[n - 1] BY <1>5, <2>2
  <2>4. f[n] = IF x.scenario \in A THEN old ELSE Append(old, x) BY <1>1, <2>2 DEF Keeps
  <2>5. g[n] = IF x.scenario \in A \cup B THEN g[n - 1] ELSE Append(g[n - 1], x)
    BY <1>2, <2>2 DEF Keeps
  <2>6. Without(Append(old, x), B) =
          IF x.scenario \in B THEN Without(old, B) ELSE Append(Without(old, B), x)
    BY <2>2a, WithoutAppend
  <2>7. CASE x.scenario \in A BY <2>1, <2>3, <2>4, <2>5, <2>7
  <2>8. CASE x.scenario \notin A BY <2>1, <2>3, <2>4, <2>5, <2>6, <2>8
  <2>. QED BY <2>7, <2>8
<1>6. 0..Len(rs) \subseteq S
  <2>. HIDE DEF S
  <2>. QED BY <1>3, <1>4, <1>5, Upwards
<1>7. Len(rs) \in S BY <1>3, <1>6
<1>. QED BY <1>1, <1>2, <1>7

\* Nothing is left if all are replaced, and something if one is not.
LEMMA WithoutLeaves ==
  ASSUME NEW rs \in Rows, NEW replacing
  PROVE  Without(rs, replacing) = <<>> <=> \A n \in 1..Len(rs) : rs[n].scenario \in replacing
<1>1. PICK f \in [0..Len(rs) -> Rows] :
         Keeps(rs, replacing, f) /\ Without(rs, replacing) = f[Len(rs)]
  BY WithoutKeeps
<1>. DEFINE S == {n \in 0..Len(rs) : f[n] = <<>> <=> \A j \in 1..n : rs[j].scenario \in replacing}
<1>2. Len(rs) \in Nat BY RowsFacts
<1>3. 0 \in S BY <1>1, <1>2 DEF Keeps
<1>4. ASSUME NEW n \in 1..Len(rs), n - 1 \in S PROVE n \in S
  <2>1. n - 1 \in 0..Len(rs) /\ n \in 0..Len(rs) OBVIOUS
  <2>2. PICK old, x : old = f[n - 1] /\ x = rs[n] OBVIOUS
  <2>2a. old \in Rows /\ x \in Scored BY <1>1, <2>1, <2>2, RowsFacts
  <2>3. f[n] = IF x.scenario \in replacing THEN old ELSE Append(old, x) BY <1>1, <2>2 DEF Keeps
  <2>4. Append(old, x) # <<>> BY <2>2a, RowsAppend
  <2>5. old = <<>> <=> \A j \in 1..(n - 1) : rs[j].scenario \in replacing BY <1>4, <2>2
  <2>6. \A j \in 1..n : j = n \/ j \in 1..(n - 1) OBVIOUS
  <2>7. \A j \in 1..(n - 1) : j \in 1..n OBVIOUS
  <2>8. n \in 1..n OBVIOUS
  <2>. QED BY <2>1, <2>2, <2>3, <2>4, <2>5, <2>6, <2>7, <2>8
<1>5. 0..Len(rs) \subseteq S
  <2>. HIDE DEF S
  <2>. QED BY <1>2, <1>3, <1>4, Upwards
<1>6. Len(rs) \in S BY <1>2, <1>5
<1>. QED BY <1>1, <1>6

\* MergedIsLatest, of any reports.
LatestOf(supersede, files, merged, reps) ==
  LET of(rs, id) == Without(rs, ScenarioId \ {id})
      having(id) == {k \in 1..files : of(reps[k], id) # <<>>}
      latest(id) == CHOOSE k \in having(id) : \A j \in having(id) : j <= k
      pooled[n \in 0..Len(reps)] == IF n = 0 THEN <<>> ELSE pooled[n - 1] \o reps[n]
  IN /\ merged \in Seq(Result)
     /\ IF supersede
          THEN \A id \in ScenarioId :
                 of(merged, id) = IF having(id) = {} THEN <<>> ELSE of(reps[latest(id)], id)
          ELSE merged = pooled[files]

\* What the pool of the first reports is.
LEMMA Pooling ==
  ASSUME NEW reps \in Seq(Seq(Result))
  PROVE  LET pooled[n \in 0..Len(reps)] == IF n = 0 THEN <<>> ELSE pooled[n - 1] \o reps[n]
         IN  pooled[0] = <<>> /\ \A n \in 1..Len(reps) : pooled[n] = pooled[n - 1] \o reps[n]
<1>. DEFINE L == Len(reps)
            State == Seq(Result)
            pooled[n \in 0..L] == IF n = 0 THEN <<>> ELSE pooled[n - 1] \o reps[n]
            Form(g) == [n \in 0..L |-> IF n = 0 THEN <<>> ELSE g[n - 1] \o reps[n]]
<1>1. L \in Nat /\ <<>> \in State OBVIOUS
<1>2. PICK step : step = [p \in State \X (1..L) |-> p[1] \o reps[p[2]]] OBVIOUS
<1>3. step \in StepsUpTo(L, State)
  <2>1. \A n \in 1..L : reps[n] \in State OBVIOUS
  <2>2. \A old, new \in State : old \o new \in State OBVIOUS
  <2>. HIDE DEF State, L
  <2>. QED BY <1>2, <2>1, <2>2 DEF StepsUpTo
<1>4. \A n \in 1..L, old \in State : step[<<old, n>>] = old \o reps[n] BY <1>2
<1>. HIDE DEF L, State
<1>5. PICK f : f \in [0..L -> State] /\ Follows(f, L, <<>>, step)
  BY <1>1, <1>3, RecursionExists
<1>6. f = Form(f)
  <2>1. ASSUME NEW n \in 0..L PROVE f[n] = Form(f)[n]
    <3>1. CASE n = 0 BY <1>5, <3>1 DEF Follows
    <3>2. CASE n # 0
      <4>1. n \in 1..L /\ n - 1 \in 0..L BY <1>1, <3>2
      <4>2. f[n] = step[<<f[n - 1], n>>] /\ f[n - 1] \in State BY <1>5, <4>1 DEF Follows
      <4>. QED BY <1>4, <3>2, <4>1, <4>2
    <3>. QED BY <3>1, <3>2
  <2>. QED BY <1>5, <2>1
<1>7. pooled = Form(pooled)
  <2>1. pooled = CHOOSE g : g = Form(g) BY DEF pooled
  <2>. HIDE DEF Form, pooled
  <2>. QED BY <1>6, <2>1
<1>. HIDE DEF pooled
<1>8. pooled[0] = <<>> /\ \A n \in 1..L : pooled[n] = pooled[n - 1] \o reps[n]
  <2>1. 0 \in 0..L /\ \A n \in 1..L : n \in 0..L /\ n # 0 BY <1>1
  <2>. QED BY <1>7, <2>1
<1>. QED BY <1>8 DEF pooled, L

LEMMA NothingIsMerged ==
  ASSUME NEW supersede, NEW reps \in Seq(Seq(Result))
  PROVE  LatestOf(supersede, 0, <<>>, reps)
<1>1. \A id : Without(<<>>, ScenarioId \ {id}) = <<>>
  <2>1. PICK none : none = <<>> OBVIOUS
  <2>1a. none \in Rows BY <2>1, RowsFacts
  <2>2. \A n \in 1..Len(none) : FALSE BY <2>1
  <2>3. ASSUME NEW id PROVE Without(none, ScenarioId \ {id}) = <<>> BY <2>1a, <2>2, WithoutLeaves
  <2>. QED BY <2>1, <2>3
<1>2. <<>> \in Seq(Result) /\ \A k \in 1..0 : FALSE OBVIOUS
<1>. QED BY <1>1, <1>2, Pooling DEF LatestOf

\* One more file: of the scenarios it has, its own results are what is left, and of
\* the others nothing changes.
LEMMA OneMoreIsMerged ==
  ASSUME NEW supersede \in BOOLEAN, NEW reps \in Seq(Seq(Result)), NEW merged \in Rows,
         NEW files \in 0..(Len(reps) - 1), NEW loaded \in Rows, loaded = reps[files + 1],
         NEW replacing, replacing = {loaded[k].scenario : k \in DOMAIN loaded},
         LatestOf(supersede, files, merged, reps)
  PROVE  LET kept == IF supersede THEN Without(merged, replacing) ELSE merged
         IN  kept \o loaded \in Rows /\ LatestOf(supersede, files + 1, kept \o loaded, reps)
<1>1. PICK kept \in Rows : kept = IF supersede THEN Without(merged, replacing) ELSE merged
  <2>1. Without(merged, replacing) \in Rows BY WithoutStays
  <2>. QED BY <2>1
<1>2. PICK new : new = kept \o loaded OBVIOUS
<1>2a. new \in Rows BY <1>2, RowsConcat
<1>3. new \in Seq(Result) BY <1>2a, RowsFacts
<1>4. files \in Nat /\ files + 1 \in 1..Len(reps) /\ Len(reps) \in Nat OBVIOUS
<1>. DEFINE of(rs, id) == Without(rs, ScenarioId \ {id})
            having(n, id) == {k \in 1..n : of(reps[k], id) # <<>>}
            latest(n, id) == CHOOSE k \in having(n, id) : \A j \in having(n, id) : j <= k
<1>5. ASSUME supersede, NEW id \in ScenarioId
      PROVE  of(new, id) = IF having(files + 1, id) = {} THEN <<>>
                                                         ELSE of(reps[latest(files + 1, id)], id)
  <2>1. of(new, id) = of(kept, id) \o of(loaded, id) BY <1>2, WithoutConcat
  <2>2. of(kept, id) = Without(merged, replacing \cup (ScenarioId \ {id}))
    BY <1>1, <1>5, WithoutTwice
  <2>3. \A k \in 1..Len(loaded) : loaded[k].scenario \in ScenarioId
    <3>1. \A k \in 1..Len(loaded) : loaded[k] \in Scored BY RowsFacts
    <3>. QED BY <3>1 DEF Scored
  <2>4. of(loaded, id) = <<>> <=> id \notin replacing
    <3>1. of(loaded, id) = <<>> <=> \A k \in 1..Len(loaded) : loaded[k].scenario \in ScenarioId \ {id}
      BY WithoutLeaves
    <3>2. DOMAIN loaded = 1..Len(loaded) BY RowsFacts
    <3>. QED BY <2>3, <3>1, <3>2
  <2>5. CASE id \in replacing
    <3>1. of(kept, id) = <<>>
      <4>1. \A k \in 1..Len(merged) : merged[k] \in Scored BY RowsFacts
      <4>2. \A k \in 1..Len(merged) : merged[k].scenario \in replacing \cup (ScenarioId \ {id})
        BY <2>5, <4>1 DEF Scored
      <4>. QED BY <2>2, <4>2, WithoutLeaves
    <3>2. of(new, id) = of(loaded, id)
      <4>1. PICK one : one = of(loaded, id) OBVIOUS
      <4>2. one \in Rows BY <4>1, WithoutStays
      <4>3. <<>> \o one = one BY <4>2, RowsFacts
      <4>. QED BY <2>1, <3>1, <4>1, <4>3
    <3>3. files + 1 \in having(files + 1, id) BY <1>4, <2>4, <2>5
    <3>4. \A k \in having(files + 1, id) : k \in Nat /\ k <= files + 1 BY <1>4
    <3>5. latest(files + 1, id) = files + 1
      <4>. HIDE DEF having
      <4>. QED BY <1>4, <3>3, <3>4
    <3>. QED BY <3>2, <3>3, <3>5
  <2>6. CASE id \notin replacing
    <3>1. replacing \cup (ScenarioId \ {id}) = ScenarioId \ {id}
      <4>1. \A k \in DOMAIN loaded : k \in 1..Len(loaded) BY RowsFacts
      <4>. QED BY <2>3, <2>6, <4>1
    <3>2. of(new, id) = of(merged, id)
      <4>1. PICK one : one = of(merged, id) OBVIOUS
      <4>2. one \in Rows BY <4>1, WithoutStays
      <4>3. one \o <<>> = one BY <4>2, RowsFacts
      <4>. QED BY <2>1, <2>2, <2>4, <2>6, <3>1, <4>1, <4>3
    <3>3. having(files + 1, id) = having(files, id)
      <4>1. files + 1 \notin having(files + 1, id) BY <2>4, <2>6
      <4>2. \A k \in 1..(files + 1) : k = files + 1 \/ k \in 1..files BY <1>4
      <4>3. \A k \in 1..files : k \in 1..(files + 1) BY <1>4
      <4>. QED BY <4>1, <4>2, <4>3
    <3>4. of(merged, id) = IF having(files, id) = {} THEN <<>> ELSE of(reps[latest(files, id)], id)
      BY <1>5 DEF LatestOf
    <3>. QED BY <3>2, <3>3, <3>4
  <2>. QED BY <2>5, <2>6
<1>6. ASSUME ~ supersede
      PROVE  LET pooled[n \in 0..Len(reps)] == IF n = 0 THEN <<>> ELSE pooled[n - 1] \o reps[n]
             IN  new = pooled[files + 1]
  <2>. DEFINE pooled[n \in 0..Len(reps)] == IF n = 0 THEN <<>> ELSE pooled[n - 1] \o reps[n]
  <2>1. merged = pooled[files] BY <1>6 DEF LatestOf
  <2>2. \A n \in 1..Len(reps) : pooled[n] = pooled[n - 1] \o reps[n] BY Pooling
  <2>. HIDE DEF pooled
  <2>3. (files + 1) - 1 = files BY <1>4
  <2>4. new = pooled[files + 1] BY <1>1, <1>2, <1>4, <1>6, <2>1, <2>2, <2>3
  <2>. QED BY <2>4 DEF pooled
<1>7. LatestOf(supersede, files + 1, new, reps) BY <1>3, <1>5, <1>6 DEF LatestOf
<1>. QED BY <1>1, <1>2, <1>2a, <1>7

\* The invariant of the merge: nothing is merged before all is reported, and what is
\* merged is of the scenarios.
Merging ==
  /\ pc # "merge" => merge.files = 0 /\ merge.results = <<>>
  /\ merge.results \in Rows
  /\ MergedIsLatest

LEMMA MergedMeansLatest ==
  MergedIsLatest <=> LatestOf(merge.supersede, merge.files, merge.results, reports)
BY DEF MergedIsLatest, LatestOf

LEMMA InitMerging == EvalInit => Merging
<1>. SUFFICES ASSUME EvalInit PROVE Merging OBVIOUS
<1>1. merge.files = 0 /\ merge.results = <<>> /\ reports = <<>> BY DEF EvalInit
<1>2. PICK reps, s : reps = reports /\ s = merge.supersede OBVIOUS
<1>2a. reps \in Seq(Seq(Result)) BY <1>1, <1>2
<1>3. LatestOf(s, 0, <<>>, reps) BY <1>2a, NothingIsMerged
<1>. QED BY <1>1, <1>2, <1>3, MergedMeansLatest, RowsFacts DEF Merging

LEMMA ReportMerging == ASSUME Books, Merging, IInv', Report PROVE Merging'
<1>1. pc = "report" /\ merge.files = 0 /\ merge.results = <<>> BY DEF Report, Merging
<1>2. PICK old : old = merge.supersede OBVIOUS
<1>3. merge'.files = 0 /\ merge'.results = <<>>
  <2>1. merge = [supersede |-> old, files |-> 0, results |-> <<>>] BY <1>1, <1>2 DEF Books
  <2>2. CASE merge' = merge BY <1>1, <2>2
  <2>3. CASE \E s \in BOOLEAN : merge' = [merge EXCEPT !.supersede = s] BY <2>1, <2>3
  <2>. QED BY <2>2, <2>3 DEF Report
<1>4. PICK reps, s : reps = reports' /\ s = merge'.supersede OBVIOUS
<1>4a. reps \in Seq(Seq(Result)) BY <1>4 DEF IInv, Typed
<1>5. LatestOf(s, 0, <<>>, reps) BY <1>4a, NothingIsMerged
<1>6. LatestOf(merge.supersede, merge.files, merge.results, reports)'
  BY <1>3, <1>4, <1>5 DEF LatestOf
<1>7. MergedIsLatest' BY <1>6 DEF MergedIsLatest, LatestOf
<1>. QED BY <1>3, <1>7, RowsFacts DEF Merging

LEMMA MergeMerging ==
  ASSUME IInv, Progress, Books, Merging, Merge
  PROVE  Merging'
<1>1. PICK reps : reps = reports OBVIOUS
<1>1a. reps \in Seq(Seq(Result)) BY <1>1 DEF IInv, Typed
<1>1b. \A k \in 1..Len(reps) : reps[k] \in Rows
  <2>1. ASSUME NEW k \in DOMAIN reports PROVE reports[k] \in Rows
    <3>1. reports[k] \in Seq(Result) /\ \A j \in DOMAIN reports[k] : reports[k][j].scenario \in ScenarioId
      BY ReportedScenarios
    <3>2. \A j \in DOMAIN reports[k] : reports[k][j] \in Scored BY <3>1 DEF Scored
    <3>. QED BY <3>1, <3>2 DEF Rows
  <2>. QED BY <1>1, <1>1a, <2>1
<1>2. PICK files, supersede, merged :
         files = merge.files /\ supersede = merge.supersede /\ merged = merge.results
  OBVIOUS
<1>2a. files \in 0..(Len(reps) - 1) /\ supersede \in BOOLEAN /\ merged \in Rows
  BY <1>1, <1>1a, <1>2 DEF Books, Merging, Merge
<1>3. PICK loaded : loaded = reps[files + 1] OBVIOUS
<1>3a. loaded \in Rows
  <2>1. files + 1 \in 1..Len(reps) BY <1>1a, <1>2a
  <2>. QED BY <1>1b, <1>3, <2>1
<1>4. PICK replacing : replacing = {loaded[k].scenario : k \in DOMAIN loaded} OBVIOUS
<1>5. PICK kept : kept = IF supersede THEN Without(merged, replacing) ELSE merged OBVIOUS
<1>6. LatestOf(supersede, files, merged, reps)
  BY <1>1, <1>2, MergedMeansLatest DEF Merging
<1>7. kept \o loaded \in Rows /\ LatestOf(supersede, files + 1, kept \o loaded, reps)
  BY <1>1a, <1>2a, <1>3, <1>3a, <1>4, <1>5, <1>6, OneMoreIsMerged
<1>8. merge' = [merge EXCEPT !.files = @ + 1, !.results = kept \o loaded]
  BY <1>1, <1>2, <1>3, <1>4, <1>5 DEF Merge
<1>9. /\ merge'.files = files + 1 /\ merge'.results = kept \o loaded
      /\ merge'.supersede = supersede /\ reports' = reps /\ pc' = "merge"
  <2>1. merge = [supersede |-> supersede, files |-> files, results |-> merged]
    BY <1>2 DEF Books
  <2>2. reports' = reports /\ pc' = "merge" BY DEF Merge
  <2>. QED BY <1>1, <1>8, <2>1, <2>2
<1>10. MergedIsLatest'
  <2>1. LatestOf(merge'.supersede, merge'.files, merge'.results, reports') BY <1>7, <1>9
  <2>. QED BY <2>1 DEF MergedIsLatest, LatestOf
<1>. QED BY <1>7, <1>9, <1>10 DEF Merging

LEMMA MergingStep ==
  ASSUME IInv, IInv', JInv, Merging, [EvalNext]_vars
  PROVE  Merging'
<1>1. CASE Report BY <1>1, ReportMerging DEF JInv
<1>2. CASE Merge BY <1>2, MergeMerging DEF JInv
<1>3. CASE UNCHANGED <<merge, reports>> /\ (pc = "merge" => pc' = "merge")
  <2>. PICK s, files, merged, reps :
          s = merge.supersede /\ files = merge.files /\ merged = merge.results /\ reps = reports
    OBVIOUS
  <2>1. MergedIsLatest'
    <3>1. LatestOf(s, files, merged, reps) BY MergedMeansLatest DEF Merging
    <3>2. /\ s = merge'.supersede /\ files = merge'.files /\ merged = merge'.results
          /\ reps = reports'
      BY <1>3
    <3>3. LatestOf(merge'.supersede, merge'.files, merge'.results, reports')
      BY <3>1, <3>2
    <3>. QED BY <3>3 DEF MergedIsLatest, LatestOf
  <2>2. pc' # "merge" => merge'.files = 0 /\ merge'.results = <<>> BY <1>3 DEF Merging
  <2>. QED BY <1>3, <2>1, <2>2 DEF Merging
<1>4. CASE \/ Preflight \/ Start \/ Arm \/ Traffic \/ Check \/ Investigate \/ Raise \/ Finally
           \/ Interrupt \/ (\E tag \in returning : Return(tag)) \/ UNCHANGED vars
  <2>1. UNCHANGED <<merge, reports>> /\ (pc = "merge" => pc' = "merge")
    BY <1>4 DEF Preflight, Start, Arm, Traffic, Check, Investigate, Raise, Finally, Interrupt,
                Return, vars, sweepVars
  <2>. QED BY <1>3, <2>1
<1>. QED BY <1>1, <1>2, <1>4 DEF EvalNext

\* Of whatever reports, in whatever order they are given to merge.py: with --supersede a
\* scenario's runs are those of the last file that has it, and no file's are dropped
\* otherwise.
THEOREM MergeKeepsTheLatest == EvalSpec => []MergedIsLatest
<1>1. EvalInit => Merging BY InitMerging
<1>2. IInv /\ IInv' /\ JInv /\ Merging /\ [EvalNext]_vars => Merging' BY MergingStep
<1>3. Merging => MergedIsLatest BY DEF Merging
<1>. QED BY <1>1, <1>2, <1>3, EvidenceInvariant, PTL DEF EvalSpec
=============================================================================
