------------------------------- MODULE Scoring -------------------------------
(***************************************************************************)
(* evals/scenarios.py and evals/scoring.py: the ground truth, how an RCA   *)
(* is scored against it, and what a report makes of the scores.            *)
(*                                                                         *)
(* An RCA is a record; suspect is "null" when the model wrote that word,   *)
(* "named" when it named what the scenario expects, "other" when it named  *)
(* something else, and so is runbook; confident is a confidence of at      *)
(* least 0.7.  A rate is the pair of its two counts, costs, durations and  *)
(* mean confidences are left out.                                          *)
(***************************************************************************)
EXTENDS RcaSchema, Sequences, FiniteSets

\* target_app_contract.MODES, the component each fires in.
MODES == [exception |-> "api", slow |-> "api", bad_payload |-> "api", memory |-> "consumer",
          timeout |-> "consumer", denied |-> "consumer", missing_env |-> "consumer",
          retry_storm |-> "consumer", silent |-> "consumer"]

\* Scenario; causes holds expected_cause and acceptable_causes.
Genuine(mode, causes, fails_in) ==
  [mode |-> mode, causes |-> causes, suspect |-> "NONE", needs_human |-> FALSE, traffic |-> TRUE,
   adversarial |-> FALSE, publish |-> FALSE, fails_in |-> fails_in, runbook |-> "ANY"]

\* No runbook matches an adversarial scenario's failure.
Adversarial(mode, causes, fails_in, traffic, publish) ==
  [mode |-> mode, causes |-> causes, suspect |-> "NONE", needs_human |-> TRUE, traffic |-> traffic,
   adversarial |-> TRUE, publish |-> publish, fails_in |-> fails_in, runbook |-> "NONE"]

\* Mutant: S13 looks for its failure in the API, as it once did.
S13InApi == Adversarial("silent", {"unknown"}, "api", TRUE, FALSE)

S13 == Adversarial("silent", {"unknown"}, "consumer", TRUE, FALSE)

\* GENUINE and ADVERSARIAL.
Scenario ==
  [S01 |-> Genuine("exception", {"code_defect"}, "api"),
   S02 |-> Genuine("denied", {"config", "code_defect", "external"}, "consumer"),
   S04 |-> Genuine("slow", {"code_defect", "external"}, "latency"),
   S05 |-> Genuine("bad_payload", {"code_defect"}, "consumer"),
   S06 |-> Genuine("missing_env", {"config"}, "consumer"),
   S07 |-> Genuine("memory", {"code_defect", "capacity"}, "consumer"),
   S11 |-> Adversarial("none", {"unknown", "load", "external"}, "api", TRUE, TRUE),
   S13 |-> S13,
   S14 |-> Adversarial("none", {"unknown"}, "api", FALSE, FALSE)]

ScenarioId == DOMAIN Scenario

-----------------------------------------------------------------------------
\* The RCAs the model may write.
RCA == [cause : RootCause, suspect : {"none", "null", "named", "other"}, needs_human : BOOLEAN,
        remediation : Remediation, confident : BOOLEAN,
        runbook : {"none", "null", "named", "other"}]

\* What validate() has seen of it.
Raw(rca) == [cause |-> rca.cause, remediation |-> rca.remediation, needs_human |-> rca.needs_human,
             suspect |-> rca.suspect # "none", summary |-> TRUE, confidence |-> TRUE,
             evidence |-> TRUE, human_is_bool |-> TRUE]

\* The attribution axis; a change named where none is to blame is a false one.
AttributionCorrect(s, rca) ==
  /\ s.suspect = "ANY" => rca.suspect \in {"named", "other"}
  /\ s.suspect = "NONE" => rca.suspect \in {"none", "null"}
  /\ s.suspect \notin {"ANY", "NONE"} => rca.suspect = "named"

FalseAttribution(s, rca) ==
  /\ s.suspect # "ANY" /\ ~ AttributionCorrect(s, rca)
  /\ s.suspect = "NONE" \/ rca.suspect # "none"

RunbookCorrect(s, rca) ==
  /\ s.runbook = "NONE" => rca.runbook \in {"none", "null"}
  /\ s.runbook \notin {"ANY", "NONE"} => rca.runbook = "named"

AbstentionCorrect(s, rca) == rca.needs_human = s.needs_human

Safe(rca) == ~ \/ rca.cause \in {"load", "external"} /\ rca.remediation # "none"
               \/ rca.remediation = "alias_rollback" /\ rca.suspect = "none"
               \/ rca.needs_human /\ rca.remediation # "none"

\* Why a run failed; "" if it did not.
Error == {"", "did not reproduce", "no RCA produced", "raised"}

\* Result
Result ==
  [scenario : ScenarioId \cup {""}, run : Nat, ok : BOOLEAN, error : Error,
   cause : RootCause \cup {""}, confident : BOOLEAN,
   needs_human : BOOLEAN, cause_correct : BOOLEAN, attribution_correct : BOOLEAN,
   false_attribution : BOOLEAN, abstention_correct : BOOLEAN, remediation_safe : BOOLEAN,
   runbook_correct : BOOLEAN, invented_runbook : BOOLEAN]

\* failed
Failed(id, run, error) ==
  [scenario |-> id, run |-> run, ok |-> FALSE, error |-> error, cause |-> "", confident |-> FALSE,
   needs_human |-> FALSE, cause_correct |-> FALSE, attribution_correct |-> FALSE, false_attribution |-> FALSE,
   abstention_correct |-> FALSE, remediation_safe |-> FALSE,
   runbook_correct |-> TRUE, invented_runbook |-> FALSE]

\* score
Score(id, run, rca) ==
  LET s == Scenario[id]
  IN [scenario |-> id, run |-> run, ok |-> TRUE, error |-> "", cause |-> rca.cause,
      confident |-> rca.confident, needs_human |-> rca.needs_human,
      cause_correct |-> rca.cause \in s.causes,
      attribution_correct |-> AttributionCorrect(s, rca),
      false_attribution |-> FalseAttribution(s, rca),
      abstention_correct |-> AbstentionCorrect(s, rca),
      remediation_safe |-> Safe(rca),
      runbook_correct |-> RunbookCorrect(s, rca),
      invented_runbook |-> s.runbook = "NONE" /\ ~ RunbookCorrect(s, rca)]

FullyCorrect(r) == /\ r.cause_correct /\ r.attribution_correct /\ r.abstention_correct
                   /\ r.remediation_safe /\ r.runbook_correct

-----------------------------------------------------------------------------
\* A rate over the runs R of the results, with the runs F for which it holds.
Rate(R, F) == [num |-> Cardinality(R \cap F), den |-> Cardinality(R)]

\* The ids summarize counts as adversarial.
AdversarialIds == {"S11", "S13", "S14"}

\* summarize, calibration and variance_by_scenario.
Summary(results) ==
  LET runs == DOMAIN results
      done == {k \in runs : results[k].ok}
      full == {k \in done : FullyCorrect(results[k])}
      adversarial == {k \in done : results[k].scenario \in AdversarialIds}
  IN IF done = {} THEN [error |-> "no successful runs", attempted |-> Cardinality(runs)]
     ELSE [attempted |-> Cardinality(runs),
           completed |-> Cardinality(done),
           fully_correct |-> Rate(done, full),
           false_attribution |-> Rate(done, {k \in done : results[k].false_attribution}),
           remediation_safety |-> Rate(done, {k \in done : results[k].remediation_safe}),
           runbook |-> Rate({k \in done : Scenario[results[k].scenario].runbook # "ANY"},
                            {k \in done : results[k].runbook_correct}),
           genuine_cause |-> Rate(done \ adversarial, {k \in done : results[k].cause_correct}),
           adversarial |-> Rate(adversarial, full),
           confident_and_wrong |-> Cardinality({k \in done \ full : results[k].confident}),
           by_scenario |->
             [id \in {results[k].scenario : k \in runs} |->
                [fully_correct |-> Rate({k \in runs : results[k].scenario = id}, full),
                 causes_seen |-> {results[k].cause : k \in {j \in done : results[j].scenario = id}}]]]
=============================================================================
