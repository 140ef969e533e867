----------------------------- MODULE Evaluation ------------------------------
(***************************************************************************)
(* evals/harness.py and evals/merge.py: sweeps over the scenarios, each    *)
(* run of which arms a fault in the target application, drives traffic     *)
(* through it, looks whether it failed, has the agent investigate and      *)
(* scores the RCA; then the reports are merged.                            *)
(*                                                                         *)
(* The target application and its queue are modelled from how the harness  *)
(* uses them: an armed fault fires where it surfaces, and a message the    *)
(* consumer failed on may come back, once, in a later run, and fail again. *)
(***************************************************************************)
EXTENDS Faults, Scoring

CONSTANTS
  Sweeps,    \* the sweeps: each a sequence of runs, pairs of scenario and index
  Answers,   \* the RCAs the agent may come to
  Offered    \* the sets of modes the deployed application may offer, "new" being one of its own

Run == ScenarioId \X Nat
Tag == (1..Len(Sweeps)) \X (Nat \ {0})   \* a run by its sweep and its place there

ASSUME EvaluationAssumption ==
  /\ Sweeps \in Seq(Seq(Run)) /\ Sweeps # <<>> /\ \A k \in DOMAIN Sweeps : Sweeps[k] # <<>>
  /\ Answers \subseteq RCA
  /\ Offered \subseteq SUBSET (DOMAIN MODES \cup {"new"})

VARIABLES
  pc,        \* where the harness is
  todo,      \* the runs of this sweep still to do
  app,       \* the modes offered and armed, and how many disarms each armed one survived
  logs,      \* the runs there are lines of, where something failed since the traffic,
             \* whether by the run's own fault, and whether by another run's message
  returning, \* the runs of which a message will come back
  result,    \* what run_scenario is about to return
  results,   \* of this sweep
  reports,   \* the files written
  merge      \* merge.py: --supersede, the files read and what it has of them

sweepVars == <<pc, todo, app, logs, returning, result, results, reports, merge>>
vars == <<faults, sweepVars>>

Mode == DOMAIN MODES
Place == {"api", "latency", "consumer"}

\* Where a mode's failure shows.
Surfaces(m) == CASE m = "slow" -> "latency" [] m = "bad_payload" -> "consumer" [] OTHER -> MODES[m]

Cleared == [lines |-> {}, fresh |-> {}, own |-> FALSE, late |-> FALSE]
NoResult == Failed("", 0, "")

Current == Head(todo)
Now == Scenario[Current[1]]
This == <<Len(reports) + 1, Len(results) + 1>>   \* this run, among those of all sweeps
FailedNow(error) == Failed(Current[1], Current[2], error)

EvalInit ==
  /\ faults = 0
  /\ pc = "preflight"
  /\ todo = Sweeps[1]
  /\ \E modes \in Offered : app = [offered |-> modes, armed |-> {}, survived |-> [m \in Mode |-> 0]]
  /\ logs = Cleared
  /\ returning = {}
  /\ result = NoResult
  /\ results = <<>>
  /\ reports = <<>>
  /\ merge = [supersede |-> FALSE, files |-> 0, results |-> <<>>]

-----------------------------------------------------------------------------
\* check_modes_against_deployment, and drain_dead_letter_queues, which never fails.
Preflight ==
  /\ pc = "preflight"
  /\ \/ Mode \subseteq app.offered /\ pc' = "start" /\ NoFault
     \/ ~ Mode \subseteq app.offered /\ pc' = "raised" /\ NoFault
     \/ pc' = "raised" /\ Fault
  /\ UNCHANGED <<todo, app, logs, returning, result, results, reports, merge>>

\* disarm_all, when the requests for the modes lost are lost, which it hides.
Disarmed(lost) ==
  [offered |-> app.offered, armed |-> lost,
   survived |-> [m \in Mode |-> IF m \in lost THEN app.survived[m] + 1 ELSE 0]]

\* Mutant: what the run before left armed stays so.
StartAsItIs ==
  /\ pc = "start"
  /\ pc' = "arm"
  /\ logs' = Cleared
  /\ NoFault
  /\ UNCHANGED <<todo, app, returning, result, results, reports, merge>>

\* Mutant: the log groups are left as they are.
StartWithoutIsolate ==
  /\ pc = "start"
  /\ pc' = "arm"
  /\ app' = Disarmed({})
  /\ logs' = [Cleared EXCEPT !.lines = logs.lines]
  /\ NoFault
  /\ UNCHANGED <<todo, returning, result, results, reports, merge>>

\* isolate, which only warns of a group it could not clear.
Isolated(cleared) == [Cleared EXCEPT !.lines = IF cleared THEN {} ELSE logs.lines]

\* run_scenario: disarm_all and isolate.
Start ==
  /\ pc = "start"
  /\ pc' = "arm"
  /\ \E lost \in SUBSET app.armed, cleared \in BOOLEAN :
       /\ app' = Disarmed(lost)
       /\ logs' = Isolated(cleared)
       /\ IF lost = {} /\ cleared THEN NoFault ELSE Fault
  /\ UNCHANGED <<todo, returning, result, results, reports, merge>>

\* arm: it does not look at the answer, and a mode the application does not
\* offer arms nothing.
Armed(mode) == [app EXCEPT !.armed = @ \cup ({mode} \cap app.offered),
                           !.survived = [@ EXCEPT ![mode] = 0]]

\* publish_and_alias, of which nothing is kept here, and arm, whose request may
\* be lost.
Arm ==
  /\ pc = "arm"
  /\ pc' = "traffic"
  /\ \/ /\ Now.mode # "none"
        /\ app' = Armed(Now.mode)
        /\ NoFault
     \/ UNCHANGED app /\ (IF Now.mode = "none" THEN NoFault ELSE Fault)
  /\ UNCHANGED <<todo, logs, returning, result, results, reports, merge>>

\* The faults drive_traffic runs into.
Firing == IF Now.traffic THEN app.armed ELSE {}

\* What requests leave behind of which these faults fired.
Drive(fired) ==
  LET fresh == {Surfaces(m) : m \in fired}
  IN /\ logs' = [lines |-> logs.lines \cup (IF fired = {} THEN {} ELSE {This}),
                 fresh |-> fresh, own |-> Now.mode \in fired, late |-> logs.late]
     /\ returning' = returning \cup (IF "consumer" \in fresh THEN {This} ELSE {})

\* All of the traffic.
Traffic ==
  /\ pc = "traffic"
  /\ pc' = "check"
  /\ Drive(Firing)
  /\ NoFault
  /\ UNCHANGED <<todo, app, result, results, reports, merge>>

\* A message the consumer failed on is delivered again, and may fail again.
Return(tag) ==
  /\ pc \in {"start", "arm", "traffic", "check", "investigate", "finally"}
  /\ returning' = returning \ {tag}
  /\ \/ logs' = [logs EXCEPT !.lines = @ \cup {tag}, !.fresh = @ \cup {"consumer"},
                             !.late = @ \/ tag # This]
     \/ UNCHANGED logs
  /\ NoFault
  /\ UNCHANGED <<pc, todo, app, result, results, reports, merge>>

\* Mutant: the reproduce check of a consumer's fault is skipped.
CheckNoConsumer ==
  /\ pc = "check"
  /\ LET reproduced == Now.mode = "none" \/ Now.fails_in = "consumer" \/ Now.fails_in \in logs.fresh
     IN IF reproduced
          THEN pc' = "investigate" /\ UNCHANGED result
          ELSE pc' = "finally" /\ result' = FailedNow("did not reproduce")
  /\ NoFault
  /\ UNCHANGED <<todo, app, logs, returning, results, reports, merge>>

\* What the check sees: _consumer_errors_since finds nothing when the lines are
\* late or its query does not end in time.
Seen(fails) ==
  \/ fails = (Now.fails_in \in logs.fresh) /\ NoFault
  \/ fails = FALSE /\ Now.fails_in = "consumer" /\ Fault

\* Did the fault reproduce, where the scenario says it shows?
Check ==
  /\ pc = "check"
  /\ \E fails \in BOOLEAN :
       /\ Seen(fails)
       /\ LET reproduced == Now.mode = "none" \/ fails
          IN IF reproduced
               THEN pc' = "investigate" /\ UNCHANGED result
               ELSE pc' = "finally" /\ result' = FailedNow("did not reproduce")
  /\ UNCHANGED <<todo, app, logs, returning, results, reports, merge>>

\* What create_incident, run_agent_sync and read_incident may bring: an
\* investigation that ends without a valid RCA, or whose incident is read too
\* early, brings none.
Investigated ==
  {Score(Current[1], Current[2], rca) : rca \in {answer \in Answers : Valid(Raw(answer))}}
    \cup {FailedNow("no RCA produced")}

\* The agent investigates, and its RCA is scored.
Investigate ==
  /\ pc = "investigate"
  /\ pc' = "finally"
  /\ result' \in Investigated
  /\ NoFault
  /\ UNCHANGED <<todo, app, logs, returning, results, reports, merge>>

\* Mutant: an exception ends the sweep.
RaiseOn ==
  /\ pc \in {"arm", "traffic", "check", "investigate"}
  /\ pc' = IF Len(todo) = 1 THEN "report" ELSE "start"
  /\ todo' = Tail(todo)
  /\ Fault
  /\ UNCHANGED <<app, logs, returning, result, results, reports, merge>>

\* Any step may raise, drive_traffic in the middle of its requests as well, which
\* leave behind what they have until then; the run is reported as failed.
Raise ==
  /\ pc \in {"arm", "traffic", "check", "investigate"}
  /\ pc' = "finally"
  /\ result' = FailedNow("raised")
  /\ \/ UNCHANGED <<logs, returning>>
     \/ pc = "traffic" /\ \E fired \in SUBSET Firing : Drive(fired)
  /\ Fault
  /\ UNCHANGED <<todo, app, results, reports, merge>>

\* The finally of run_scenario, and the loop of main.
Finally ==
  /\ pc = "finally"
  /\ \E lost \in SUBSET app.armed :
       app' = Disarmed(lost) /\ IF lost = {} THEN NoFault ELSE Fault
  /\ results' = Append(results, result)
  /\ result' = NoResult
  /\ todo' = Tail(todo)
  /\ pc' = IF Len(todo) = 1 THEN "report" ELSE "start"
  /\ UNCHANGED <<logs, returning, reports, merge>>

\* Somebody stops the sweep: it disarms, and the results it had are gone.  No run
\* follows in this process, so what its traffic has left is of no account.
Interrupt ==
  /\ pc \in {"arm", "traffic", "check", "investigate", "finally"}
  /\ app' = Disarmed({})
  /\ pc' = "raised"
  /\ Fault
  /\ UNCHANGED <<todo, logs, returning, result, results, reports, merge>>

\* The report is written; another sweep follows, or merge.py.
Report ==
  /\ pc = "report"
  /\ reports' = Append(reports, results)
  /\ results' = <<>>
  /\ \/ /\ Len(reports') < Len(Sweeps)
        /\ pc' = "preflight" /\ todo' = Sweeps[Len(reports') + 1]
        /\ UNCHANGED merge
     \/ /\ Len(reports') = Len(Sweeps)
        /\ pc' = "merge" /\ UNCHANGED todo
        /\ \E supersede \in BOOLEAN : merge' = [merge EXCEPT !.supersede = supersede]
  /\ NoFault
  /\ UNCHANGED <<app, logs, returning, result>>

\* Mutant: only the runs with the same index are replaced.
MergeByRun ==
  /\ pc = "merge" /\ merge.files < Len(reports)
  /\ LET loaded == reports[merge.files + 1]
         replacing == {<<loaded[k].scenario, loaded[k].run>> : k \in DOMAIN loaded}
         kept == IF merge.supersede
                   THEN SelectSeq(merge.results, LAMBDA r : <<r.scenario, r.run>> \notin replacing)
                   ELSE merge.results
     IN merge' = [merge EXCEPT !.files = @ + 1, !.results = kept \o loaded]
  /\ NoFault
  /\ UNCHANGED <<pc, todo, app, logs, returning, result, results, reports>>

\* The results that are not of these scenarios, in their order.
Without(rs, replacing) ==
  LET kept[n \in 0..Len(rs)] ==
        IF n = 0 THEN <<>>
        ELSE IF rs[n].scenario \in replacing THEN kept[n - 1] ELSE Append(kept[n - 1], rs[n])
  IN kept[Len(rs)]

\* One file of merge.py's loop.
Merge ==
  /\ pc = "merge" /\ merge.files < Len(reports)
  /\ LET loaded == reports[merge.files + 1]
         replacing == {loaded[k].scenario : k \in DOMAIN loaded}
         kept == IF merge.supersede THEN Without(merge.results, replacing) ELSE merge.results
     IN merge' = [merge EXCEPT !.files = @ + 1, !.results = kept \o loaded]
  /\ NoFault
  /\ UNCHANGED <<pc, todo, app, logs, returning, result, results, reports>>

EvalNext ==
  \/ Preflight \/ Start \/ Arm \/ Traffic \/ Check \/ Investigate \/ Raise
  \/ Finally \/ Interrupt \/ Report \/ Merge
  \/ \E tag \in returning : Return(tag)

EvalSpec == EvalInit /\ [][EvalNext]_vars

-----------------------------------------------------------------------------
\* Types; in particular only modes of the contract are armed.
EvalTypeOK ==
  /\ FaultsTypeOK
  /\ pc \in {"preflight", "start", "arm", "traffic", "check", "investigate", "finally",
             "report", "merge", "raised"}
  /\ todo \in Seq(Run)
  /\ app \in [offered : SUBSET (Mode \cup {"new"}), armed : SUBSET Mode, survived : [Mode -> Nat]]
  /\ logs \in [lines : SUBSET Tag, fresh : SUBSET Place, own : BOOLEAN, late : BOOLEAN]
  /\ returning \subseteq Tag
  /\ result \in Result /\ results \in Seq(Result) /\ reports \in Seq(Seq(Result))
  /\ merge.supersede \in BOOLEAN /\ merge.files \in 0..Len(reports)

\* Traffic meets no fault but the scenario's own, however the runs before ended,
\* unless the application twice did not hear that the other is disarmed.
FaultIsOwn ==
  pc \in {"traffic", "check"} =>
     \A m \in app.armed \ {Now.mode} : app.survived[m] >= 2

\* "did not reproduce" is never the harness's own doing: as long as nothing was
\* lost, every armed fault fires and is looked for where it shows, so no drifted
\* mode or wrong fails_in reads as a finding.
ReproducesUnlessLost ==
  pc = "finally" /\ result.error = "did not reproduce" => faults > 0

\* An RCA is scored only against a fault that fired: its own, or one that stands
\* in for it, which is a message of another run coming back or a mode that could
\* not be disarmed.
ScoredIsReproduced ==
  pc = "finally" /\ result.ok /\ Now.mode # "none" =>
     logs.own \/ logs.late \/ app.armed \ {Now.mode} # {}

\* The agent finds the lines of no other run ("Remove the previous scenario's
\* evidence before the next one runs"), unless a log group could not be cleared
\* or a message of that run has come back since.
EvidenceIsOwn ==
  pc = "investigate" /\ logs.lines \ {This} # {} => faults > 0 \/ logs.late

\* What holds throughout a sweep: the types, and that the evidence is the run's.
EvalInv == EvalTypeOK /\ EvidenceIsOwn

\* A report that is written has every run of the sweep once and in its order,
\* failed ones included, and its rates are over the runs they name: the
\* adversarial ones are those the scenarios call adversarial.
ReportIsComplete ==
  \A k \in DOMAIN reports :
     LET rs == reports[k]
         s == Summary(rs)
         flagged == {j \in DOMAIN rs : rs[j].ok /\ Scenario[rs[j].scenario].adversarial}
     IN /\ [j \in DOMAIN rs |-> <<rs[j].scenario, rs[j].run>>] = Sweeps[k]
        /\ s.attempted = Len(rs)
        /\ flagged # {} => s.adversarial.den = Cardinality(flagged)
        /\ "completed" \in DOMAIN s =>
             s.completed = s.adversarial.den + s.genuine_cause.den

\* What the schema lets through is safe in the eyes of the scoring as well, and
\* an adversarial scenario is passed only by leaving it to a human.
Earned(r) ==
  r.ok => /\ r.remediation_safe
          /\ FullyCorrect(r) /\ Scenario[r.scenario].adversarial =>
               r.needs_human /\ ~r.false_attribution /\ ~r.invented_runbook

PassIsEarned == \A k \in DOMAIN results : Earned(results[k])

\* With --supersede a merged report has of each scenario the runs of the last
\* file it is in and no others; without, it pools all files.
MergedIsLatest ==
  LET of(rs, id) == Without(rs, ScenarioId \ {id})
      having(id) == {k \in 1..merge.files : of(reports[k], id) # <<>>}
      latest(id) == CHOOSE k \in having(id) : \A j \in having(id) : j <= k
      pooled[n \in 0..Len(reports)] == IF n = 0 THEN <<>> ELSE pooled[n - 1] \o reports[n]
  IN /\ merge.results \in Seq(Result)
     /\ IF merge.supersede
          THEN \A id \in ScenarioId :
                 of(merge.results, id) =
                   IF having(id) = {} THEN <<>> ELSE of(reports[latest(id)], id)
          ELSE merge.results = pooled[merge.files]
=============================================================================
