# Sentry, verified

A TLA+ development of Sentry, the incident-triage pipeline of this repository:
models of its components and of their composition, checked with TLC on small
instances, and proofs checked with TLAPS for every instance. Paths below are
relative to the repository.

## The system

    CloudWatch -> SNS -> ingest -> SQS (+ DLQ) -> agent -> incidents table
                                                              |
                     operators, dashboard -> approval gate ---+--> executor -> target functions, flags

Four Lambda functions share one DynamoDB table. None of them keeps state between
invocations; what they know of each other is the table, one queue and one
asynchronous invocation.

| component | state | operations | talks to |
|---|---|---|---|
| incident store (`common/incidents.py`) | the items: status, RCA, names, result, counter | create, suppress, read, transition, list | used by all four |
| ingest (`ingest/handler.py`) | none | one notification: ignore, create + send, or suppress | SNS, table, SQS |
| work queue (`infra/storage.tf`) | messages, receive counts, dead-letter queue | deliver, delete, return, redrive | ingest, agent |
| agent handler (`agent/handler.py`) | none | one work item: skip, or claim, run, route | SQS, table, loop |
| agent loop (`agent/bedrock.py`) | transcript, step and token counts, trace | model calls, tool calls, one repair | Bedrock, tools |
| RCA schema (`agent/schema.py`) | none | validate | agent handler |
| tools (`agent/tools/`) | a token cache | logs, metrics, changes, runbooks | AWS, GitHub |
| approval gate (`approval/handler.py`) | none | approve, reject, list, show | table, executor |
| executor (`executor/handler.py`) | none | guard, act, record EXECUTED or FAILED | table, target |
| dashboard (`frontend/index.html`) | the last list, selection, drawers, a timer | load, poll, open, approve, reject | approval gate |
| evaluation (`evals/`) | what is armed in the target, logs left, result files | arm, drive, check, investigate, score, merge | target application, agent |

What is hard here is not in any one function. Every handler is a sequence of
remote calls, each of which may fail, or succeed and lose its reply (and then be
sent again by the SDK); the invocation may die between any two of them; SNS, SQS
and asynchronous Lambda deliver again what was not acknowledged, and sometimes
what was; reads of the table, scans included, are eventually consistent; two operators, two
deliveries, two incidents or a deployment may meet on one item or one alias. A
listing is read page by page while the table changes. The page has several
requests under way and one set of drawers they all write into. The evaluation
drives a second system whose faults, logs and messages outlive the run that
caused them.
`PROJECT.json` lists these hazards line by line, with the property that covers
each.

What makes each part correct: the store never makes an illegal move and a
decision on an incident is final; ingest opens one investigation per alarm and
window and forgets none; the queue loses nothing and circulates nothing for
ever; an incident is investigated at most once, and the investigation ends with
a safe proposal or with a human; the executor acts only on what a human
approved, as approved, once, and reports honestly; a listing misses nobody and
shows nobody twice; the page reports as decided what was decided, and ends up
showing the table; an evaluation's run meets its own fault and its own evidence,
and its report has every run, counted where it belongs.

## Modules

| module | models |
|---|---|
| `Faults` | a budget of faults, spent by every crash, failed call, lost reply, duplicate |
| `RcaSchema` | `validate()`: the set of complaints about an answer, and how the call ends |
| `IncidentStore` | the table, its lagging replica, and every write with its outcomes |
| `WorkQueue` | SQS with visibility, receive counts and redrive |
| `Ingest`, `Agent`, `Executor`, `Approval` | the four handlers, one action per stretch between two remote calls |
| `Sentry` | their composition, fairness, all properties of the pipeline |
| `TriageContract` | what the pipeline promises about one incident |
| `AgentLoop` | one investigation: `run_agent`, `_converse`, `_run_investigation` |
| `ToolCall` | dispatch of a tool call, its clock and its payload |
| `LogSearch`, `Metrics`, `ChangeHistory`, `Runbooks` | the four tools, one action per remote call |
| `Tools` | any one call, with log lines arriving meanwhile |
| `Listing` | `GET /incidents`: `_dashboard_view` over `list_all` and `list_by_status`, one action per page |
| `Dashboard` | the page: loads, polling, drawers, decisions, one action per handler or continuation |
| `Scoring` | the scenarios, `score` and what a report makes of the scores; pure operators |
| `Evaluation` | sweeps of `harness.py`, one action per step of `run_scenario`, and `merge.py` |
| `SentryGateProofs`, `SentryHistoryProofs` | theorems about `Sentry`: types, approval and the contract; the history of an incident |
| `AgentLoopProofs`, `ToolsProofs`, `ListingProofs`, `DashboardProofs`, `EvaluationProofs` | theorems about the module each is named after |
| `Recursion` | what a function recursive over 0..n computes: it exists, and what each step keeps holds of it |
| `MCSentry`, `MCAgentLoop`, `MCTools`, `MCListing`, `MCDashboard`, `MCEvaluation` | values for TLC |

`IncidentStore` extends `Faults` and `RcaSchema`; `WorkQueue` and `Executor` extend
it; `Ingest` and `Agent` extend `WorkQueue`; `Approval` extends `Executor`; `Sentry`
extends them all. The composition shares `table`, `replica` and `faults`; a step
is a step of one component that leaves the variables of the others alone.
The four tools extend `ToolCall` and share the call, its control state, its clock
and its payload; `Tools` composes them the same way. `AgentLoop` sees of a tool
call whether it failed (`RunTool`); `Tools` is what happens inside that step.

`Listing` and `Dashboard` extend `IncidentStore`: of the pipeline they keep the
writes to the table, as steps of others (`Others`). `Dashboard` takes a listing to
be made in one step (`Serve`), from current or lagging copies incident by incident;
`Listing` is the detail of it. `Scoring` extends
`RcaSchema`, whose `Valid` decides which answers reach `score`; `Evaluation` extends
`Scoring` and `Faults`.

**How code becomes actions.** Each invocation is a worker with a control state
that says which remote call comes next. Everything between two calls is one
step. A call that writes has three outcomes for its caller: `ok`, `refused`
(the condition failed, or the write succeeded, its reply was lost and the SDK's
retry was refused by it), and `error` (before the write took effect or after).
The caller's branches follow the code's `except` clauses. Examples:

* `AgentClaim` is line 70 of the agent handler: `ok` goes on to run, any
  exception is caught by `handler`, which lists the message in
  `batchItemFailures`.
* `AgentConclude` includes `_route` and the verdict's `transition`, which is
  outside the `try`: when it fails, nothing is recorded.
* `ExecutorReadAlias` / `ExecutorShift` / `ExecutorRecord` are `get_alias` with
  `_previous_version`, `update_alias`, and `transition(EXECUTED)`; `ExecutorFail`
  is the handler's `except` clause, which swallows a refusal and re-raises.
* In `AgentLoop` a response, a tool call, the return of the results, and the
  judgement of the final text are the steps; a model's answer is a record of the
  fields `validate()` looks at.
* In `LogSearch` each round of the poll loop is a step (`Poll`, `PollCensus`), its
  deadline another (`PollExpires`, `CensusExpires`), and what runs after a query
  ended is chosen by what it brought (`LookAgain`, `TakeCensus`, `SearchReturns`).

* In `Listing` a page is read in one step, and the table may change before the
  next (`AllPage`, `StatusPage`); an incident is a number, its place in the scan.
  Neither scan asks for `ConsistentRead`, so a page takes any incidents from copies
  that lag (`Copy`, with those of `Lagging`), and may not see a new one at all
  (`InPage`).
* In `Dashboard` whatever follows an `await` is an action of its own, which finds
  the page as it is by then: `Arrive` and `LoadFailed` after `load`'s call, `Detail`
  after `openPanel`'s, `Acted` and `ActFailed` after `act`'s. A request whose
  buttons were redrawn keeps running, with nothing to enable again (`Drawn`).
* In `Evaluation` the steps follow `run_scenario`: `Start` (disarm, isolate), `Arm`,
  `Traffic`, `Check`, `Investigate`, and `Finally`; `Raise` is its `except`, `Interrupt`
  what is none (Ctrl-C); either may come in the middle of the traffic, and then leaves
  the lines and messages of the requests sent so far (`Drive`). `Return` is a message the target's consumer failed on and SQS
  delivers again.

**Abstractions.** The text of alarms, prompts, evidence and logs is left out. An
RCA's `affected_component` and `remediation_detail` are replaced by what
`_resolve_function` and the flag matching make of them (`target`, or `NoTarget`).
A well-formed string, number or list is `TRUE`. Alarm names are values with a
`Slug`. Published versions are 1, 2, ... in order. SNS delivers one record per
event. `_approve` reads the incident only to tell 404 from going on, and items
are not deleted, so that read is one step with the write after it; requests
without a valid token, or about a missing incident, change nothing and are left
out. The 30-day TTL is not modelled.

A log line is its level, what the deduplication key sees of it, whether it is a
platform line that reports a failure, and one correlation id; lines are numbered
in time order. A metric series is a function from the buckets that have a
datapoint, rates are counted in ten-thousandths, the precision they are rounded
to. A CloudTrail event is whose names it carries, and the changes found in the
trail are a set: their order, by time, is left out. Symptoms are the keywords they
hit, and `sorted` with its cut is given by the place each runbook takes (`Place`). A filtered scan examines
`FilterLimit` items or the whole table: one that is cut at 1 MB is one with a lower
limit. The clock of a tool call counts the sleeps and timeouts the tool itself
sets; other calls take no time.

Of the page only what decides which buttons are there, and for which incident, is
kept: the last list as a function from incidents to statuses, whether it is shown,
and the two drawers with their scrim. What a closed drawer still holds is left
out, and two equal lists on their way are one. The target application is external:
an armed fault fires under the traffic that meets it and surfaces where the
scenarios say (`Surfaces`), a message failed on may return once. Rates are pairs of
counts; means are left out.

**History variables** (`runs`, `effects`, `billed`, `asked`; `looks` and `failed` in the
tools; `steady` in `Listing`, `succeeded` in `Dashboard`) record what the code does
not, and no guard reads them.

## What TLC checks

| run | instance | what it shows |
|---|---|---|
| `stale` | 1 incident, 2 agents, 2 operators, 2 executors, 2 messages, 2 events, 2 faults, stale reads | `HumanGate`, `ExecutedMeansDone`, `WorksFromApprovedRca`; `SettledMeansExecuted`: nothing but a lagging read settles the event of an incident that is not concluded; the pipeline implements `TriageContract` |
| `safety` | the same without stale reads, with a recovery notification, fair | `OneInvestigation`, `ConsumedIsQueued`, `DecisionStands`; `QueuesDrain` although things fail |
| `quiet` | 3 notifications in 2 windows making 2 incidents on one function, 2 of every worker, a deployment, no faults, fair | `DedupConservation`; `ServedVersionIsExplained`; `SingleEffect`: each approval acts once; `EveryIncidentSettles`, `EveryApprovalConcludes` |
| `tools` | one call of any kind; logs of up to 4 lines, windows of 3 buckets, 4 CloudTrail events, 4 commits, 4 runbooks | what a call tells the model is what its comments promise: of a search `EmptyIsHonest` and `EntriesStandForRows`, of the metrics `VerdictIsSound`, of changes and runbooks `EvidenceIsHonest`; its time is bounded (`ToolsInv`) |
| `agent_loop` | 3 steps, 2 tools per response, 2 attempts, every combination of the fields that checks relate | `ProposalIsSafe`, `CostIsHonest`, `ConversationIsLegal`, `InvalidAnswerIsRepaired`, the complete trace (`LoopInv`), `LoopEnds` |
| `listing` | 3 incidents, limits of 2, every status list of `MCFilter`, lagging pages | `NobodyIsMissed`, `ListedOnce` |
| `dashboard` | 1 incident, 2 loads, 2 decisions, 2 requests at a time, 1 failing call, lagging lists, fair | the drawers (`DashInv`), `SuccessIsDecision`; `PollingGoesOn`, `BoardCatchesUp`, `DecisionIsShown` |
| `evaluation` | two sweeps of 3 and 2 runs over S05, S11, S13, an application that may lack a mode, 1 fault | `FaultIsOwn`, the run's own evidence (`EvalInv`), `ReproducesUnlessLost`, `ScoredIsReproduced`; `ReportIsComplete`, `PassIsEarned`, `MergedIsLatest` |

A property may be a conjunction whose parts have names and comments of their own:
`LoopInv` is `LoopTypeOK` and `TraceIsComplete`, `ToolsInv` is `ToolsTypeOK` and
`CallIsBounded`, `EmptyIsHonest` is `EmptyIsLookedAtTwice` and `CensusIsWhole`,
`VerdictIsSound` is `LoadIsNotDefect`, `DeadServiceIsNotLoad` and `SlowIsNotQuiet`,
`EvidenceIsHonest` is `DeploymentsAreTheApps`, `CommitsSayTheirFiles` and
`BestRunbooksAreOffered`, `DashInv` is `DashTypeOK` and `DrawersAgree`, `EvalInv` is
`EvalTypeOK` and `EvidenceIsOwn`. The inductive invariants of the proofs belong to no
run; TLC has found them to hold on the instance of the run whose properties they
carry.

Bounds are `CONSTANTS`: `MaxFaults`, `MaxVersion`, and the sizes of `Message`, `Event`
and the worker sets; `MaxToolUses` and `TokenCounts` for the loop. Two of
everything is where races begin: two workers on one item, one original and one
duplicate, a fault and a second one during its recovery. `maxReceiveCount` = 2 is
the deployed value; `MaxAttempts` = 3 is Lambda's default for asynchronous
invocations, `MaxDeliveries` = 3 stands in for SNS's larger number, which adds
repetitions but no new situation. The dedup window is scaled to 3 so that two
notifications fall into one window and a third into the next.

The tools' limits are scaled so that each is reached: `LOG_QUERY_LIMIT` 3 with four
lines, `POLL_TIMEOUT_S` 2 polls, `MAX_COMMITS` 3 with four commits, and a
`COMMIT_DETAIL_BUDGET_S` of 3 with a `GITHUB_TIMEOUT_S` of 2, so that the budget may
run out in the middle of a request, between two, or not at all. Three buckets
make halves of unequal size; the values of a bucket reach both sides of the
verdict's thresholds. `MAX_CORRELATION_SAMPLES` is 2, the fewest with which the
list is kept.

In `listing` a limit of 2 is below, at and above the size of the table; an incident
goes as far as PENDING_APPROVAL or FAILED (`MCStatus`), through both statuses of a
list that is scanned for two, and its copy may lag by any number of these steps. In
`dashboard` the incident starts out waiting for its decision (`MCInit`), which is
where buttons, lagging lists and another operator's rejection meet; two loads are the fewest that overlap, two decisions the fewest that
meet on one incident; with one incident the board, the drawers and the decisions
already race, and `mixed_trace` has the two that its violation needs. The sweeps of
`evaluation` have a fault that surfaces away from where it fires (S05), one in the
consumer (S13), one without a fault but with a deploy (S11), a scenario run twice
in a row and one that both sweeps share; one fault is a lost disarm, a log group
left, a late line, an exception or an interrupt.

**Fairness.** Weak fairness of each worker, of redrive, of the handover to the
executor, and of replication: AWS delivers what is queued, retries it, and lets a
running invocation take its next step. Nothing makes an operator decide, an
alarm fire or a deployment happen, and no fault is obliged to happen or to stay
away. `AgentLoop` assumes that the process goes on running. `Dashboard` assumes that timers fire and that
requests end, one way or the other, and that the replica catches up; the operator, the other operators and the
pipeline are not fair. `Tools`, `Listing` and `Evaluation` have safety properties
only; that a call of a tool comes to an end is the bound on its clock and, for calls
that take no time, their finite number.

### Where the code and its documents disagree

Four runs end in a violation, and are kept for that:

* `lost_alarm`: `create_incident` and `send_message` are two calls; a failure in
  between leaves a NEW incident that no retry will queue, because the retry finds
  its own incident and counts a duplicate ("a lost alarm is worse than a
  duplicate").
* `twice`: an executor that dies after `update_alias` is retried, still reads
  APPROVED and rolls back once more ("the executor cannot run twice"). The
  recorded `from_version`, meant for undoing, is then the version in the middle.
* `no_dlq`: a crashed investigation's message is redelivered, skipped by the
  status guard and deleted; it never reaches the dead-letter queue ("the DLQ is
  where an operator finds out").
* `mixed_trace`: the detail panel writes the record it awaited into whatever panel
  is open when it comes, so the operator may read one incident's trace above
  another one's Approve button ("the view an operator uses to check the agent's
  reasoning before approving").

The models show these too; no run is kept for them:

* `get_item` is eventually consistent; the executor may read PENDING_APPROVAL
  right after the approval and skip, though its comment says "the first execution
  already happened". (`SettledMeansExecuted` excepts that read, and only that one.)
* The scans are, too. A page may miss an incident that was created before it, or show
  one in a status it has left. What was in the same status in every copy is shown
  (`NobodyIsMissed`); an incident that moves while one scan of a list of several
  statuses sees it before the move, and another after, may be in neither. A reload
  1200 ms after a decision may still bring the old status, and without auto-refresh
  nothing corrects it. (`DecisionIsShown` is about decisions every copy knows.)
* The alias is read and written in two calls without a revision; a deployment in
  between makes the rollback skip a version, although `_previous_version` is "the
  published version immediately before the one currently served".
  (`ServedVersionIsExplained` is what still holds.)
* A list or an object as cause or remediation makes `validate()` raise `TypeError`,
  which nobody catches for repair. (`InvalidAnswerIsRepaired` excepts it.)
* Listing several statuses takes one scan after the other, so an incident that
  moves in between is listed twice and counted in both (`approval/handler.py:195`;
  `ListedOnce` excepts these lists). Beyond its limit `list_all` has kept what the
  scan met first and not "newest activity first", and `list_by_status` omits
  matches, as the other's docstring says of it.
* The board may go back for a moment: of two loads the older may arrive last, and
  closing a panel draws the last list over an error message. After a decision
  whatever panel is open is closed (`index.html:1032`).
* "Do not poll into a bad token forever" (`load`), but `schedule(false)` only chooses
  the slow pace: an error schedules the next poll like a success. (`PollingGoesOn`
  asks for polling to go on except after an error, and would hold of a page that did
  what the comment says.) A page opened without a token and with auto-refresh stored
  shows the box checked and polls nothing until the first load.
* `isolate` is to "remove the previous scenario's evidence", but a message of the
  previous scenario comes back after its visibility timeout, fails again, and
  leaves fresh lines; they are evidence for the agent, and for the reproduce check
  a failure of the scenario's own. (`EvidenceIsOwn` and `ScoredIsReproduced` except
  it.)
* `remediation_safety` cannot fail: what `validate()` accepts is safe to `score`
  (the lemma `ValidIsSafe`), so the axis measures nothing. `variance_by_scenario`
  reports 0.0 for a scenario whose runs all failed, which `_rate` says "reads as
  'got everything wrong'", and counts their confidence of 0.0 in the range.
* An interrupted sweep keeps none of its results; `--scenarios S05,S05` makes runs
  that share scenario and index; `merge.py` fails on a file with a scenario that
  has been removed since (S09).

Smaller, and visible in `AgentFail` without a run of its own: the agent handler's
docstring says a failed agent goes to ESCALATED; any exception but two goes to
FAILED. In the tools, where `Tools` shows each of them but no run is kept:

* `_dedupe` drops a list of one correlation id because "the plural list just
  repeats the singular" (`logs.py:219`), but when the first row of the group has no
  id, there is no singular, and the group's only id is lost.
* The census' note says that an empty result is "not that the search failed"
  (`logs.py:354`). It is also attached when the search timed out or failed, as
  line 347 does not look at the status; and the census, taken later and without
  the search term, may itself count lines of the level the note says was absent.
* With a single bucket the second half is empty and its mean rate 0, so a service
  that fails every request is judged `errors_tracked_load`, the reading the comment
  at `metrics.py:298` means to exclude.
* A metric that could not be fetched is an empty series, so errors that could not
  be read become the verdict `no_errors` (`metrics.py:377`).
* A commit whose detail request failed is listed with empty `changed_files` and no
  mark (`changes.py:291`); the comment at line 279 explains why that is wrong for
  the exhausted budget. (`CommitsSayTheirFiles` excepts it: it knows of a failed
  request from the history variable `failed`, as the entry does not tell.)
* An event that names a resource of Sentry's before one of the application's is
  reported under Sentry's name (`_extract_target`).

Read only, not modelled: `_compact_series` takes buckets to be evenly spaced,
which CloudWatch does not promise; the tool's description caps the look-back at 72
hours and the code at 24; "github" is listed as searched only when it had commits; a notification without a
readable time is dated by the clock of the attempt (modelled, `NoTime`, but the runs
use dated ones); the flag scan reads one page; backoff may outlast the Lambda's
timeout; a flag or function whose name contains another's may be taken for it.

## What is proved

TLAPS checks these for every value of the constants that satisfies the modules'
assumptions: any number of incidents, workers, operators, messages, events,
versions and faults, with or without stale reads, unless said otherwise. Every
safety property of the passing runs is a theorem.

**The pipeline: types and the gate** (`SentryGateProofs`).

* `TypesAndReferences`: `Spec => [](TypeOK /\ Refs)`. Types, and that nobody works on
  something that does not exist: a busy worker holds a delivery, a delivery is
  about an incident, an executor about to act has a target it may touch.
* `Invariant`: `Spec => []IInv`.
* `GateHolds`, `ExecutedIsHonest`, `ApprovedRcaOnly`: `HumanGate`,
  `ExecutedMeansDone` and `WorksFromApprovedRca` follow from `IInv`.
* `DecisionsStand`: the action property `DecisionStands`, from `IInv` and
  `BlankUntilConcluded`: an incident without a verdict has neither an RCA nor a name
  on it, so the one write that brings them overwrites nothing.
* `PipelineImplementsContract`: `Spec => ImplementsContract`. Every step of the
  pipeline is, for each incident, a step of `TriageContract` or a stutter. A write is
  one of the permitted transitions, so it maps to the contract's action of the same
  name; a change of the target has `IInv` to show the approval; the rest stutters.

`HumanGate` is not inductive. It speaks of `effects` and of the item, but an executor
about to act may have read the item long ago, from a replica. `IInv` therefore
follows the trail of an approval: the item itself is consistent
(`ItemConsistent`: a status from PENDING_APPROVAL on has an acting RCA, a name on it has the status that
goes with it); a replica that says APPROVED carries the RCA the leader was
approved with (`TableConsistent`); an executor past its guard holds that RCA
and, when it is about to record, has acted (`ExecutorAuthorised`). The central
lemma is that every write to the table keeps the trail: none of the permitted
transitions takes an approved item anywhere but to EXECUTED or FAILED, and none
of them rewrites its RCA or its approver. Each proof has a step per action and
under it a step per conjunct the action disturbs.

**The history of an incident** (`SentryHistoryProofs`).

* `InvestigationIsUnique`: `OneInvestigation`. Inductive is `InvestigatedOnce`: an
  item nobody claimed has not been investigated, and whoever runs is the reason its
  count is 1. The claim moves the item on, so the next one is refused; a claim
  whose reply was lost is refused too, and its worker does not run.
* `InvestigationIsOwned`: while somebody runs, the item is INVESTIGATING
  (`RunnerOwns`); the executor, which could settle it, is never entitled to.
* `ConsumedAlarmIsQueued`: `ConsumedIsQueued`, by `NoticesQueued`: an invocation works on
  the incident its notification names, and what was consumed left a message.
* `OnlyEntitledEvents`, `SettledIsExecuted`: an event is only ever about an incident
  that has been approved; and, with or without stale reads, a step that settles one
  leaves it EXECUTED or FAILED, unless the executor read a copy that had not heard of
  the approval. What a copy shows as
  carried out or failed is so in the table (`CopiesLag`), so any other skip has read
  the end of the incident.
* `DedupKeepsCount`: `DedupConservation`, for finitely many notifications, messages
  and ingest workers (there is nothing to count otherwise) and dated alarms
  (`Countable`; an undated one is dated by each attempt anew). The property is about
  behaviours in which nothing has failed so far, and so is its invariant `DedupInv`:
  whoever handles a notification does so alone (`InHand`), and for every incident the
  suppressions are the suppressed notifications, the items the consumed ones, and
  items and invocations about to send together one (`Tallied`). Each step moves one
  notification or one item from one set to another; the rest is cardinalities.
* `OneEffectEach`, `ServedVersionIsReported`: `SingleEffect` and
  `ServedVersionIsExplained`, for `MaxFaults = 0` and `StaleReads = FALSE`, which is what
  the run `quiet` checks them under: with a fault both are false, the first as the run
  `twice` shows, the second because an executor that dies after `update_alias`, and is
  not tried again, leaves nobody to say where the alias went. Nothing else is
  bounded: operators, workers, deployments, incidents about one function. `QuietInv` says in whose hands an approval is (one
  request, or one event, which one invocation has) and that the effect counter is
  still 0 there until the record; `AliasExplained` adds the invocation that is about to
  report.

**One investigation** (`AgentLoopProofs`): `TraceHoldsEveryCall`,
`CostCountsEveryResponse`, `RequestsAreLegal`, `InvalidAnswersAreRepaired`,
`AcceptedIsSafe`, for any set of answers and any limits. The invariant `LoopIInv` says
whose turn it is (`Turns`: the transcript alternates and, but for the last message,
each tool use has its results), that trace, cost and counters grow together
(`Counts`), and that an answer is judged before it is accepted (`Progress`). That an
accepted answer is safe then follows from `Errors`, check by check.

**One tool call** (`ToolsProofs`), for any log, history, symptoms and limits:

* `CallsEndInTime`: `ToolsInv`. The bound on the clock is not inductive; `TimeIsSpent`
  gives each control state its share (a poll its deadline, a detail its budget).
* `EmptySearchIsHonest`: `EmptyIsHonest`. `LooksAreKept` says which looks were taken by
  each point of `run`; that the census left nothing out is a comparison of cardinalities
  (`MoreLinesCountMore`), as lines arrive between the look and the census.
* `EvidenceCanBeTrusted`: `EvidenceIsHonest`. `EvidenceInv` says of an
  unfinished call that each deployment found so far concerns the application by the
  names it carries (`TheApps`), and that the events naming it of every lookup that
  answered are among them (`FoundIn`), for all lookups by the time commits are listed
  (`AllLookedUp`). Commits by `CommitsAreComplete`;
  runbooks by
  `RankedIsBest`, which shows that the places of a stable sort are 1 to n, one each
  (an injection of a finite set into an interval of its size is onto), and so that
  whatever is cut off scores no more than anything offered.
* `NothingOfFrequencyIsLost`: `EntriesStandForRows`. `StandFor` says of the groups after
  each row what the property says of the entries at the end; one row moves it on by
  one case per group (`AnotherRow`, `FirstRow`). The sum of the entries' counts per
  level is the number of its rows by the same induction (`LevelsAdd`).
  `RowsInv` adds for unfinished searches that rows are lines that have arrived, each
  once (`FoundAreRows`: the newest of a set, by rank). It needs
  `MAX_CORRELATION_SAMPLES` to be 2 at least, as it is (3): with 1 the list of ids would
  always be dropped.
* `VerdictsCanBeTrusted`: `VerdictIsSound`, for any numbers of requests, errors and
  milliseconds in any number of buckets. `MetricsInv` says what the verdict is taken
  from; the rest is arithmetic: equal shares are rounded to equal rates (`SameRate`),
  their mean in either half is that rate (`MeanOfSame`), and where each value of one
  half is twice any of the other the means are, too, whatever the two lengths are
  (`TotalWeighs`). The proof is why `LoadIsNotDefect` asks for a share of 0.4999 at the
  most: 5000 errors of 10001 requests are less than half, but the rate is rounded to
  0.5 and judged `errors_saturated`.

**The listing** (`ListingProofs`): `ListingCovers`, `ListingMissesNobody`,
`ListingShowsOnce`, for tables, pages, limits and status lists of any
size. `NobodyIsMissed` speaks of a finished listing; `ListingInv` says of an
unfinished one that whoever matched all along, in every copy, is found or still
ahead: behind the cursor of `list_all`, or with a status not yet scanned, or behind
as many others as a scan examines (`BeyondScan`). The second needs that the
enum lists every status before those that may follow it (`Before`), so nobody can
move back behind the scans, and that a scan that saw all it may examine leaves out
only those behind them (by cardinalities), as what a lagging page shows to exist
does exist.

**The page** (`DashboardProofs`): `PageIsConsistent`, `OnlyErrorsEndPolling`,
`ReportedIsDecided`, for any number of incidents, loads and decisions under way.
The second follows from `StillPolls`, which is more than the page promises: with
auto-refresh on, once the page has asked, there is a timer or a load, after an error
too.
`SuccessIsDecision` needs `DashIInv` to follow an answer on its way back: a request
that was accepted is about an incident that is decided, with this operator's name
on it, and nobody decides on it again (`AnswersAreDecisions`); so no second answer
says the same or the opposite.

**The evaluation** (`EvaluationProofs`), for any sweeps, answers and number of faults:

* `TrafficMeetsOwnFault`: `FaultIsOwn`. `IInv` counts the disarms an armed fault has
  survived: one after a run's `finally`, two after the next one's start, so whatever
  else the traffic meets has survived both.
* `EvidenceBelongsToRun`, `NothingFailsToReproduce`, `ScoresHaveAFault`: `EvalInv`,
  `ReproducesUnlessLost`, `ScoredIsReproduced`. `JInv` says whose lines there are
  while nothing is lost (`LinesAreOwn`), follows a fault from its arming to the place it
  is looked for in (`FaultFires`), and keeps what a run that found a failure found it
  in: its own fault, a late line, or a mode left armed (`Stood`). For the last it needs
  that only earlier runs' messages come back (`MessagesAreEarlier`).
* `ReportsAreComplete`: `ReportIsComplete`. A sweep's results are its runs, in their
  order, and the counts a rate is made of are those of the runs it names.
* `PassesAreEarned`: `PassIsEarned`. A pass is followed
  from `validate()` through `score`: `ValidIsSafe` and `ScoreIsEarned` are about every
  RCA and every scenario.
* `MergeKeepsTheLatest`: `MergedIsLatest`, for any number of reports of any length. What
  `Without` keeps of a concatenation is the concatenation of what it keeps
  (`Merging` carries the property from file to file).

**Recursion over data** (`Recursion`). The library's theorems on induction and
recursive definitions take an operator as a parameter, which none of the provers at
hand can instantiate. `Recursion` has them for sets instead: a set of numbers that
has 0, and n + 1 with n, has all (`Upwards`); for every function `step` on states there
is an f with f[0] given and f[n] = step[f[n - 1], n] (`RecursionExists`, from the
finite approximations); and a set that each step keeps has all of f
(`RecursionStays`). What `Dedupe`, `Total` and the pooled reports compute is stated by
means of these, and so are `Ascending` (a set in order, by ranks) and `Without`.

Assumptions: those of the modules (`FaultsAssumption`, `StoreAssumption`,
`QueueAssumption`, `IngestAssumption`, `AgentAssumption`, `ExecutorAssumption`,
`ApprovalAssumption`, `LoopAssumption`, `LogAssumption`, `ChangesAssumption`,
`MetricsAssumption`, `RunbooksAssumption`, `ListingAssumption`, `DashboardAssumption`,
`EvaluationAssumption`), each of which TLC evaluates in the runs, and the hypotheses
named above. `StoreAssumption` says every RCA of an investigation is `Valid`; that the
loop delivers no other is `AcceptedIsSafe`. `MetricsAssumption` says that a series has
finitely many buckets and natural values: requests and errors are counts, and of
durations, which are averages, only ratios matter, so that they may be counted in any
unit small enough.

Only model-checked:

* liveness (`QueuesDrain`, `EveryIncidentSettles`, `EveryApprovalConcludes`, `LoopEnds`,
  `BoardCatchesUp`, `DecisionIsShown`): fairness and ENABLED are out of this prover's
  reach;
* the four violations, which are behaviours.

## Not modelled, and the plan

1. *Proofs*: the converse of the contract's mapping, which steps of the pipeline
   stutter.
2. *Executor text matching* (`_resolve_function`, the flag scan): which text of a
   model names which function is a question about strings, and its answer is the
   RCA's `target` here. Undated notifications across a window boundary.

Left out for good: prompt text, configuration, logging (no state); what the page
draws and the credentials it stores; the calls behind the tools (I/O), the purge of
the target's dead-letter queue, which decides nothing in the harness; IAM roles,
alarms and outputs (no behaviour of their own).
