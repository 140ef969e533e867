----------------------------- MODULE ToolsProofs -----------------------------
(***************************************************************************)
(* What is proved of Tools: that a call's types hold and its time is       *)
(* bounded whatever AWS and GitHub do, that an empty search has been made  *)
(* twice and its census left nothing out, that a commit that was listed    *)
(* says its files, that the deployments reported are the application's and *)
(* leave none out, that the best runbooks are offered, that the entries of *)
(* a search stand for the rows they replace, and that the verdict on       *)
(* complete measurements is sound; for all logs, histories, measurements,  *)
(* symptoms, limits and calls.                                             *)
(***************************************************************************)
EXTENDS Tools, Recursion

\* Whose call it is, by where its invocation stands.
ServedBy ==
  /\ pc \in {"start_query", "poll", "queried"} => call.tool = "search_logs"
  /\ pc \in {"lookup", "list", "detail", "merge"} => call.tool = "get_recent_changes"
  /\ call.tool = "get_recent_changes" => history \in History

\* The latest second at which a search starts the query it is at.
LatestStart == CASE query = "first" -> 0
                 [] query = "retry" -> POLL_TIMEOUT_S + EMPTY_RETRY_SLEEP_S
                 [] OTHER           -> 2 * POLL_TIMEOUT_S + EMPTY_RETRY_SLEEP_S

\* How the time a call has spent is made up.
TimeIsSpent ==
  /\ deadline \in Nat /\ budgetEnds \in Nat
  /\ pc \in {"dispatch", "fetch", "lookup", "list", "match"} => clock = 0
  /\ pc = "start_query" => clock <= LatestStart
  /\ pc = "poll" => clock <= deadline /\ deadline <= LatestStart + POLL_TIMEOUT_S
  /\ pc = "queried" => query # "census" /\ clock <= LatestStart + POLL_TIMEOUT_S
  /\ pc = "detail" => budgetEnds <= GITHUB_TIMEOUT_S + COMMIT_DETAIL_BUDGET_S

LookedTwice == Len(looks) = 2 /\ looks[2].at - looks[1].at > EMPTY_RETRY_SLEEP_S

\* The looks a search has taken at its log.
LooksAreKept ==
  /\ Len(log) \in Nat /\ looks \in Seq([at : Nat, arrived : Nat])
  /\ \A k \in DOMAIN looks : looks[k].arrived <= arrived
  /\ pc = "dispatch" => query = "first"
  /\ query = "first" /\ pc \in {"dispatch", "start_query", "poll"} => looks = <<>>
  /\ query = "first" /\ pc = "queried" => Len(looks) = 1 /\ looks[1].at <= clock
  /\ query = "retry" /\ pc \in {"start_query", "poll"} =>
       /\ Len(looks) = 1 /\ looks[1].at + EMPTY_RETRY_SLEEP_S <= clock
       /\ pc = "poll" => looks[1].at + EMPTY_RETRY_SLEEP_S < deadline
  /\ query = "retry" /\ pc = "queried" => LookedTwice
  /\ query = "census" => /\ rows = <<>> /\ Len(looks) >= 1
                         /\ status = "Complete" => LookedTwice

\* What the entry of a commit may say of its files.
FileSets == {{}} \cup UNION {{h.commits[k] : k \in DOMAIN h.commits} : h \in History}

\* The commits listed so far, each marked as it was found.
CommitsAreSaid ==
  /\ commits \in Seq([changed_files : FileSets, unavailable : BOOLEAN])
  /\ listed \in Nat
  /\ pc \notin {"detail", "done"} => commits = <<>> /\ listed = 0
  /\ listed > 0 => listed <= Len(history.commits)
  /\ \A k \in DOMAIN commits : SaysItsFiles(commits[k], k)

\* The inductive invariant.
ToolsIInv ==
  /\ ToolsInv /\ ServedBy /\ TimeIsSpent /\ LooksAreKept /\ CommitsAreSaid
  /\ EmptyIsHonest /\ CommitsSayTheirFiles

LEMMA Bounds ==
  /\ POLL_TIMEOUT_S \in Nat \ {0} /\ EMPTY_RETRY_SLEEP_S \in Nat \ {0}
  /\ GITHUB_TIMEOUT_S \in Nat \ {0} /\ COMMIT_DETAIL_BUDGET_S \in Nat \ {0}
  /\ MAX_COMMITS \in Nat \ {0}
BY LogAssumption, ChangesAssumption

LEMMA ToolInitHolds == ToolInit => ToolsIInv
<1>. SUFFICES ASSUME ToolInit PROVE ToolsIInv OBVIOUS
<1>1. /\ call \in Request /\ pc = "dispatch" /\ clock = 0
      /\ arrived \in 0..Len(log) /\ query = "first" /\ deadline = 0 /\ looks = <<>>
      /\ listed = 0 /\ commits = <<>> /\ budgetEnds = 0 /\ lookedUp = 0
      /\ failed = [lookups |-> {}, details |-> {}]
  BY DEF ToolInit, CallInit, SearchInit, ChangesInit
<1>2. Len(log) \in Nat BY LogAssumption DEF ToolInit, SearchInit
<1>3. call.tool = "get_recent_changes" => history \in History BY DEF ToolInit, ChangesInit
<1>4. ToolsInv BY <1>1, Bounds DEF ToolsInv, ToolsTypeOK, CallIsBounded
<1>5. ServedBy /\ TimeIsSpent BY <1>1, <1>3, Bounds DEF ServedBy, TimeIsSpent
<1>6. LooksAreKept BY <1>1, <1>2 DEF LooksAreKept
<1>7. CommitsAreSaid BY <1>1 DEF CommitsAreSaid
<1>8. EmptyIsHonest /\ CommitsSayTheirFiles
  BY <1>1
  DEF EmptyIsHonest, EmptyIsLookedAtTwice, CensusIsWhole, Searched, CommitsSayTheirFiles, Listed
<1>. QED BY <1>4, <1>5, <1>6, <1>7, <1>8 DEF ToolsIInv

-----------------------------------------------------------------------------
(* Time.                                                                     *)

\* The part of the invariant that is about control and time.
Control ==
  /\ call \in Request /\ clock \in Nat
  /\ pc \in {"dispatch", "start_query", "poll", "queried", "fetch", "lookup", "list",
             "detail", "merge", "match", "done"}
  /\ arrived \in 0..Len(log) /\ Len(log) \in Nat
  /\ query \in {"first", "retry", "census"}
  /\ CallIsBounded /\ ServedBy /\ TimeIsSpent

LEMMA StartBound ==
  ASSUME query \in {"first", "retry", "census"}
  PROVE  LatestStart \in Nat /\ LatestStart <= 2 * POLL_TIMEOUT_S + EMPTY_RETRY_SLEEP_S
<1>1. CASE query = "first" BY <1>1, Bounds DEF LatestStart
<1>2. CASE query = "retry"
  <2>1. LatestStart = POLL_TIMEOUT_S + EMPTY_RETRY_SLEEP_S BY <1>2 DEF LatestStart
  <2>. QED BY <2>1, Bounds
<1>3. CASE query = "census"
  <2>1. LatestStart = 2 * POLL_TIMEOUT_S + EMPTY_RETRY_SLEEP_S BY <1>3 DEF LatestStart
  <2>. QED BY <2>1, Bounds
<1>. QED BY <1>1, <1>2, <1>3

\* What a search has to show of a step.
LEMMA SearchControl ==
  ASSUME Control, call.tool = "search_logs",
         UNCHANGED <<call, log, arrived, history, budgetEnds>>,
         clock' \in Nat, deadline' \in Nat, query' \in {"first", "retry", "census"},
         pc' \in {"start_query", "poll", "queried", "done"},
         clock' <= 3 * POLL_TIMEOUT_S + EMPTY_RETRY_SLEEP_S,
         pc' = "start_query" => clock' <= LatestStart',
         pc' = "poll" => clock' <= deadline' /\ deadline' <= LatestStart' + POLL_TIMEOUT_S,
         pc' = "queried" => query' # "census" /\ clock' <= LatestStart' + POLL_TIMEOUT_S
  PROVE  Control'
<1>1. CallIsBounded' BY DEF CallIsBounded
<1>2. ServedBy' BY DEF ServedBy
<1>3. TimeIsSpent' BY DEF TimeIsSpent, Control
<1>. QED BY <1>1, <1>2, <1>3 DEF Control

LEMMA SumBound ==
  ASSUME NEW a \in Nat, NEW b \in Nat, NEW c \in Nat, a <= c
  PROVE  a + b \in Nat /\ a + b <= c + b
OBVIOUS

\* What the change history has to show of a step.
LEMMA HistoryControl ==
  ASSUME Control, call.tool = "get_recent_changes",
         UNCHANGED <<call, log, arrived, query, deadline, history>>,
         clock' \in Nat, budgetEnds' \in Nat,
         pc' \in {"lookup", "list", "detail", "merge", "done"},
         clock' <= 2 * GITHUB_TIMEOUT_S + COMMIT_DETAIL_BUDGET_S,
         pc' \in {"lookup", "list"} => clock' = 0,
         pc' = "detail" => budgetEnds' <= GITHUB_TIMEOUT_S + COMMIT_DETAIL_BUDGET_S
  PROVE  Control'
<1>1. CallIsBounded' BY DEF CallIsBounded
<1>2. ServedBy' BY DEF ServedBy, Control
<1>3. TimeIsSpent' BY DEF TimeIsSpent, Control
<1>. QED BY <1>1, <1>2, <1>3 DEF Control

LEMMA SearchTakesTime == ASSUME Control, SearchStep, UNCHANGED changeVars PROVE Control'
<1>1. /\ clock \in Nat /\ deadline \in Nat /\ query \in {"first", "retry", "census"}
      /\ UNCHANGED <<history, budgetEnds>>
  BY DEF Control, TimeIsSpent, changeVars
<1>2. pc \in {"start_query", "poll", "queried"} => call.tool = "search_logs"
  BY DEF Control, ServedBy
<1>3. call.tool = "search_logs" => clock <= 3 * POLL_TIMEOUT_S + EMPTY_RETRY_SLEEP_S
  BY DEF Control, CallIsBounded
<1>4. LatestStart \in Nat /\ LatestStart <= 2 * POLL_TIMEOUT_S + EMPTY_RETRY_SLEEP_S
  BY <1>1, StartBound
<1>5. /\ pc = "start_query" => clock <= LatestStart
      /\ pc = "poll" => clock <= deadline /\ deadline <= LatestStart + POLL_TIMEOUT_S
      /\ pc = "queried" => query # "census" /\ clock <= LatestStart + POLL_TIMEOUT_S
  BY DEF Control, TimeIsSpent
<1>6. query' = query => LatestStart' = LatestStart BY DEF LatestStart
<1>7. ASSUME StartQuery PROVE Control'
  <2>1. /\ pc = "start_query" /\ pc' = "poll" /\ deadline' = clock + POLL_TIMEOUT_S
        /\ UNCHANGED <<call, clock, log, arrived, query>>
    BY <1>7 DEF StartQuery
  <2>2. deadline' \in Nat /\ clock' <= deadline' /\ deadline' <= LatestStart + POLL_TIMEOUT_S
    BY <1>1, <1>4, <1>5, <2>1, Bounds
  <2>. QED BY <1>1, <1>2, <1>3, <1>6, <2>1, <2>2, SearchControl
\* A round of a poll loop before its deadline, which goes on or ends.
<1>8. ASSUME pc = "poll", clock < deadline, clock' = clock + 1,
             \/ pc' = "poll" \/ pc' = "done"
             \/ pc' = "queried" /\ query # "census",
             UNCHANGED <<call, log, arrived, query, deadline>>
      PROVE  Control'
  <2>1. clock' \in Nat /\ clock' <= deadline BY <1>1, <1>8
  <2>2. clock' <= LatestStart + POLL_TIMEOUT_S BY <1>1, <1>4, <1>5, <1>8, <2>1, Bounds
  <2>3. clock' <= 3 * POLL_TIMEOUT_S + EMPTY_RETRY_SLEEP_S BY <1>4, <2>1, <2>2, Bounds
  <2>4. deadline <= LatestStart + POLL_TIMEOUT_S BY <1>5, <1>8
  <2>5. pc' \in {"start_query", "poll", "queried", "done"} /\ pc' # "start_query" BY <1>8
  <2>6. pc' = "queried" => query' # "census" BY <1>8
  <2>. QED BY <1>1, <1>2, <1>6, <1>8, <2>1, <2>2, <2>3, <2>4, <2>5, <2>6, SearchControl
\* A step that ends the call and takes no time.
<1>9. ASSUME pc \in {"start_query", "poll", "queried"}, pc' = "done",
             UNCHANGED <<call, clock, log, arrived, query, deadline>>
      PROVE  Control'
  BY <1>1, <1>2, <1>3, <1>9, SearchControl
<1>10. ASSUME QueryFails PROVE Control'
  <2>1. /\ pc \in {"start_query", "poll"} /\ pc' = "done"
        /\ UNCHANGED <<call, log, arrived, query, deadline>>
        /\ pc = "poll" => clock' = clock + 1 /\ clock < deadline
        /\ pc = "start_query" => clock' = clock
    BY <1>10 DEF QueryFails, Report, Return, searchVars
  <2>. QED BY <1>8, <1>9, <2>1
<1>11. ASSUME NEW st, Poll(st) PROVE Control'
  <2>1. /\ pc = "poll" /\ query # "census" /\ clock < deadline /\ clock' = clock + 1
        /\ pc' = "poll" \/ pc' = "queried"
        /\ UNCHANGED <<call, log, arrived, query, deadline>>
    BY <1>11 DEF Poll
  <2>. QED BY <1>8, <2>1
<1>12. ASSUME NEW st, NEW scanned, PollCensus(st, scanned) PROVE Control'
  <2>1. /\ pc = "poll" /\ clock < deadline /\ clock' = clock + 1
        /\ pc' = "poll" \/ pc' = "done"
        /\ UNCHANGED <<call, log, arrived, query, deadline>>
    BY <1>12 DEF PollCensus, Report, Return, searchVars
  <2>. QED BY <1>8, <2>1
<1>13. ASSUME PollExpires PROVE Control'
  <2>1. /\ pc = "poll" /\ query # "census" /\ pc' = "queried"
        /\ UNCHANGED <<call, clock, log, arrived, query, deadline>>
    BY <1>13 DEF PollExpires
  <2>2. clock <= LatestStart + POLL_TIMEOUT_S BY <1>1, <1>4, <1>5, <2>1, Bounds
  <2>. QED BY <1>1, <1>2, <1>3, <1>6, <2>1, <2>2, SearchControl
<1>14. ASSUME LookAgain PROVE Control'
  <2>1. /\ pc = "queried" /\ query = "first" /\ query' = "retry" /\ pc' = "start_query"
        /\ clock' = clock + EMPTY_RETRY_SLEEP_S
        /\ UNCHANGED <<call, log, arrived, deadline>>
    BY <1>14 DEF LookAgain, RetryDue
  <2>2. LatestStart = 0 /\ LatestStart' = POLL_TIMEOUT_S + EMPTY_RETRY_SLEEP_S
    BY <2>1 DEF LatestStart
  <2>3. clock <= POLL_TIMEOUT_S BY <1>5, <2>1, <2>2, Bounds
  <2>4. /\ clock' \in Nat /\ clock' <= LatestStart'
        /\ clock' <= 3 * POLL_TIMEOUT_S + EMPTY_RETRY_SLEEP_S
    BY <1>1, <2>1, <2>2, <2>3, Bounds
  <2>. QED BY <1>1, <1>2, <2>1, <2>4, SearchControl
<1>15. ASSUME TakeCensus PROVE Control'
  <2>1. /\ pc = "queried" /\ query' = "census" /\ pc' = "start_query"
        /\ UNCHANGED <<call, clock, log, arrived, deadline>>
    BY <1>15 DEF TakeCensus
  <2>2. LatestStart' = 2 * POLL_TIMEOUT_S + EMPTY_RETRY_SLEEP_S BY <2>1 DEF LatestStart
  <2>3. LatestStart <= POLL_TIMEOUT_S + EMPTY_RETRY_SLEEP_S
    <3>1. query \in {"first", "retry"} BY <1>1, <1>5, <2>1
    <3>. QED BY <3>1, Bounds DEF LatestStart
  <2>4. clock' <= LatestStart' BY <1>1, <1>4, <1>5, <2>1, <2>2, <2>3, Bounds
  <2>. QED BY <1>1, <1>2, <1>3, <2>1, <2>4, SearchControl
<1>16. ASSUME CensusExpires PROVE Control'
  <2>1. /\ pc = "poll" /\ pc' = "done"
        /\ UNCHANGED <<call, clock, log, arrived, query, deadline>>
    BY <1>16 DEF CensusExpires, Report, Return, searchVars
  <2>. QED BY <1>9, <2>1
<1>17. ASSUME SearchReturns PROVE Control'
  <2>1. /\ pc = "queried" /\ pc' = "done"
        /\ UNCHANGED <<call, clock, log, arrived, query, deadline>>
    BY <1>17 DEF SearchReturns, Report, Return, searchVars
  <2>. QED BY <1>9, <2>1
<1>. QED
  BY <1>7, <1>10, <1>11, <1>12, <1>13, <1>14, <1>15, <1>16, <1>17 DEF SearchStep

LEMMA HistoryTakesTime == ASSUME Control, ChangesStep, UNCHANGED searchVars PROVE Control'
<1>1. /\ clock \in Nat /\ budgetEnds \in Nat
      /\ UNCHANGED <<log, arrived, query, deadline>>
  BY DEF Control, TimeIsSpent, searchVars
<1>2. pc \in {"lookup", "list", "detail", "merge"} => call.tool = "get_recent_changes"
  BY DEF Control, ServedBy
<1>3. call.tool = "get_recent_changes" => clock <= 2 * GITHUB_TIMEOUT_S + COMMIT_DETAIL_BUDGET_S
  BY DEF Control, CallIsBounded
<1>4. /\ pc \in {"lookup", "list"} => clock = 0
      /\ pc = "detail" => budgetEnds <= GITHUB_TIMEOUT_S + COMMIT_DETAIL_BUDGET_S
  BY DEF Control, TimeIsSpent
\* A step that takes no time.
<1>5. ASSUME pc \in {"lookup", "list", "detail", "merge"},
             pc' \in {"lookup", "list", "detail", "merge", "done"},
             UNCHANGED <<call, clock, history, budgetEnds>>,
             pc' = "detail" => pc = "detail", pc' \in {"lookup", "list"} => pc = "lookup"
      PROVE  Control'
  BY <1>1, <1>2, <1>3, <1>4, <1>5, HistoryControl
<1>6. ASSUME NEW answered, LookUp(answered) PROVE Control'
  <2>1. pc = "lookup" /\ pc' = "lookup" /\ UNCHANGED <<call, clock, history, budgetEnds>>
    BY <1>6 DEF LookUp
  <2>. QED BY <1>5, <2>1
<1>7. ASSUME NEW answered, Detail(answered) PROVE Control'
  <2>1. /\ pc = "detail" /\ pc' = "detail" /\ clock < budgetEnds
        /\ clock' \in clock..(clock + GITHUB_TIMEOUT_S)
        /\ UNCHANGED <<call, history, budgetEnds>>
    BY <1>7 DEF Detail
  <2>2. clock' \in Nat /\ clock' <= 2 * GITHUB_TIMEOUT_S + COMMIT_DETAIL_BUDGET_S
    BY <1>1, <1>4, <2>1, Bounds
  <2>. QED BY <1>1, <1>2, <1>4, <2>1, <2>2, HistoryControl
<1>8. ASSUME LookedUp PROVE Control'
  <2>1. /\ pc = "lookup" /\ pc' \in {"list", "merge"}
        /\ UNCHANGED <<call, clock, history, budgetEnds>>
    BY <1>8 DEF LookedUp, changeVars
  <2>. QED BY <1>5, <2>1
<1>9. ASSUME pc = "list", clock' \in clock..(clock + GITHUB_TIMEOUT_S)
      PROVE  clock' \in Nat /\ clock' <= GITHUB_TIMEOUT_S
  BY <1>1, <1>4, <1>9, Bounds
<1>10. ASSUME ListNothing PROVE Control'
  <2>1. /\ pc = "list" /\ pc' = "merge" /\ clock' \in clock..(clock + GITHUB_TIMEOUT_S)
        /\ UNCHANGED <<call, history, budgetEnds>>
    BY <1>10 DEF ListNothing, changeVars
  <2>2. clock' \in Nat /\ clock' <= 2 * GITHUB_TIMEOUT_S + COMMIT_DETAIL_BUDGET_S
    BY <1>9, <2>1, Bounds
  <2>. QED BY <1>1, <1>2, <2>1, <2>2, HistoryControl
<1>11. ASSUME ListCommits PROVE Control'
  <2>1. /\ pc = "list" /\ pc' = "detail" /\ clock' \in clock..(clock + GITHUB_TIMEOUT_S)
        /\ budgetEnds' = clock' + COMMIT_DETAIL_BUDGET_S /\ UNCHANGED <<call, history>>
    BY <1>11 DEF ListCommits
  <2>2. clock' \in Nat /\ clock' <= GITHUB_TIMEOUT_S BY <1>9, <2>1
  <2>3. clock' <= 2 * GITHUB_TIMEOUT_S + COMMIT_DETAIL_BUDGET_S BY <2>2, Bounds
  <2>4. PICK c \in Nat : c = clock' /\ c <= GITHUB_TIMEOUT_S BY <2>2
  <2>5. budgetEnds' = c + COMMIT_DETAIL_BUDGET_S BY <2>1, <2>4
  <2>6. budgetEnds' \in Nat /\ budgetEnds' <= GITHUB_TIMEOUT_S + COMMIT_DETAIL_BUDGET_S
    BY <2>4, <2>5, Bounds, SumBound
  <2>. QED BY <1>1, <1>2, <2>1, <2>2, <2>3, <2>6, HistoryControl
<1>12. ASSUME DetailSkipped PROVE Control'
  <2>1. pc = "detail" /\ pc' = "detail" /\ UNCHANGED <<call, clock, history, budgetEnds>>
    BY <1>12 DEF DetailSkipped
  <2>. QED BY <1>5, <2>1
<1>13. ASSUME ChangesReturn PROVE Control'
  <2>1. /\ pc \in {"detail", "merge"} /\ pc' = "done"
        /\ UNCHANGED <<call, clock, history, budgetEnds>>
    BY <1>13 DEF ChangesReturn, Return, changeVars
  <2>. QED BY <1>5, <2>1
<1>. QED BY <1>6, <1>7, <1>8, <1>10, <1>11, <1>12, <1>13 DEF ChangesStep

LEMMA CallTakesTime == ASSUME Control, [ToolNext]_toolVars PROVE Control'
\* A step that ends the call, or none of the call's.
<1>0. ASSUME UNCHANGED <<call, clock, log, query, deadline, history, budgetEnds>>,
             pc' = "done" \/ pc' = pc, arrived' \in 0..Len(log)
      PROVE  Control'
  <2>1. LatestStart' = LatestStart BY <1>0 DEF LatestStart
  <2>2. CallIsBounded' BY <1>0 DEF Control, CallIsBounded
  <2>3. ServedBy' BY <1>0 DEF Control, ServedBy
  <2>4. TimeIsSpent' BY <1>0, <2>1 DEF Control, TimeIsSpent
  <2>. QED BY <1>0, <2>2, <2>3, <2>4 DEF Control
<1>1. ASSUME Refuse, UNCHANGED <<searchVars, changeVars>> PROVE Control'
  <2>1. /\ UNCHANGED <<call, clock, log, arrived, query, deadline, history, budgetEnds>>
        /\ pc' = "done"
    BY <1>1 DEF Refuse, Return, searchVars, changeVars
  <2>. QED BY <1>0, <2>1 DEF Control
<1>2. ASSUME NEW name, NEW first, Dispatch(name, first),
             <<name, first>> \in {<<"search_logs", "start_query">>, <<"get_metrics", "fetch">>,
                                  <<"get_recent_changes", "lookup">>, <<"search_runbooks", "match">>},
             UNCHANGED <<searchVars, changeVars>>
      PROVE  Control'
  <2>1. /\ pc = "dispatch" /\ clock = 0 /\ call.tool = name /\ pc' = first
        /\ UNCHANGED <<call, clock, log, arrived, query, deadline, history, budgetEnds>>
    BY <1>2 DEF Dispatch, searchVars, changeVars, Control, TimeIsSpent
  <2>2. CallIsBounded' BY <2>1 DEF Control, CallIsBounded
  <2>3. ServedBy' BY <1>2, <2>1 DEF Control, ServedBy
  <2>4. LatestStart' \in Nat
    <3>1. LatestStart' = LatestStart BY <2>1 DEF LatestStart
    <3>. QED BY <3>1, StartBound DEF Control
  <2>5. pc' \in {"start_query", "fetch", "lookup", "match"} BY <1>2, <2>1
  <2>6. TimeIsSpent' BY <2>1, <2>4, <2>5 DEF Control, TimeIsSpent
  <2>. QED BY <2>1, <2>2, <2>3, <2>5, <2>6 DEF Control
<1>3. ASSUME MetricsStep \/ RunbookSearch, UNCHANGED <<searchVars, changeVars>> PROVE Control'
  <2>1. /\ UNCHANGED <<call, clock, log, arrived, query, deadline, history, budgetEnds>>
        /\ pc' = "done" \/ pc' = pc
    BY <1>3 DEF MetricsStep, Fetch, MetricsReturn, RunbookSearch, Return, searchVars, changeVars
  <2>. QED BY <1>0, <2>1 DEF Control
<1>4. ASSUME Ingestion, UNCHANGED changeVars PROVE Control'
  <2>1. /\ UNCHANGED <<call, clock, pc, log, query, deadline, history, budgetEnds>>
        /\ arrived' = arrived + 1 /\ arrived < Len(log)
    BY <1>4 DEF Ingestion, callVars, changeVars
  <2>2. arrived' \in 0..Len(log) BY <2>1 DEF Control
  <2>. QED BY <1>0, <2>1, <2>2
<1>5. ASSUME UNCHANGED toolVars PROVE Control'
  <2>1. UNCHANGED <<call, clock, pc, log, arrived, query, deadline, history, budgetEnds>>
    BY <1>5 DEF toolVars, callVars, searchVars, changeVars
  <2>. QED BY <1>0, <2>1 DEF Control
<1>. QED
  BY <1>1, <1>2, <1>3, <1>4, <1>5, SearchTakesTime, HistoryTakesTime DEF ToolNext, ToolStep

-----------------------------------------------------------------------------
(* An empty search.                                                          *)

\* A census of all that has arrived counts no fewer than one of a part of it.
LEMMA MoreLinesCountMore ==
  ASSUME NEW a \in Nat, NEW b \in Nat, a <= b, NEW l \in LevelsOf(1..a)
  PROVE  /\ l \in DOMAIN CountLevels(1..b)
         /\ CountLevels(1..b)[l] >= Cardinality({n \in 1..a : log[n].level = l})
<1>. DEFINE Few  == {n \in 1..a : log[n].level = l}
            Many == {n \in 1..b : log[n].level = l}
<1>1. l \in LevelsOf(1..b) BY DEF LevelsOf
<1>2. IsFiniteSet(1..b) BY FS_Interval
<1>3. Few \subseteq Many /\ Many \subseteq 1..b OBVIOUS
<1>4. IsFiniteSet(Many) BY <1>2, <1>3, FS_Subset
<1>. HIDE DEF Few, Many
<1>5. /\ Cardinality(Few) \in Nat /\ Cardinality(Many) \in Nat
      /\ Cardinality(Few) <= Cardinality(Many)
  BY <1>3, <1>4, FS_Subset, FS_CardinalityType
<1>6. CountLevels(1..b)[l] = Cardinality(Many) BY <1>1 DEF CountLevels, Many
<1>7. l \in DOMAIN CountLevels(1..b) BY <1>1 DEF CountLevels
<1>. QED BY <1>5, <1>6, <1>7 DEF Few

LEMMA LooksTypes ==
  ASSUME looks \in Seq([at : Nat, arrived : Nat])
  PROVE  /\ Len(looks) \in Nat /\ DOMAIN looks = 1..Len(looks)
         /\ \A k \in 1..Len(looks) : looks[k].at \in Nat /\ looks[k].arrived \in Nat
<1>1. Len(looks) \in Nat /\ DOMAIN looks = 1..Len(looks) OBVIOUS
<1>2. ASSUME NEW k \in 1..Len(looks) PROVE looks[k] \in [at : Nat, arrived : Nat]
  <2>. DEFINE L == [at : Nat, arrived : Nat]
  <2>1. looks \in Seq(L) OBVIOUS
  <2>. HIDE DEF L
  <2>2. looks[k] \in L BY <2>1
  <2>. QED BY <2>2 DEF L
<1>. QED BY <1>1, <1>2

\* A search that ends with what its looks allow it to say.
LEMMA ReportIsHonest ==
  ASSUME LooksAreKept, Control, NEW census, Report(census), UNCHANGED <<looks, log, arrived>>,
         rows = <<>> /\ status = "Complete" => LookedTwice,
         census = NoCensus \/ (Len(looks) >= 1 /\ census = CountLevels(1..arrived))
  PROVE  EmptyIsHonest'
<1>1. /\ payload'.rows = rows /\ payload'.query_status = status
      /\ payload'.window_level_counts = census
  BY DEF Report, Return
<1>2. EmptyIsLookedAtTwice' BY <1>1 DEF EmptyIsLookedAtTwice, LookedTwice
<1>3. CensusIsWhole'
  <2>0. payload'.window_level_counts = census /\ looks' = looks /\ log' = log BY <1>1
  <2>. SUFFICES ASSUME census # NoCensus, NEW l \in LevelsOf(1..looks[Len(looks)].arrived)
                PROVE  /\ l \in DOMAIN census
                       /\ census[l] >= Cardinality({n \in 1..looks[Len(looks)].arrived :
                                                     log[n].level = l})
    BY <2>0 DEF CensusIsWhole, LevelsOf
  <2>1. PICK last \in Nat : last = looks[Len(looks)].arrived /\ last <= arrived
    <3>1. Len(looks) >= 1 OBVIOUS
    <3>2. Len(looks) \in 1..Len(looks) BY <3>1, LooksTypes DEF LooksAreKept
    <3>. QED BY <3>2, LooksTypes DEF LooksAreKept
  <2>2. arrived \in Nat BY DEF Control
  <2>. QED BY <2>1, <2>2, MoreLinesCountMore
<1>. QED BY <1>2, <1>3 DEF EmptyIsHonest

\* Nothing has been said yet, or something else.
LEMMA NoReport ==
  ASSUME pc' # "done" \/ payload'.tool # "search_logs"
  PROVE  EmptyIsHonest'
BY DEF EmptyIsHonest, EmptyIsLookedAtTwice, CensusIsWhole, Searched

LEMMA SearchKeepsLooks == ASSUME Control, LooksAreKept, SearchStep PROVE LooksAreKept'
<1>0. /\ clock \in Nat /\ deadline \in Nat /\ arrived \in Nat /\ Len(log) \in Nat
      /\ query \in {"first", "retry", "census"} /\ (pc = "poll" => clock <= deadline)
      /\ looks \in Seq([at : Nat, arrived : Nat]) /\ Len(looks) \in Nat
      /\ DOMAIN looks = 1..Len(looks)
      /\ \A k \in 1..Len(looks) : looks[k].at \in Nat /\ looks[k].arrived \in Nat
  BY LooksTypes DEF Control, TimeIsSpent, LooksAreKept
<1>1. ASSUME StartQuery PROVE LooksAreKept'
  <2>1. CASE query = "first" BY <1>0, <1>1, <2>1 DEF StartQuery, LooksAreKept
  <2>2. CASE query = "retry"
    <3>1. clock < deadline' BY <1>0, <1>1, Bounds DEF StartQuery
    <3>2. looks[1].at \in Nat BY <1>0, <1>1, <2>2 DEF StartQuery, LooksAreKept
    <3>3. looks[1].at + EMPTY_RETRY_SLEEP_S < deadline'
      BY <1>0, <1>1, <2>2, <3>1, <3>2, Bounds DEF StartQuery, LooksAreKept
    <3>. QED BY <1>1, <2>2, <3>3 DEF StartQuery, LooksAreKept
  <2>3. CASE query = "census" BY <1>1, <2>3 DEF StartQuery, LooksAreKept, LookedTwice
  <2>. QED BY <1>0, <2>1, <2>2, <2>3
<1>2. ASSUME pc' = "done", UNCHANGED searchVars PROVE LooksAreKept'
  BY <1>2 DEF searchVars, LooksAreKept, LookedTwice
<1>3. ASSUME pc = "poll", query # "census", pc' = "queried",
             UNCHANGED <<log, arrived, query>>,
             looks' = Append(looks, [at |-> clock', arrived |-> arrived]),
             clock' \in Nat, clock' > clock \/ (clock' = clock /\ clock >= deadline)
      PROVE  LooksAreKept'
  <2>1. CASE query = "first"
    <3>1. looks = <<>> BY <1>3, <2>1 DEF LooksAreKept
    <3>2. looks' = <<[at |-> clock', arrived |-> arrived]>> BY <1>3, <3>1
    <3>. QED BY <1>0, <1>3, <2>1, <3>2 DEF LooksAreKept
  <2>2. CASE query = "retry"
    <3>1. /\ Len(looks) = 1 /\ looks[1].at + EMPTY_RETRY_SLEEP_S <= clock
          /\ looks[1].at + EMPTY_RETRY_SLEEP_S < deadline
      BY <1>3, <2>2 DEF LooksAreKept
    <3>2. looks[1].at \in Nat BY <1>0, <3>1
    <3>3. clock' > looks[1].at + EMPTY_RETRY_SLEEP_S BY <1>0, <1>3, <3>1, <3>2, Bounds
    <3>4. clock' - looks[1].at > EMPTY_RETRY_SLEEP_S BY <1>3, <3>2, <3>3, Bounds
    <3>. DEFINE look == [at |-> clock', arrived |-> arrived]
    <3>5. look \in [at : Nat, arrived : Nat] /\ look.at = clock' /\ look.arrived = arrived
      BY <1>0, <1>3
    <3>6. looks' = Append(looks, look) BY <1>3
    <3>. HIDE DEF look
    <3>7. /\ looks' \in Seq([at : Nat, arrived : Nat]) /\ Len(looks') = 2
          /\ DOMAIN looks' = 1..2 /\ looks'[1] = looks[1] /\ looks'[2] = look
      <4>. DEFINE L == [at : Nat, arrived : Nat]
      <4>1. looks \in Seq(L) /\ look \in L BY <1>0, <3>5
      <4>. HIDE DEF L
      <4>2. looks' \in Seq(L) BY <3>6, <4>1
      <4>0. Len(looks) = 1 BY <3>1
      <4>3. Len(looks') = 2 /\ looks'[1] = looks[1] /\ looks'[2] = look
        <5>1. Len(looks') = Len(looks) + 1 BY <3>6, <4>1
        <5>2. \A k \in 1..Len(looks) : looks'[k] = looks[k] BY <3>6, <4>1
        <5>3. looks'[Len(looks) + 1] = look BY <3>6, <4>1
        <5>. QED BY <4>0, <5>1, <5>2, <5>3
      <4>4. DOMAIN looks' = 1..2 BY <4>2, <4>3
      <4>. QED BY <4>2, <4>3, <4>4 DEF L
    <3>8. LookedTwice' BY <3>4, <3>5, <3>7 DEF LookedTwice
    <3>9. \A k \in DOMAIN looks' : looks'[k].arrived <= arrived'
      <4>1. looks[1].arrived <= arrived BY <1>0, <3>1 DEF LooksAreKept
      <4>2. looks'[1].arrived <= arrived' /\ looks'[2].arrived <= arrived'
        BY <1>0, <1>3, <3>5, <3>7, <4>1
      <4>. QED BY <3>7, <4>2
    <3>. QED BY <1>0, <1>3, <2>2, <3>7, <3>8, <3>9 DEF LooksAreKept
  <2>. QED BY <1>0, <1>3, <2>1, <2>2
<1>4. ASSUME pc = "poll", pc' = "poll", clock' \in Nat, clock' >= clock,
             UNCHANGED <<log, arrived, query, looks, deadline>>,
             query = "census" => UNCHANGED <<rows, status>>
      PROVE  LooksAreKept'
  <2>1. CASE query = "retry"
    <3>1. Len(looks) = 1 /\ looks[1].at + EMPTY_RETRY_SLEEP_S <= clock
      BY <1>4, <2>1 DEF LooksAreKept
    <3>2. looks[1].at \in Nat BY <1>0, <3>1
    <3>3. looks[1].at + EMPTY_RETRY_SLEEP_S <= clock' BY <1>0, <1>4, <3>1, <3>2, Bounds
    <3>. QED BY <1>4, <2>1, <3>3 DEF LooksAreKept
  <2>2. CASE query # "retry" BY <1>4, <2>2 DEF LooksAreKept, LookedTwice
  <2>. QED BY <2>1, <2>2
<1>5. ASSUME NEW st, Poll(st) PROVE LooksAreKept'
  <2>1. /\ pc = "poll" /\ query # "census" /\ clock' = clock + 1
        /\ UNCHANGED <<log, arrived, query, deadline>>
    BY <1>5 DEF Poll
  <2>2. clock' \in Nat /\ clock' > clock BY <1>0, <2>1
  <2>3. CASE st \in TERMINAL_STATUSES
    <3>1. pc' = "queried" /\ looks' = Append(looks, [at |-> clock', arrived |-> arrived])
      BY <1>5, <2>3 DEF Poll
    <3>. QED BY <1>3, <2>1, <2>2, <3>1
  <2>4. CASE st \notin TERMINAL_STATUSES BY <1>0, <1>4, <1>5, <2>1, <2>2, <2>4 DEF Poll
  <2>. QED BY <2>3, <2>4
<1>6. ASSUME PollExpires PROVE LooksAreKept' BY <1>0, <1>3, <1>6 DEF PollExpires
<1>7. ASSUME LookAgain PROVE LooksAreKept'
  <2>1. Len(looks) = 1 /\ looks[1].at <= clock BY <1>7 DEF LookAgain, RetryDue, LooksAreKept
  <2>2. looks[1].at \in Nat BY <1>0, <2>1
  <2>3. looks[1].at + EMPTY_RETRY_SLEEP_S <= clock' BY <1>0, <1>7, <2>1, <2>2, Bounds DEF LookAgain
  <2>. QED BY <1>7, <2>1, <2>3 DEF LookAgain, LooksAreKept
<1>8. ASSUME TakeCensus PROVE LooksAreKept'
  <2>1. /\ pc = "queried" /\ rows = <<>> /\ (status = "Complete" => query # "first")
        /\ UNCHANGED <<log, arrived, rows, status, looks>>
        /\ query' = "census" /\ pc' = "start_query"
    BY <1>8 DEF TakeCensus, RetryDue
  <2>2. query # "census" BY <2>1 DEF Control, TimeIsSpent
  <2>3. Len(looks) >= 1 BY <1>0, <2>1, <2>2 DEF LooksAreKept, LookedTwice
  <2>4. status = "Complete" => LookedTwice BY <1>0, <2>1, <2>2 DEF LooksAreKept
  <2>. QED BY <2>1, <2>3, <2>4 DEF LooksAreKept, LookedTwice
<1>9. ASSUME NEW st, NEW scanned, PollCensus(st, scanned) PROVE LooksAreKept'
  <2>1. /\ pc = "poll" /\ clock' = clock + 1 /\ UNCHANGED searchVars /\ pc' \in {"poll", "done"}
    BY <1>9 DEF PollCensus, Report, Return
  <2>2. clock' \in Nat /\ clock' >= clock BY <1>0, <2>1
  <2>. QED BY <1>2, <1>4, <2>1, <2>2 DEF searchVars
<1>10. ASSUME QueryFails \/ CensusExpires \/ SearchReturns PROVE LooksAreKept'
  <2>. pc' = "done" /\ UNCHANGED searchVars
    BY <1>10 DEF QueryFails, CensusExpires, SearchReturns, Report, Return
  <2>. QED BY <1>2
<1>. QED BY <1>1, <1>5, <1>6, <1>7, <1>8, <1>9, <1>10 DEF SearchStep

LEMMA SearchIsHonest ==
  ASSUME Control, LooksAreKept, SearchStep
  PROVE  EmptyIsHonest'
<1>1. ASSUME StartQuery \/ (\E st : Poll(st)) \/ PollExpires \/ LookAgain \/ TakeCensus
      PROVE  EmptyIsHonest'
  <2>1. pc' # "done" BY <1>1 DEF StartQuery, Poll, PollExpires, LookAgain, TakeCensus
  <2>. QED BY <2>1, NoReport
\* What a census query ends with is reported with the search that came before it.
<1>2. ASSUME query = "census", UNCHANGED searchVars, NEW census, Report(census),
             census = NoCensus \/ census = CountLevels(1..arrived)
      PROVE  EmptyIsHonest'
  <2>1. /\ rows = <<>> /\ status = "Complete" => LookedTwice
        /\ Len(looks) >= 1
    BY <1>2 DEF LooksAreKept
  <2>. QED BY <1>2, <2>1, ReportIsHonest DEF searchVars
<1>3. ASSUME QueryFails PROVE EmptyIsHonest'
  <2>1. CASE query = "census" BY <1>2, <1>3, <2>1 DEF QueryFails
  <2>2. CASE query # "census"
    <3>1. payload'.tool # "search_logs" BY <1>3, <2>2 DEF QueryFails, Return, Failure
    <3>. QED BY <3>1, NoReport
  <2>. QED BY <2>1, <2>2
<1>4. ASSUME NEW st, NEW scanned, PollCensus(st, scanned) PROVE EmptyIsHonest'
  <2>1. query = "census" /\ UNCHANGED searchVars BY <1>4 DEF PollCensus
  <2>2. CASE st \in TERMINAL_STATUSES
    <3>1. PICK census : /\ Report(census)
                        /\ census = NoCensus \/ census = CountLevels(1..arrived)
      BY <1>4, <2>2 DEF PollCensus
    <3>. QED BY <1>2, <2>1, <3>1
  <2>3. CASE st \notin TERMINAL_STATUSES
    <3>1. pc' # "done" BY <1>4, <2>3 DEF PollCensus
    <3>. QED BY <3>1, NoReport
  <2>. QED BY <2>2, <2>3
<1>5. ASSUME CensusExpires PROVE EmptyIsHonest'
  <2>1. CASE query = "census" BY <1>2, <1>5, <2>1 DEF CensusExpires
  <2>. QED BY <1>5, <2>1 DEF CensusExpires
<1>6. ASSUME SearchReturns PROVE EmptyIsHonest'
  <2>1. pc = "queried" /\ ~RetryDue /\ Report(NoCensus) /\ UNCHANGED searchVars
    BY <1>6 DEF SearchReturns
  <2>2. query \in {"first", "retry"} BY <2>1 DEF Control, TimeIsSpent
  <2>3. rows = <<>> /\ status = "Complete" => LookedTwice
    BY <2>1, <2>2 DEF RetryDue, LooksAreKept
  <2>. QED BY <2>1, <2>3, ReportIsHonest DEF searchVars
<1>. QED BY <1>1, <1>3, <1>4, <1>5, <1>6 DEF SearchStep

\* Whatever is not a step of the search.
LEMMA OthersKeepLooks ==
  ASSUME Control, LooksAreKept, EmptyIsHonest,
         UNCHANGED <<log, query, deadline, rows, status, looks>>,
         \/ pc = "dispatch" /\ clock' = clock /\ arrived' = arrived
         \/ pc' \notin {"dispatch", "start_query", "poll", "queried"} /\ arrived' = arrived
         \/ /\ pc' = pc /\ pc # "done" /\ clock' = clock
            /\ arrived' \in Nat /\ arrived' >= arrived,
         pc = "dispatch" => pc' \notin {"poll", "queried"}
  PROVE  LooksAreKept'
<1>1. CASE arrived' = arrived
  BY <1>1 DEF LooksAreKept, LookedTwice
<1>2. CASE pc' = pc /\ arrived' \in Nat /\ arrived' >= arrived /\ clock' = clock
  <2>1. /\ \A k \in DOMAIN looks : looks[k].arrived <= arrived' 
    <3>1. arrived \in Nat /\ DOMAIN looks = 1..Len(looks) BY LooksTypes DEF Control, LooksAreKept
    <3>2. \A k \in DOMAIN looks : looks[k].arrived \in Nat /\ looks[k].arrived <= arrived
      BY <3>1, LooksTypes DEF LooksAreKept
    <3>. QED BY <1>2, <3>1, <3>2
  <2>. QED BY <1>2, <2>1 DEF LooksAreKept, LookedTwice
<1>. QED BY <1>1, <1>2

LEMMA LooksHold ==
  ASSUME Control, LooksAreKept, EmptyIsHonest, [ToolNext]_toolVars
  PROVE  LooksAreKept' /\ EmptyIsHonest'
<1>. USE DEF searchVars
<1>1. CASE SearchStep BY <1>1, SearchKeepsLooks, SearchIsHonest
<1>2. CASE Ingestion
  <2>1. LooksAreKept' BY <1>2, OthersKeepLooks DEF Ingestion, callVars, Control
  <2>2. EmptyIsHonest' BY <1>2, NoReport DEF Ingestion, callVars
  <2>. QED BY <2>1, <2>2
<1>3. ASSUME NEW name, NEW first, Dispatch(name, first), UNCHANGED searchVars,
             first \in {"start_query", "fetch", "lookup", "match"}
      PROVE  LooksAreKept' /\ EmptyIsHonest'
  <2>1. LooksAreKept' BY <1>3, OthersKeepLooks DEF Dispatch
  <2>2. EmptyIsHonest' BY <1>3, NoReport DEF Dispatch
  <2>. QED BY <2>1, <2>2
<1>4. ASSUME pc' \notin {"dispatch", "start_query", "poll", "queried"}, UNCHANGED searchVars,
             pc' # "done" \/ payload'.tool # "search_logs"
      PROVE  LooksAreKept' /\ EmptyIsHonest'
  <2>1. LooksAreKept' BY <1>4, OthersKeepLooks
  <2>. QED BY <1>4, <2>1, NoReport
<1>5. CASE Refuse /\ UNCHANGED searchVars
  BY <1>4, <1>5 DEF Refuse, Return, Failure
<1>6. CASE (MetricsStep \/ RunbookSearch) /\ UNCHANGED searchVars
  <2>1. \/ pc' = "fetch"
        \/ pc' = "done" /\ payload'.tool \in {"get_metrics", "search_runbooks"}
    BY <1>6 DEF MetricsStep, Fetch, MetricsReturn, RunbookSearch, Return
  <2>. QED BY <1>4, <1>6, <2>1
<1>7. CASE ChangesStep /\ UNCHANGED searchVars
  <2>1. \/ pc' \in {"lookup", "list", "detail", "merge"}
        \/ pc' = "done" /\ payload'.tool = "get_recent_changes"
    <3>1. ASSUME NEW answered, LookUp(answered) \/ Detail(answered)
          PROVE  pc' \in {"lookup", "detail"}
      BY <3>1 DEF LookUp, Detail
    <3>2. ASSUME LookedUp \/ ListNothing \/ ListCommits \/ DetailSkipped
          PROVE  pc' \in {"list", "detail", "merge"}
      BY <3>2 DEF LookedUp, ListNothing, ListCommits, DetailSkipped
    <3>3. ASSUME ChangesReturn PROVE pc' = "done" /\ payload'.tool = "get_recent_changes"
      BY <3>3 DEF ChangesReturn, Return
    <3>. QED BY <1>7, <3>1, <3>2, <3>3 DEF ChangesStep
  <2>. QED BY <1>4, <1>7, <2>1
<1>8. CASE UNCHANGED toolVars
  <2>1. UNCHANGED <<pc, clock, payload, searchVars>> BY <1>8 DEF toolVars, callVars
  <2>2. LooksAreKept' BY <2>1 DEF LooksAreKept, LookedTwice
  <2>3. EmptyIsHonest' BY <2>1
    DEF EmptyIsHonest, EmptyIsLookedAtTwice, CensusIsWhole, Searched, LevelsOf
  <2>. QED BY <2>2, <2>3
<1>. QED BY <1>1, <1>2, <1>3, <1>5, <1>6, <1>7, <1>8 DEF ToolNext, ToolStep

-----------------------------------------------------------------------------
(* What the commits say of their files.                                      *)

\* The parts of the types that are about the change history.
Failed == failed \in [lookups : SUBSET (1..lookedUp), details : SUBSET (1..Len(commits))]

Listing == Failed /\ lookedUp \in Nat /\ Len(commits) <= listed /\ listed <= MAX_COMMITS

CommitEntry == [changed_files : FileSets, unavailable : BOOLEAN]

LEMMA AppendEntry ==
  ASSUME commits \in Seq(CommitEntry), NEW e \in CommitEntry, commits' = Append(commits, e)
  PROVE  /\ commits' \in Seq(CommitEntry) /\ Len(commits) \in Nat
         /\ Len(commits') = Len(commits) + 1 /\ DOMAIN commits' = 1..(Len(commits) + 1)
         /\ \A k \in 1..Len(commits) : commits'[k] = commits[k]
         /\ commits'[Len(commits) + 1] = e
<1>. HIDE DEF CommitEntry
<1>1. commits' \in Seq(CommitEntry) /\ Len(commits) \in Nat OBVIOUS
<1>2. Len(commits') = Len(commits) + 1 OBVIOUS
<1>. QED BY <1>1, <1>2

\* One more entry, which says its own files.
LEMMA OneMoreEntry ==
  ASSUME CommitsAreSaid, Listing, NEW e \in CommitEntry, commits' = Append(commits, e),
         pc' = "detail", UNCHANGED <<history, lookedUp, listed, budgetEnds>>,
         Len(commits) < listed, clock \in Nat, clock' \in Nat, clock' >= clock, budgetEnds \in Nat,
         \/ failed' = failed
         \/ failed' = [failed EXCEPT !.details = @ \cup {NextCommit}],
         IF e.unavailable THEN clock >= budgetEnds
         ELSE e.changed_files = history.commits[NextCommit] \/ NextCommit \in failed'.details
  PROVE  CommitsAreSaid' /\ Listing' /\ CommitsSayTheirFiles'
<1>1. /\ commits \in Seq(CommitEntry) /\ DOMAIN commits = 1..Len(commits) /\ listed \in Nat
  BY DEF CommitsAreSaid, CommitEntry
<1>2. /\ commits' \in Seq(CommitEntry) /\ Len(commits) \in Nat
      /\ Len(commits') = Len(commits) + 1 /\ DOMAIN commits' = 1..(Len(commits) + 1)
      /\ \A k \in 1..Len(commits) : commits'[k] = commits[k]
      /\ commits'[Len(commits) + 1] = e
  BY <1>1, AppendEntry
<1>3. /\ failed \in [lookups : SUBSET (1..lookedUp), details : SUBSET (1..Len(commits))]
      /\ NextCommit = Len(commits) + 1
  BY DEF Listing, Failed, NextCommit
<1>4. /\ failed'.lookups = failed.lookups /\ DOMAIN failed' = {"lookups", "details"}
      /\ failed.details \subseteq failed'.details
      /\ failed'.details \subseteq failed.details \cup {Len(commits) + 1}
      /\ failed' = [lookups |-> failed'.lookups, details |-> failed'.details]
  BY <1>3
<1>5. Failed'
  <2>. DEFINE n == Len(commits)
  <2>1. n \in Nat /\ failed.details \subseteq 1..n /\ failed'.details \subseteq failed.details \cup {n + 1}
    BY <1>2, <1>3, <1>4
  <2>2. failed'.lookups \in SUBSET (1..lookedUp) BY <1>3, <1>4
  <2>. HIDE DEF n
  <2>3. failed'.details \subseteq 1..(n + 1) BY <2>1
  <2>4. failed'.details \in SUBSET (1..Len(commits')) BY <1>2, <2>3 DEF n
  <2>. QED BY <1>4, <2>2, <2>4 DEF Failed
<1>6. \A k \in DOMAIN commits' : SaysItsFiles(commits[k], k)'
  <2>1. ASSUME NEW k \in 1..Len(commits) PROVE SaysItsFiles(commits[k], k)'
    <3>1. SaysItsFiles(commits[k], k) BY <1>1 DEF CommitsAreSaid
    <3>2. commits'[k] = commits[k] BY <1>2
    <3>. QED BY <1>4, <3>1, <3>2 DEF SaysItsFiles
  <2>2. SaysItsFiles(commits[Len(commits)], Len(commits))'
    BY <1>2, <1>3, <1>4 DEF SaysItsFiles
  <2>3. \A k \in DOMAIN commits' : k \in 1..Len(commits) \/ k = Len(commits')
    BY <1>2
  <2>. QED BY <2>1, <2>2, <2>3
<1>7. CommitsAreSaid' BY <1>1, <1>2, <1>6 DEF CommitsAreSaid, CommitEntry
<1>8. Listing' BY <1>1, <1>2, <1>5 DEF Listing
<1>. QED BY <1>7, <1>8 DEF CommitsSayTheirFiles, Listed

LEMMA HistoryKeepsFiles ==
  ASSUME Control, CommitsAreSaid, Listing, ChangesStep
  PROVE  CommitsAreSaid' /\ Listing' /\ CommitsSayTheirFiles'
<1>1. pc \in {"lookup", "list", "detail", "merge"} => history \in History
  BY DEF Control, ServedBy
<1>2. /\ clock \in Nat /\ budgetEnds \in Nat /\ listed \in Nat /\ Len(commits) \in Nat
      /\ lookedUp \in Nat
  BY DEF Control, TimeIsSpent, CommitsAreSaid, Listing
<1>3. ASSUME pc' # "done", pc \notin {"detail", "done"}, UNCHANGED <<history, listed, commits>>,
             Failed', lookedUp' \in Nat
      PROVE  CommitsAreSaid' /\ Listing' /\ CommitsSayTheirFiles'
  <2>1. commits = <<>> BY <1>3 DEF CommitsAreSaid
  <2>2. CommitsAreSaid' BY <1>3, <2>1 DEF CommitsAreSaid
  <2>3. Listing' BY <1>3 DEF Listing
  <2>. QED BY <1>3, <2>2, <2>3 DEF CommitsSayTheirFiles, Listed
<1>4. ASSUME NEW answered, LookUp(answered)
      PROVE  CommitsAreSaid' /\ Listing' /\ CommitsSayTheirFiles'
  <2>1. /\ pc = "lookup" /\ pc' = "lookup" /\ UNCHANGED <<history, listed, commits>>
        /\ lookedUp' = lookedUp + 1
        /\ \/ failed' = failed
           \/ failed' = [failed EXCEPT !.lookups = @ \cup {lookedUp'}]
    BY <1>4 DEF LookUp
  <2>2. Failed'
    <3>1. /\ failed \in [lookups : SUBSET (1..lookedUp), details : SUBSET (1..Len(commits))]
      BY DEF Listing, Failed
    <3>2. 1..lookedUp \subseteq 1..lookedUp' /\ lookedUp' \in 1..lookedUp' BY <1>2, <2>1
    <3>3. UNCHANGED commits BY <2>1
    <3>. QED BY <2>1, <3>1, <3>2, <3>3 DEF Failed
  <2>. QED BY <1>2, <1>3, <2>1, <2>2
<1>5. ASSUME LookedUp \/ ListNothing
      PROVE  CommitsAreSaid' /\ Listing' /\ CommitsSayTheirFiles'
  <2>1. /\ pc \in {"lookup", "list"} /\ pc' \in {"list", "merge"}
        /\ UNCHANGED <<history, listed, commits, failed, lookedUp>>
    BY <1>5 DEF LookedUp, ListNothing, changeVars
  <2>. QED BY <1>2, <1>3, <2>1 DEF Listing, Failed
<1>6. ASSUME ListCommits PROVE CommitsAreSaid' /\ Listing' /\ CommitsSayTheirFiles'
  <2>1. /\ commits = <<>> /\ pc = "list" /\ pc' = "detail"
        /\ UNCHANGED <<history, commits, failed, lookedUp>>
    BY <1>6 DEF ListCommits, CommitsAreSaid
  <2>2. Len(history.commits) \in Nat BY <1>1, <2>1, ChangesAssumption
  <2>3. listed' \in Nat /\ listed' <= Len(history.commits) /\ listed' <= MAX_COMMITS
    BY <1>6, <2>2, Bounds DEF ListCommits
  <2>4. CommitsAreSaid' BY <2>1, <2>3 DEF CommitsAreSaid
  <2>5. Listing' BY <2>1, <2>3 DEF Listing, Failed
  <2>. QED BY <2>1, <2>4, <2>5 DEF CommitsSayTheirFiles, Listed
<1>7. ASSUME NEW answered, Detail(answered)
      PROVE  CommitsAreSaid' /\ Listing' /\ CommitsSayTheirFiles'
  <2>. DEFINE files == IF answered THEN history.commits[NextCommit] ELSE {}
  <2>1. /\ pc = "detail" /\ pc' = "detail" /\ Len(commits) < listed
        /\ UNCHANGED <<history, lookedUp, listed, budgetEnds>>
        /\ clock' \in clock..(clock + GITHUB_TIMEOUT_S)
        /\ failed' = IF answered THEN failed
                     ELSE [failed EXCEPT !.details = @ \cup {NextCommit}]
        /\ commits' = Append(commits, Entry(files, FALSE))
    BY <1>7 DEF Detail
  <2>2. files \in FileSets
    <3>1. history \in History BY <1>1, <2>1
    <3>2. listed <= Len(history.commits) BY <1>2, <2>1 DEF CommitsAreSaid
    <3>3. Len(history.commits) \in Nat /\ DOMAIN history.commits = 1..Len(history.commits)
      BY <3>1, ChangesAssumption
    <3>4. NextCommit \in DOMAIN history.commits BY <1>2, <2>1, <3>2, <3>3 DEF NextCommit
    <3>. QED BY <3>1, <3>4 DEF FileSets
  <2>3. /\ Entry(files, FALSE) \in CommitEntry /\ ~Entry(files, FALSE).unavailable
        /\ Entry(files, FALSE).changed_files = files
    BY <2>2 DEF Entry, CommitEntry
  <2>4. files = history.commits[NextCommit] \/ NextCommit \in failed'.details
    BY <2>1 DEF Listing, Failed
  <2>5. clock' \in Nat /\ clock' >= clock BY <1>2, <2>1, Bounds
  <2>6. PICK e : e = Entry(files, FALSE) OBVIOUS
  <2>. HIDE DEF files
  <2>. QED BY <1>2, <2>1, <2>3, <2>4, <2>5, <2>6, OneMoreEntry
<1>8. ASSUME DetailSkipped PROVE CommitsAreSaid' /\ Listing' /\ CommitsSayTheirFiles'
  <2>1. /\ pc = "detail" /\ pc' = "detail" /\ Len(commits) < listed
        /\ UNCHANGED <<clock, history, lookedUp, listed, budgetEnds, failed>>
        /\ clock >= budgetEnds
        /\ commits' = Append(commits, Entry({}, TRUE))
    BY <1>8 DEF DetailSkipped
  <2>2. PICK e : e = Entry({}, TRUE) OBVIOUS
  <2>3. e \in CommitEntry /\ e.unavailable BY <2>2 DEF Entry, CommitEntry, FileSets
  <2>4. commits' = Append(commits, e) BY <2>1, <2>2
  <2>5. clock' \in Nat /\ clock' >= clock /\ failed' = failed BY <1>2, <2>1
  <2>. HIDE DEF CommitEntry
  <2>. QED BY <1>2, <2>1, <2>3, <2>4, <2>5, OneMoreEntry
<1>9. ASSUME ChangesReturn PROVE CommitsAreSaid' /\ Listing' /\ CommitsSayTheirFiles'
  <2>1. /\ pc \in {"merge", "detail"}
        /\ pc = "detail" => Len(commits) = listed
        /\ pc' = "done" /\ payload'.commits = commits
        /\ UNCHANGED <<clock, history, lookedUp, listed, commits, budgetEnds, failed>>
    BY <1>9 DEF ChangesReturn, Return, changeVars
  <2>2. CommitsAreSaid' BY <2>1 DEF CommitsAreSaid, SaysItsFiles
  <2>3. Listing' BY <2>1 DEF Listing, Failed
  <2>4. Len(commits) = listed BY <2>1 DEF CommitsAreSaid
  <2>5. Len(payload'.commits) = listed' /\ DOMAIN payload'.commits = DOMAIN commits'
    BY <2>1, <2>4
  <2>6. ASSUME NEW k \in DOMAIN payload'.commits PROVE SaysItsFiles(payload.commits[k], k)'
    <3>1. SaysItsFiles(commits[k], k)' BY <2>2, <2>5, <2>6 DEF CommitsAreSaid
    <3>2. payload'.commits[k] = commits'[k] BY <2>1
    <3>. QED BY <3>1, <3>2 DEF SaysItsFiles
  <2>7. CommitsSayTheirFiles' BY <2>5, <2>6 DEF CommitsSayTheirFiles
  <2>. QED BY <2>2, <2>3, <2>7
<1>. QED BY <1>4, <1>5, <1>6, <1>7, <1>8, <1>9 DEF ChangesStep

\* Whatever is not a step of the change history.
LEMMA OthersKeepFiles ==
  ASSUME CommitsAreSaid, Listing, UNCHANGED changeVars,
         pc \in {"detail", "done"} => pc' = pc /\ clock' = clock,
         pc' = "done" => payload'.tool # "get_recent_changes"
  PROVE  CommitsAreSaid' /\ Listing' /\ CommitsSayTheirFiles'
<1>1. UNCHANGED <<history, lookedUp, listed, commits, budgetEnds, failed>> BY DEF changeVars
<1>2. CommitsAreSaid'
  <2>1. CASE pc \in {"detail", "done"} BY <1>1, <2>1 DEF CommitsAreSaid, SaysItsFiles
  <2>2. CASE pc \notin {"detail", "done"} BY <1>1, <2>2 DEF CommitsAreSaid
  <2>. QED BY <2>1, <2>2
<1>3. Listing' BY <1>1 DEF Listing, Failed
<1>4. CommitsSayTheirFiles' BY DEF CommitsSayTheirFiles, Listed
<1>. QED BY <1>2, <1>3, <1>4

LEMMA FilesHold ==
  ASSUME Control, CommitsAreSaid, Listing, CommitsSayTheirFiles, [ToolNext]_toolVars
  PROVE  CommitsAreSaid' /\ Listing' /\ CommitsSayTheirFiles'
<1>1. CASE ChangesStep BY <1>1, HistoryKeepsFiles
<1>2. CASE SearchStep /\ UNCHANGED changeVars
  <2>1. pc \in {"start_query", "poll", "queried"}
    BY <1>2
    DEF SearchStep, StartQuery, QueryFails, Poll, PollCensus, PollExpires, LookAgain, TakeCensus,
        CensusExpires, SearchReturns
  <2>2. pc' = "done" => payload'.tool \in {"search_logs", "error"}
    BY <1>2
    DEF SearchStep, StartQuery, QueryFails, Poll, PollCensus, PollExpires, LookAgain, TakeCensus,
        CensusExpires, SearchReturns, Report, Return, Failure
  <2>. QED BY <1>2, <2>1, <2>2, OthersKeepFiles
<1>3. CASE (MetricsStep \/ RunbookSearch) /\ UNCHANGED changeVars
  <2>1. /\ pc \in {"fetch", "match"}
        /\ pc' = "done" => payload'.tool \in {"get_metrics", "search_runbooks"}
    BY <1>3 DEF MetricsStep, Fetch, MetricsReturn, RunbookSearch, Return
  <2>. QED BY <1>3, <2>1, OthersKeepFiles
<1>4. ASSUME NEW name, NEW first, Dispatch(name, first), UNCHANGED changeVars,
             first \in {"start_query", "fetch", "lookup", "match"}
      PROVE  CommitsAreSaid' /\ Listing' /\ CommitsSayTheirFiles'
  BY <1>4, OthersKeepFiles DEF Dispatch
<1>5. CASE Refuse /\ UNCHANGED changeVars
  <2>1. pc = "dispatch" /\ payload'.tool = "error" BY <1>5 DEF Refuse, Return, Failure
  <2>. QED BY <1>5, <2>1, OthersKeepFiles
<1>6. CASE Ingestion /\ UNCHANGED changeVars
  BY <1>6, OthersKeepFiles DEF Ingestion, callVars
<1>7. CASE UNCHANGED toolVars
  <2>1. UNCHANGED <<pc, clock, payload, history, lookedUp, listed, commits, budgetEnds, failed>>
    BY <1>7 DEF toolVars, callVars, changeVars
  <2>2. CommitsAreSaid' BY <2>1 DEF CommitsAreSaid, SaysItsFiles
  <2>3. Listing' BY <2>1 DEF Listing, Failed
  <2>4. CommitsSayTheirFiles' BY <2>1 DEF CommitsSayTheirFiles, Listed, SaysItsFiles
  <2>. QED BY <2>2, <2>3, <2>4
<1>. QED BY <1>1, <1>2, <1>3, <1>4, <1>5, <1>6, <1>7 DEF ToolNext, ToolStep

-----------------------------------------------------------------------------
(* Runbooks: the sort and the cut.                                           *)

LEMMA ApplicableFinite ==
  ASSUME NEW symptoms
  PROVE  /\ IsFiniteSet(Applicable(symptoms)) /\ Cardinality(Applicable(symptoms)) \in Nat
         /\ Applicable(symptoms) \subseteq 1..RUNBOOKS
         /\ \A rb : LET earlier == {r \in Applicable(symptoms) : Precedes(symptoms, r, rb)}
                    IN  IsFiniteSet(earlier) /\ Cardinality(earlier) \in Nat
<1>1. Applicable(symptoms) \subseteq 1..RUNBOOKS BY DEF Applicable
<1>2. IsFiniteSet(1..RUNBOOKS) BY RunbooksAssumption, FS_Interval
<1>3. IsFiniteSet(Applicable(symptoms)) BY <1>1, <1>2, FS_Subset
<1>4. ASSUME NEW rb
      PROVE  LET earlier == {r \in Applicable(symptoms) : Precedes(symptoms, r, rb)}
             IN  IsFiniteSet(earlier) /\ Cardinality(earlier) \in Nat
  <2>. DEFINE earlier == {r \in Applicable(symptoms) : Precedes(symptoms, r, rb)}
  <2>1. earlier \in SUBSET Applicable(symptoms) OBVIOUS
  <2>. HIDE DEF earlier
  <2>2. IsFiniteSet(earlier) BY <1>3, <2>1, FS_Subset
  <2>3. Cardinality(earlier) \in Nat BY <2>2, FS_CardinalityType
  <2>. QED BY <2>2, <2>3 DEF earlier
<1>. QED BY <1>1, <1>3, <1>4, FS_CardinalityType

\* A runbook that precedes another has an earlier place.
LEMMA PlacesAscend ==
  ASSUME NEW symptoms, \A rb \in 1..RUNBOOKS : Score(symptoms, rb) \in Nat,
         NEW r \in Applicable(symptoms), NEW s \in Applicable(symptoms),
         Precedes(symptoms, r, s)
  PROVE  Place(symptoms, r) < Place(symptoms, s)
<1>. DEFINE beforeR == {t \in Applicable(symptoms) : Precedes(symptoms, t, r)}
            beforeS == {t \in Applicable(symptoms) : Precedes(symptoms, t, s)}
<1>1. \A t \in Applicable(symptoms) : t \in Nat /\ Score(symptoms, t) \in Nat
  BY RunbooksAssumption DEF Applicable
<1>2. beforeR \subseteq beforeS /\ r \in beforeS /\ r \notin beforeR
  BY <1>1 DEF Precedes
<1>3. /\ IsFiniteSet(beforeR) /\ Cardinality(beforeR) \in Nat
      /\ IsFiniteSet(beforeS) /\ Cardinality(beforeS) \in Nat
  BY ApplicableFinite
<1>4. Place(symptoms, r) = 1 + Cardinality(beforeR) /\ Place(symptoms, s) = 1 + Cardinality(beforeS)
  BY DEF Place
<1>. HIDE DEF beforeR, beforeS
<1>5. Cardinality(beforeR) <= Cardinality(beforeS) BY <1>2, <1>3, FS_Subset
<1>6. Cardinality(beforeR) # Cardinality(beforeS) BY <1>2, <1>3, FS_Subset
<1>. QED BY <1>3, <1>4, <1>5, <1>6

\* The places are 1 to the number of runbooks that apply, one each.
LEMMA PlacesAreTaken ==
  ASSUME NEW symptoms, \A rb \in 1..RUNBOOKS : Score(symptoms, rb) \in Nat
  PROVE  LET A == Applicable(symptoms)
             n == Cardinality(A)
         IN  /\ \A rb \in A : Place(symptoms, rb) \in 1..n
             /\ \A r, s \in A : Place(symptoms, r) = Place(symptoms, s) => r = s
             /\ \A k \in 1..n : \E rb \in A : Place(symptoms, rb) = k
<1>. DEFINE A == Applicable(symptoms)
            n == Cardinality(A)
            place == [rb \in A |-> Place(symptoms, rb)]
<1>1. IsFiniteSet(A) /\ n \in Nat BY ApplicableFinite
<1>2. ASSUME NEW rb \in A PROVE Place(symptoms, rb) \in 1..n
  <2>. DEFINE earlier == {r \in A : Precedes(symptoms, r, rb)}
  <2>1. Score(symptoms, rb) \in Nat /\ rb \in Nat BY RunbooksAssumption DEF Applicable
  <2>2. earlier \subseteq A /\ rb \notin earlier BY <2>1 DEF Precedes
  <2>3. IsFiniteSet(earlier) /\ Cardinality(earlier) \in Nat BY ApplicableFinite
  <2>4. Place(symptoms, rb) = 1 + Cardinality(earlier) BY DEF Place
  <2>. HIDE DEF earlier, A
  <2>5. Cardinality(earlier) <= Cardinality(A) /\ Cardinality(earlier) # Cardinality(A)
    BY <1>1, <2>2, FS_Subset
  <2>. QED BY <1>1, <2>3, <2>4, <2>5
<1>3. ASSUME NEW r \in A, NEW s \in A, r # s PROVE Place(symptoms, r) # Place(symptoms, s)
  <2>1. /\ r \in Nat /\ s \in Nat /\ Score(symptoms, r) \in Nat /\ Score(symptoms, s) \in Nat
    BY RunbooksAssumption DEF Applicable
  <2>2. Precedes(symptoms, r, s) \/ Precedes(symptoms, s, r) BY <1>3, <2>1 DEF Precedes
  <2>3. Place(symptoms, r) \in Nat /\ Place(symptoms, s) \in Nat BY <1>1, <1>2
  <2>4. Place(symptoms, r) < Place(symptoms, s) \/ Place(symptoms, s) < Place(symptoms, r)
    BY <2>2, PlacesAscend
  <2>. QED BY <2>3, <2>4
<1>. HIDE DEF A
<1>4. place \in [A -> 1..n] BY <1>2
<1>5. place \in Injection(A, 1..n) BY <1>3, <1>4 DEF Injection, IsInjective
<1>6. IsFiniteSet(1..n) /\ Cardinality(1..n) = n BY <1>1, FS_Interval
<1>7. place \in Surjection(A, 1..n) BY <1>5, <1>6, FS_Injection
<1>8. ASSUME NEW k \in 1..n PROVE \E rb \in A : Place(symptoms, rb) = k
  BY <1>7 DEF Surjection
<1>. QED BY <1>2, <1>3, <1>8 DEF A

\* What is offered is what comes first, as many as may be.
LEMMA RankedIsBest ==
  ASSUME NEW symptoms, \A rb \in 1..RUNBOOKS : Score(symptoms, rb) \in Nat,
         NEW rb \in 1..RUNBOOKS
  PROVE  LET offered == ToSet(Ranked(symptoms))
         IN  IF rb \in offered THEN Score(symptoms, rb) >= MIN_SCORE
             ELSE \/ Score(symptoms, rb) < MIN_SCORE
                  \/ /\ Cardinality(offered) = MAX_RESULTS
                     /\ \A other \in offered : Score(symptoms, other) >= Score(symptoms, rb)
<1>. DEFINE A == Applicable(symptoms)
            n == Cardinality(A)
            last == IF n < MAX_RESULTS THEN n ELSE MAX_RESULTS
            ranked == Ranked(symptoms)
            offered == ToSet(ranked)
<1>1. n \in Nat /\ MAX_RESULTS \in Nat /\ last \in Nat /\ MIN_SCORE \in Nat
  BY ApplicableFinite, RunbooksAssumption
<1>2. /\ \A r \in A : Place(symptoms, r) \in 1..n
      /\ \A k \in 1..n : \E r \in A : Place(symptoms, r) = k
  BY PlacesAreTaken
<1>3. /\ \A r \in A : r \in 1..RUNBOOKS /\ Score(symptoms, r) >= MIN_SCORE
      /\ \A r \in 1..RUNBOOKS : Score(symptoms, r) >= MIN_SCORE => r \in A
  BY DEF Applicable
<1>4. ranked = [k \in 1..last |-> CHOOSE r \in A : Place(symptoms, r) = k] BY DEF Ranked
<1>. HIDE DEF A, n, ranked
<1>5. ASSUME NEW k \in 1..last PROVE ranked[k] \in A /\ Place(symptoms, ranked[k]) = k
  <2>1. k \in 1..n BY <1>1
  <2>2. \E r \in A : Place(symptoms, r) = k BY <1>2, <2>1
  <2>. QED BY <1>4, <2>2
<1>. HIDE DEF last
<1>6. DOMAIN ranked = 1..last BY <1>4
<1>7. offered = {ranked[k] : k \in 1..last} BY <1>6 DEF ToSet
<1>. HIDE DEF offered
<1>8. Cardinality(offered) = last
  <2>1. ranked \in [1..last -> offered] BY <1>4, <1>7
  <2>2. ranked \in Bijection(1..last, offered)
    BY <1>5, <1>7, <2>1 DEF Bijection, Injection, IsInjective, Surjection
  <2>3. ExistsBijection(1..last, offered) BY <2>2 DEF ExistsBijection
  <2>. QED BY <1>1, <2>3, FS_CountingElements
<1>9. CASE rb \in offered BY <1>3, <1>5, <1>7, <1>9 DEF offered, ranked
<1>10. CASE rb \notin offered /\ rb \in A
  <2>1. Place(symptoms, rb) \in 1..n BY <1>2, <1>10
  <2>2. last < Place(symptoms, rb)
    <3>1. SUFFICES ASSUME Place(symptoms, rb) \in 1..last PROVE FALSE BY <1>1, <2>1
    <3>. DEFINE k == Place(symptoms, rb)
    <3>2. ranked[k] \in A /\ Place(symptoms, ranked[k]) = k BY <1>5, <3>1
    <3>3. ranked[k] = rb BY <1>10, <3>2, PlacesAreTaken DEF A
    <3>. QED BY <1>7, <1>10, <3>1, <3>3
  <2>3. last = MAX_RESULTS BY <1>1, <2>1, <2>2 DEF last
  <2>4. ASSUME NEW other \in offered PROVE Score(symptoms, other) >= Score(symptoms, rb)
    <3>1. PICK k \in 1..last : other = ranked[k] BY <1>7
    <3>2. other \in A /\ Place(symptoms, other) = k BY <1>5, <3>1
    <3>3. Place(symptoms, other) < Place(symptoms, rb) BY <1>1, <2>1, <2>2, <3>2
    <3>4. ~ Precedes(symptoms, rb, other)
      <4>1. Precedes(symptoms, rb, other) => Place(symptoms, rb) < Place(symptoms, other)
        BY <1>10, <3>2, PlacesAscend DEF A
      <4>. QED BY <1>1, <2>1, <3>2, <3>3, <4>1
    <3>5. Score(symptoms, other) \in Nat /\ Score(symptoms, rb) \in Nat BY <1>3, <3>2
    <3>. QED BY <3>4, <3>5 DEF Precedes
  <2>. QED BY <1>8, <1>10, <2>3, <2>4 DEF offered, ranked
<1>11. CASE rb \notin offered /\ rb \notin A
  <2>1. Score(symptoms, rb) < MIN_SCORE BY <1>1, <1>3, <1>11
  <2>. QED BY <1>11, <2>1 DEF offered, ranked
<1>. QED BY <1>9, <1>10, <1>11

-----------------------------------------------------------------------------
(* What is offered as evidence.                                              *)

\* The change concerns the application, and not Sentry alone by the names it gives.
TheApps(d) ==
  /\ "app" \in ToSet(d.event.resources) \cup d.event.mentions
  /\ "own" \in ToSet(d.event.resources) => "app" \in ToSet(d.event.resources)

\* The application's events of one lookup are among the changes found.
FoundIn(k) ==
  \A e \in ToSet(history.trail[k]) :
    "app" \in ToSet(e.resources) => \E d \in deployments : d.event.id = e.id

AllLookedUp == call.source = "commits" \/ lookedUp = Len(history.trail)

\* The deployments found so far concern the application and leave none of those
\* looked up out, and it is a well-formed runbook search that is matched.
EvidenceInv ==
  /\ \A d \in deployments : TheApps(d)
  /\ \A k \in (1..lookedUp) \ failed.lookups : FoundIn(k)
  /\ pc \in {"list", "detail", "merge"} => AllLookedUp
  /\ pc = "match" => call.tool = "search_runbooks" /\ call.fits
  /\ DeploymentsAreTheApps /\ BestRunbooksAreOffered

LEMMA EvidenceInit == ToolInit => EvidenceInv
BY DEF ToolInit, CallInit, ChangesInit, EvidenceInv, DeploymentsAreTheApps, Listed,
       BestRunbooksAreOffered

\* A step that looks nothing up and, if it ends the call, returns neither
\* deployments nor runbooks.
LEMMA OthersKeepEvidence ==
  ASSUME EvidenceInv, UNCHANGED <<deployments, lookedUp, history>>,
         failed'.lookups = failed.lookups,
         pc' \in {"list", "detail", "merge"} => AllLookedUp',
         pc' = "match" => call'.tool = "search_runbooks" /\ call'.fits,
         pc' = "done" => payload'.tool \notin {"get_recent_changes", "search_runbooks"}
  PROVE  EvidenceInv'
BY DEF EvidenceInv, TheApps, FoundIn, DeploymentsAreTheApps, Listed, BestRunbooksAreOffered

LEMMA HistoryIsEvidence ==
  ASSUME EvidenceInv, ServedBy, Listing, ChangesStep PROVE EvidenceInv'
<1>0. /\ failed \in [lookups : SUBSET (1..lookedUp), details : SUBSET (1..Len(commits))]
      /\ lookedUp \in Nat
  BY DEF Listing, Failed
<1>1. ASSUME NEW answered, LookUp(answered) PROVE EvidenceInv'
  <2>. DEFINE found == IF answered THEN history.trail[lookedUp'] ELSE <<>>
              fresh == {e \in ToSet(found) : e.id \notin Seen /\ Relevant(e)}
  <2>1. /\ deployments' = deployments \cup {[event |-> e, target |-> Target(e)] : e \in fresh}
        /\ pc = "lookup" /\ pc' = pc
        /\ lookedUp' = lookedUp + 1 /\ history' = history
        /\ failed' = IF answered THEN failed
                     ELSE [failed EXCEPT !.lookups = @ \cup {lookedUp'}]
    BY <1>1 DEF LookUp
  <2>2. \A e \in fresh : /\ "app" \in ToSet(e.resources) \cup e.mentions
                         /\ "own" \in ToSet(e.resources) => "app" \in ToSet(e.resources)
    BY DEF Relevant
  <2>3. ASSUME answered, NEW e \in ToSet(history.trail[lookedUp + 1]), "app" \in ToSet(e.resources)
        PROVE  \E d \in deployments' : d.event.id = e.id
    <3>1. CASE e.id \in Seen BY <2>1, <3>1 DEF Seen
    <3>2. CASE e.id \notin Seen
      <4>1. e \in fresh BY <2>1, <2>3, <3>2 DEF Relevant
      <4>. HIDE DEF fresh
      <4>2. [event |-> e, target |-> Target(e)] \in deployments' BY <2>1, <4>1
      <4>. QED BY <4>2
    <3>. QED BY <3>1, <3>2
  <2>4. ASSUME NEW k \in (1..lookedUp') \ failed'.lookups PROVE FoundIn(k)'
    <3>1. CASE k = lookedUp + 1
      <4>1. answered BY <1>0, <2>1, <2>4, <3>1
      <4>. QED BY <2>1, <2>3, <3>1, <4>1 DEF FoundIn
    <3>2. CASE k # lookedUp + 1
      <4>1. k \in 1..lookedUp /\ k \notin failed.lookups BY <1>0, <2>1, <2>4, <3>2
      <4>2. FoundIn(k) BY <4>1 DEF EvidenceInv
      <4>3. deployments \subseteq deployments' BY <2>1
      <4>. QED BY <2>1, <4>2, <4>3 DEF FoundIn
    <3>. QED BY <3>1, <3>2
  <2>. HIDE DEF fresh
  <2>5. ASSUME NEW d \in deployments' PROVE TheApps(d)
    <3>1. CASE d \in deployments BY <3>1 DEF EvidenceInv
    <3>2. CASE \E e \in fresh : d = [event |-> e, target |-> Target(e)] BY <2>2, <3>2 DEF TheApps
    <3>. QED BY <2>1, <3>1, <3>2
  <2>6. \A d \in deployments' : TheApps(d)' BY <2>5 DEF TheApps
  <2>. QED
    BY <2>1, <2>4, <2>6 DEF EvidenceInv, DeploymentsAreTheApps, Listed, BestRunbooksAreOffered
<1>2. ASSUME NEW answered, Detail(answered) PROVE EvidenceInv'
  <2>1. /\ pc = "detail" /\ pc' = "detail" /\ UNCHANGED <<call, deployments, lookedUp, history>>
        /\ failed'.lookups = failed.lookups
    BY <1>0, <1>2 DEF Detail
  <2>2. AllLookedUp' BY <2>1 DEF EvidenceInv, AllLookedUp
  <2>. QED BY <2>1, <2>2, OthersKeepEvidence
<1>3. ASSUME LookedUp PROVE EvidenceInv'
  <2>1. AllLookedUp' /\ pc' \in {"list", "merge"} BY <1>3 DEF LookedUp, AllLookedUp, changeVars
  <2>. QED BY <1>3, <2>1, OthersKeepEvidence DEF LookedUp, changeVars
<1>4. ASSUME ListNothing \/ ListCommits \/ DetailSkipped PROVE EvidenceInv'
  <2>1. /\ pc \in {"list", "detail"} /\ pc' \in {"merge", "detail"}
        /\ UNCHANGED <<call, deployments, lookedUp, history, failed>>
    BY <1>4 DEF ListNothing, ListCommits, DetailSkipped, changeVars
  <2>2. AllLookedUp' BY <2>1 DEF EvidenceInv, AllLookedUp
  <2>. QED BY <2>1, <2>2, OthersKeepEvidence
<1>5. ASSUME ChangesReturn PROVE EvidenceInv'
  <2>1. /\ pc' = "done" /\ payload'.tool = "get_recent_changes"
        /\ payload'.deployments = deployments /\ pc \in {"merge", "detail"}
        /\ UNCHANGED <<call, deployments, lookedUp, history, failed>>
    BY <1>5 DEF ChangesReturn, Return, changeVars
  <2>2. call.source # "commits" => \A k \in DOMAIN history.trail \ failed.lookups : FoundIn(k)
    <3>1. history \in History /\ AllLookedUp BY <2>1 DEF ServedBy, EvidenceInv
    <3>2. DOMAIN history.trail = 1..Len(history.trail) BY <3>1, ChangesAssumption
    <3>. QED BY <3>1, <3>2 DEF AllLookedUp, EvidenceInv
  <2>3. DeploymentsAreTheApps'
    BY <2>1, <2>2 DEF DeploymentsAreTheApps, EvidenceInv, TheApps, FoundIn
  <2>4. \A d \in deployments' : TheApps(d)' BY <2>1 DEF EvidenceInv, TheApps
  <2>5. \A k \in (1..lookedUp') \ failed'.lookups : FoundIn(k)' BY <2>1 DEF EvidenceInv, FoundIn
  <2>. QED BY <2>1, <2>3, <2>4, <2>5 DEF EvidenceInv, BestRunbooksAreOffered
<1>. QED BY <1>1, <1>2, <1>3, <1>4, <1>5 DEF ChangesStep

LEMMA RunbooksAreEvidence ==
  ASSUME EvidenceInv, call \in Request, RunbookSearch,
         UNCHANGED <<deployments, lookedUp, history, failed>>
  PROVE  EvidenceInv'
<1>1. /\ pc = "match" /\ pc' = "done" /\ payload'.tool = "search_runbooks"
      /\ call' = call /\ call.tool = "search_runbooks" /\ call.fits
  BY DEF RunbookSearch, Return, EvidenceInv
<1>2. ASSUME call.symptoms # NoSymptoms PROVE BestRunbooksAreOffered'
  <2>1. payload'.runbooks = Ranked(call.symptoms) BY <1>2 DEF RunbookSearch, Return
  <2>2. \A rb \in 1..RUNBOOKS : Score(call.symptoms, rb) \in Nat
    BY <1>1, <1>2, RunbooksAssumption
  <2>3. PICK symptoms : symptoms = call.symptoms OBVIOUS
  <2>4. PICK offered : offered = ToSet(Ranked(symptoms)) OBVIOUS
  <2>5. ASSUME NEW rb \in 1..RUNBOOKS
        PROVE  IF rb \in offered THEN Score(symptoms, rb) >= MIN_SCORE
               ELSE \/ Score(symptoms, rb) < MIN_SCORE
                    \/ /\ Cardinality(offered) = MAX_RESULTS
                       /\ \A other \in offered : Score(symptoms, other) >= Score(symptoms, rb)
    BY <2>2, <2>3, <2>4, RankedIsBest
  <2>6. ToSet(payload'.runbooks) = offered /\ call'.symptoms = symptoms
    BY <1>1, <2>1, <2>3, <2>4
  <2>. QED BY <2>5, <2>6 DEF BestRunbooksAreOffered
<1>3. ASSUME call.symptoms = NoSymptoms PROVE BestRunbooksAreOffered'
  BY <1>1, <1>3 DEF BestRunbooksAreOffered
<1>4. DeploymentsAreTheApps' BY <1>1 DEF DeploymentsAreTheApps, Listed
<1>. QED BY <1>1, <1>2, <1>3, <1>4 DEF EvidenceInv, TheApps, FoundIn

LEMMA EvidenceHolds ==
  ASSUME EvidenceInv, Control, Listing, [ToolNext]_toolVars PROVE EvidenceInv'
<1>0. call \in Request /\ ServedBy BY DEF Control
<1>1. CASE ChangesStep BY <1>0, <1>1, HistoryIsEvidence
<1>2. CASE RunbookSearch /\ UNCHANGED changeVars
  BY <1>0, <1>2, RunbooksAreEvidence DEF changeVars
<1>3. CASE SearchStep /\ UNCHANGED changeVars
  <2>1. /\ pc' \notin {"match", "list", "detail", "merge"}
        /\ pc' = "done" => payload'.tool \in {"search_logs", "error"}
    BY <1>3
    DEF SearchStep, StartQuery, QueryFails, Poll, PollCensus, PollExpires, LookAgain, TakeCensus,
        CensusExpires, SearchReturns, Report, Return, Failure
  <2>. QED BY <1>3, <2>1, OthersKeepEvidence DEF changeVars
<1>4. CASE MetricsStep /\ UNCHANGED changeVars
  <2>1. /\ pc' \notin {"match", "list", "detail", "merge"}
        /\ pc' = "done" => payload'.tool = "get_metrics"
    BY <1>4 DEF MetricsStep, Fetch, MetricsReturn, Return
  <2>. QED BY <1>4, <2>1, OthersKeepEvidence DEF changeVars
<1>5. ASSUME NEW name, NEW first, Dispatch(name, first), UNCHANGED changeVars,
             <<name, first>> \in {<<"search_logs", "start_query">>, <<"get_metrics", "fetch">>,
                                  <<"get_recent_changes", "lookup">>, <<"search_runbooks", "match">>}
      PROVE  EvidenceInv'
  BY <1>5, OthersKeepEvidence DEF Dispatch, changeVars
<1>6. CASE Refuse /\ UNCHANGED changeVars
  BY <1>6, OthersKeepEvidence DEF Refuse, Return, Failure, changeVars
<1>7. CASE UNCHANGED callVars /\ UNCHANGED changeVars
  BY <1>7
  DEF EvidenceInv, AllLookedUp, TheApps, FoundIn, DeploymentsAreTheApps, Listed,
      BestRunbooksAreOffered, callVars, changeVars
<1>. QED
  BY <1>1, <1>2, <1>3, <1>4, <1>5, <1>6, <1>7 DEF ToolNext, ToolStep, Ingestion, toolVars

-----------------------------------------------------------------------------
(* Numbers in ascending order, and sums.                                     *)

\* How many members of a set of numbers are below a number.
Rank(S, n) == Cardinality({m \in S : m < n})

LEMMA RankType ==
  ASSUME NEW S \in SUBSET Nat, IsFiniteSet(S), NEW n \in S
  PROVE  Rank(S, n) \in 0..(Cardinality(S) - 1)
<1>. DEFINE below == {m \in S : m < n}
<1>1. below \subseteq S /\ n \notin below /\ Rank(S, n) = Cardinality(below) BY DEF Rank
<1>. HIDE DEF below
<1>2. IsFiniteSet(below) /\ Cardinality(below) <= Cardinality(S) /\ Cardinality(below) # Cardinality(S)
  BY <1>1, FS_Subset
<1>3. Cardinality(below) \in Nat /\ Cardinality(S) \in Nat BY <1>2, FS_CardinalityType
<1>. QED BY <1>1, <1>2, <1>3

LEMMA RankAscends ==
  ASSUME NEW S \in SUBSET Nat, IsFiniteSet(S), NEW n \in S, NEW o \in S, n < o
  PROVE  Rank(S, n) < Rank(S, o)
<1>. DEFINE below == {m \in S : m < o}
<1>1. /\ below \in SUBSET Nat /\ below \subseteq S /\ n \in below
      /\ {m \in below : m < n} = {m \in S : m < n}
  <2>1. \A m \in S : m < n => m < o OBVIOUS
  <2>. QED BY <2>1
<1>2. Rank(S, o) = Cardinality(below) /\ Rank(S, n) = Rank(below, n) BY <1>1 DEF Rank
<1>. HIDE DEF below
<1>3. IsFiniteSet(below) BY <1>1, FS_Subset
<1>4. Rank(below, n) \in 0..(Cardinality(below) - 1) /\ Cardinality(below) \in Nat
  BY <1>1, <1>3, RankType, FS_CardinalityType
<1>. QED BY <1>2, <1>4

\* Ascending(S) has each member of S once, at the place its rank says.
LEMMA AscendingRanks ==
  ASSUME NEW S \in SUBSET Nat, IsFiniteSet(S)
  PROVE  /\ Cardinality(S) \in Nat
         /\ Ascending(S) \in [1..Cardinality(S) -> S]
         /\ \A k \in 1..Cardinality(S) : Rank(S, Ascending(S)[k]) = k - 1
         /\ \A n \in S : Rank(S, n) + 1 \in 1..Cardinality(S) /\ Ascending(S)[Rank(S, n) + 1] = n
<1>. DEFINE N == Cardinality(S)
            place == [n \in S |-> Rank(S, n) + 1]
<1>1. N \in Nat BY FS_CardinalityType
<1>2. \A n \in S : Rank(S, n) \in 0..(N - 1) BY RankType
<1>3. \A n, o \in S : Rank(S, n) = Rank(S, o) => n = o
  <2>1. SUFFICES ASSUME NEW n \in S, NEW o \in S, n # o PROVE Rank(S, n) # Rank(S, o) OBVIOUS
  <2>2. Rank(S, n) < Rank(S, o) \/ Rank(S, o) < Rank(S, n) BY <2>1, RankAscends
  <2>3. Rank(S, n) \in Nat /\ Rank(S, o) \in Nat BY <1>1, <1>2
  <2>. QED BY <2>2, <2>3
<1>. HIDE DEF N
<1>4. place \in [S -> 1..N] BY <1>1, <1>2
<1>5. place \in Injection(S, 1..N)
  <2>1. \A n, o \in S : place[n] = place[o] => n = o BY <1>1, <1>2, <1>3
  <2>. QED BY <1>4, <2>1 DEF Injection, IsInjective
<1>6. IsFiniteSet(1..N) /\ Cardinality(1..N) = N BY <1>1, FS_Interval
<1>7. place \in Surjection(S, 1..N) BY <1>5, <1>6, FS_Injection DEF N
<1>8. ASSUME NEW k \in 1..N PROVE \E n \in S : Rank(S, n) = k - 1
  <2>1. PICK n \in S : place[n] = k BY <1>7 DEF Surjection
  <2>. QED BY <1>1, <1>2, <2>1
<1>9. Ascending(S) = [k \in 1..N |-> CHOOSE n \in S : Rank(S, n) = k - 1] BY DEF Ascending, N, Rank
<1>10. ASSUME NEW k \in 1..N PROVE Ascending(S)[k] \in S /\ Rank(S, Ascending(S)[k]) = k - 1
  BY <1>8, <1>9
<1>11. Ascending(S) \in [1..N -> S]
  <2>1. DOMAIN Ascending(S) = 1..N /\ Ascending(S) = [k \in 1..N |-> Ascending(S)[k]] BY <1>9
  <2>. QED BY <1>10, <2>1
<1>12. ASSUME NEW n \in S
       PROVE  Rank(S, n) + 1 \in 1..N /\ Ascending(S)[Rank(S, n) + 1] = n
  <2>1. Rank(S, n) + 1 \in 1..N /\ (Rank(S, n) + 1) - 1 = Rank(S, n) BY <1>1, <1>2
  <2>. QED BY <1>3, <1>10, <2>1
<1>. QED BY <1>1, <1>10, <1>11, <1>12 DEF N

\* The sums of the beginnings of a sequence.
Sums(values, sum) ==
  sum[0] = 0 /\ \A n \in 1..Len(values) : sum[n] = sum[n - 1] + values[n]

LEMMA TotalSums ==
  ASSUME NEW values \in Seq(Nat)
  PROVE  \E sum \in [0..Len(values) -> Nat] : Sums(values, sum) /\ Total(values) = sum[Len(values)]
<1>. DEFINE L == Len(values)
            State == Nat
            sum[n \in 0..L] == IF n = 0 THEN 0 ELSE sum[n - 1] + values[n]
            Form(g) == [n \in 0..L |-> IF n = 0 THEN 0 ELSE g[n - 1] + values[n]]
<1>1. L \in Nat /\ 0 \in State OBVIOUS
<1>2. PICK step : step = [p \in State \X (1..L) |-> p[1] + values[p[2]]] OBVIOUS
<1>3. step \in StepsUpTo(L, State)
  <2>1. \A n \in 1..L : values[n] \in Nat OBVIOUS
  <2>2. \A old \in State, v \in Nat : old + v \in State OBVIOUS
  <2>. HIDE DEF State, L
  <2>. QED BY <1>2, <2>1, <2>2 DEF StepsUpTo
<1>4. ASSUME NEW n \in 1..L, NEW old \in State PROVE step[<<old, n>>] = old + values[n]
  BY <1>2
<1>. HIDE DEF L, State
<1>5. PICK f : f \in [0..L -> State] /\ Follows(f, L, 0, step) BY <1>1, <1>3, RecursionExists
<1>6. f = Form(f)
  <2>1. ASSUME NEW n \in 0..L PROVE f[n] = Form(f)[n]
    <3>1. CASE n = 0 BY <1>5, <3>1 DEF Follows
    <3>2. CASE n # 0
      <4>1. n \in 1..L /\ n - 1 \in 0..L BY <1>1, <3>2
      <4>2. f[n] = step[<<f[n - 1], n>>] /\ f[n - 1] \in State BY <1>5, <4>1 DEF Follows
      <4>. QED BY <1>4, <3>2, <4>1, <4>2
    <3>. QED BY <3>1, <3>2
  <2>. QED BY <1>5, <2>1
<1>7. sum = Form(sum)
  <2>1. sum = CHOOSE g : g = Form(g) BY DEF sum
  <2>. HIDE DEF Form, sum
  <2>. QED BY <1>6, <2>1
<1>. HIDE DEF sum
<1>8. sum[0] = 0 /\ \A n \in 1..L : sum[n] = sum[n - 1] + values[n]
  <2>1. 0 \in 0..L /\ \A n \in 1..L : n \in 0..L /\ n # 0 BY <1>1
  <2>. QED BY <1>7, <2>1
<1>9. \A n \in 0..L : sum[n] \in State
  <2>1. \A n \in 1..L : sum[n - 1] \in State => sum[n] = step[<<sum[n - 1], n>>] BY <1>4, <1>8
  <2>. QED BY <1>1, <1>3, <1>8, <2>1, RecursionStays
<1>10. sum \in [0..L -> State]
  <2>. HIDE DEF Form
  <2>1. DOMAIN sum = 0..L /\ sum = [n \in 0..L |-> sum[n]] BY <1>7 DEF Form
  <2>. QED BY <1>9, <2>1
<1>11. Sums(values, sum) BY <1>8 DEF Sums, L
<1>12. Total(values) = sum[L] BY DEF Total, sum, L
<1>. QED BY <1>10, <1>11, <1>12 DEF L, State

-----------------------------------------------------------------------------
(* The entries of a search and the rows they stand for.                      *)

\* Rows of a search: lines that had arrived, none twice.
RowsAmong(a) == {found \in Seq(1..a) : \A j, k \in DOMAIN found : found[j] = found[k] => j = k}

LEMMA RowsAreLines == ASSUME NEW a \in Nat, NEW found \in RowsAmong(a) PROVE ToSet(found) \subseteq 1..a
<1>1. found \in Seq(1..a) BY DEF RowsAmong
<1>2. \A k \in DOMAIN found : found[k] \in 1..a BY <1>1
<1>. QED BY <1>2 DEF ToSet

LEMMA FoundAreRows == ASSUME arrived \in Nat PROVE Found \in RowsAmong(arrived)
<1>. DEFINE hits == {n \in 1..arrived : Matches(n)}
            newest == {n \in hits : Cardinality({m \in hits : n < m}) < LOG_QUERY_LIMIT}
            N == Cardinality(newest)
            at == Ascending(newest)
<1>1. newest \subseteq 1..arrived /\ newest \in SUBSET Nat /\ Found = Reverse(at) BY DEF Found
<1>. HIDE DEF newest
<1>2. IsFiniteSet(newest)
  <2>1. IsFiniteSet(1..arrived) BY FS_Interval
  <2>. QED BY <1>1, <2>1, FS_Subset
<1>3. /\ N \in Nat /\ at \in [1..N -> newest]
      /\ \A k \in 1..N : Rank(newest, at[k]) = k - 1
  BY <1>1, <1>2, AscendingRanks
<1>. HIDE DEF at, N
<1>4. at \in Seq(newest) /\ Len(at) = N BY <1>3
<1>5. Found = [k \in 1..N |-> at[(N - k) + 1]] BY <1>1, <1>4 DEF Reverse
<1>6. \A k \in 1..N : (N - k) + 1 \in 1..N BY <1>3
<1>7. Found \in [1..N -> 1..arrived] BY <1>1, <1>3, <1>5, <1>6
<1>8. Found \in Seq(1..arrived) /\ DOMAIN Found = 1..N BY <1>3, <1>7
<1>9. ASSUME NEW j \in 1..N, NEW k \in 1..N, Found[j] = Found[k] PROVE j = k
  <2>1. at[(N - j) + 1] = at[(N - k) + 1] BY <1>5, <1>9
  <2>2. ((N - j) + 1) - 1 = ((N - k) + 1) - 1 BY <1>3, <1>6, <2>1
  <2>. QED BY <1>3, <2>2
<1>. QED BY <1>8, <1>9 DEF RowsAmong

\* What _dedupe's groups are made of.
Groups == Seq([key : {Key(n) : n \in 1..Len(log)}, occurrences : Nat, first_seen : Nat,
               last_seen : Nat, id : {log[n].id : n \in 1..Len(log)},
               ids : Seq({log[n].id : n \in 1..Len(log)})])

LEMMA SampleStays ==
  ASSUME NEW Ids, NEW ids \in Seq(Ids), NEW id \in Ids
  PROVE  Sample(ids, id) \in Seq(Ids)
BY DEF Sample

LEMMA AddRowStays ==
  ASSUME NEW groups \in Groups, Len(log) \in Nat, NEW n \in 1..Len(log)
  PROVE  AddRow(groups, n) \in Groups
<1>. DEFINE Keys == {Key(m) : m \in 1..Len(log)}
            Ids == {log[m].id : m \in 1..Len(log)}
            Group == [key : Keys, occurrences : Nat, first_seen : Nat, last_seen : Nat, id : Ids,
                      ids : Seq(Ids)]
<1>1. Key(n) \in Keys /\ log[n].id \in Ids /\ n \in Nat OBVIOUS
<1>2. groups \in Seq(Group) BY DEF Groups
<1>3. SUFFICES AddRow(groups, n) \in Seq(Group) BY DEF Groups
<1>. HIDE DEF Keys, Ids
<1>4. \A ids \in Seq(Ids) : Sample(ids, log[n].id) \in Seq(Ids) BY <1>1, SampleStays
<1>5. CASE \E g \in DOMAIN groups : groups[g].key = Key(n)
  <2>1. PICK added : added = AddRow(groups, n) OBVIOUS
  <2>2. added = [g \in DOMAIN groups |->
                   IF groups[g].key # Key(n) THEN groups[g]
                   ELSE [groups[g] EXCEPT !.occurrences = @ + 1,
                                          !.first_seen = IF n < @ THEN n ELSE @,
                                          !.last_seen = IF n > @ THEN n ELSE @,
                                          !.ids = Sample(@, log[n].id)]]
    BY <1>5, <2>1 DEF AddRow
  <2>3. ASSUME NEW g \in DOMAIN groups PROVE added[g] \in Group
    <3>1. PICK grp : grp = groups[g] OBVIOUS
    <3>2. grp \in Group
      <4>. HIDE DEF Group
      <4>. QED BY <1>2, <3>1
    <3>3. Sample(grp.ids, log[n].id) \in Seq(Ids) BY <1>4, <3>2
    <3>4. added[g] = IF grp.key # Key(n) THEN grp
                     ELSE [grp EXCEPT !.occurrences = @ + 1,
                                      !.first_seen = IF n < @ THEN n ELSE @,
                                      !.last_seen = IF n > @ THEN n ELSE @,
                                      !.ids = Sample(@, log[n].id)]
      BY <2>2, <3>1
    <3>5. CASE grp.key # Key(n)
      <4>1. added[g] = grp BY <3>4, <3>5
      <4>. QED BY <3>2, <4>1
    <3>6. CASE grp.key = Key(n)
      <4>1. grp = [key |-> grp.key, occurrences |-> grp.occurrences, first_seen |-> grp.first_seen,
                   last_seen |-> grp.last_seen, id |-> grp.id, ids |-> grp.ids]
        BY <3>2
      <4>2. added[g] = [key |-> grp.key, occurrences |-> grp.occurrences + 1,
                        first_seen |-> IF n < grp.first_seen THEN n ELSE grp.first_seen,
                        last_seen |-> IF n > grp.last_seen THEN n ELSE grp.last_seen,
                        id |-> grp.id, ids |-> Sample(grp.ids, log[n].id)]
        BY <3>4, <3>6, <4>1
      <4>3. /\ grp.key \in Keys /\ grp.occurrences + 1 \in Nat /\ grp.id \in Ids
            /\ grp.first_seen \in Nat /\ grp.last_seen \in Nat
        BY <3>2
      <4>. QED BY <1>1, <3>3, <4>2, <4>3
    <3>. QED BY <3>5, <3>6
  <2>4. Len(groups) \in Nat /\ DOMAIN groups = 1..Len(groups) BY <1>2
  <2>5. added \in [1..Len(groups) -> Group]
    <3>. HIDE DEF Group
    <3>. QED BY <2>2, <2>3, <2>4
  <2>. HIDE DEF Group
  <2>. QED BY <2>1, <2>4, <2>5
<1>6. CASE ~ \E g \in DOMAIN groups : groups[g].key = Key(n)
  <2>1. PICK new : new = [key |-> Key(n), occurrences |-> 1, first_seen |-> n, last_seen |-> n,
                          id |-> log[n].id, ids |-> Sample(<<>>, log[n].id)]
    OBVIOUS
  <2>2. new \in Group
    <3>1. <<>> \in Seq(Ids) OBVIOUS
    <3>2. Sample(<<>>, log[n].id) \in Seq(Ids) BY <1>4, <3>1
    <3>. QED BY <1>1, <2>1, <3>2
  <2>3. AddRow(groups, n) = Append(groups, new) BY <1>6, <2>1 DEF AddRow
  <2>. HIDE DEF Group
  <2>. QED BY <1>2, <2>2, <2>3
<1>. QED BY <1>5, <1>6

\* What is shown of the groups.
Shown(groups) ==
  [g \in DOMAIN groups |-> [groups[g] EXCEPT !.ids = IF Len(@) <= 1 THEN <<>> ELSE @]]

\* Dedupe takes in row by row.
LEMMA DedupeFollows ==
  ASSUME Len(log) \in Nat, NEW found \in Seq(1..Len(log))
  PROVE  \E after \in [0..Len(found) -> Groups] :
           /\ after[0] = <<>>
           /\ \A n \in 1..Len(found) : after[n] = AddRow(after[n - 1], found[n])
           /\ Dedupe(found) = Shown(after[Len(found)])
<1>. DEFINE L == Len(found)
            State == Groups
            after[n \in 0..L] == IF n = 0 THEN <<>> ELSE AddRow(after[n - 1], found[n])
            Form(g) == [n \in 0..L |-> IF n = 0 THEN <<>> ELSE AddRow(g[n - 1], found[n])]
<1>1. L \in Nat /\ <<>> \in State BY DEF Groups
<1>2. PICK step : step = [p \in State \X (1..L) |-> AddRow(p[1], found[p[2]])] OBVIOUS
<1>3. step \in StepsUpTo(L, State)
  <2>1. \A n \in 1..L : found[n] \in 1..Len(log) OBVIOUS
  <2>2. \A old \in State, m \in 1..Len(log) : AddRow(old, m) \in State BY AddRowStays
  <2>. HIDE DEF State, L
  <2>. QED BY <1>2, <2>1, <2>2 DEF StepsUpTo
<1>4. ASSUME NEW n \in 1..L, NEW old \in State PROVE step[<<old, n>>] = AddRow(old, found[n])
  BY <1>2
<1>. HIDE DEF L, State
<1>5. PICK f : f \in [0..L -> State] /\ Follows(f, L, <<>>, step) BY <1>1, <1>3, RecursionExists
<1>6. f = Form(f)
  <2>1. ASSUME NEW n \in 0..L PROVE f[n] = Form(f)[n]
    <3>1. CASE n = 0 BY <1>5, <3>1 DEF Follows
    <3>2. CASE n # 0
      <4>1. n \in 1..L /\ n - 1 \in 0..L BY <1>1, <3>2
      <4>2. f[n] = step[<<f[n - 1], n>>] /\ f[n - 1] \in State BY <1>5, <4>1 DEF Follows
      <4>. QED BY <1>4, <3>2, <4>1, <4>2
    <3>. QED BY <3>1, <3>2
  <2>. QED BY <1>5, <2>1
<1>7. after = Form(after)
  <2>1. after = CHOOSE g : g = Form(g) BY DEF after
  <2>. HIDE DEF Form, after
  <2>. QED BY <1>6, <2>1
<1>. HIDE DEF after
<1>8. after[0] = <<>> /\ \A n \in 1..L : after[n] = AddRow(after[n - 1], found[n])
  <2>1. 0 \in 0..L /\ \A n \in 1..L : n \in 0..L /\ n # 0 BY <1>1
  <2>. QED BY <1>7, <2>1
<1>9. \A n \in 0..L : after[n] \in State
  <2>1. \A n \in 1..L : after[n - 1] \in State => after[n] = step[<<after[n - 1], n>>]
    BY <1>4, <1>8
  <2>. QED BY <1>1, <1>3, <1>8, <2>1, RecursionStays
<1>10. after \in [0..L -> State]
  <2>. HIDE DEF Form
  <2>1. DOMAIN after = 0..L /\ after = [n \in 0..L |-> after[n]] BY <1>7 DEF Form
  <2>. QED BY <1>9, <2>1
<1>11. Dedupe(found) = Shown(after[L]) BY DEF Dedupe, Shown, after, L
<1>. QED BY <1>8, <1>10, <1>11 DEF L, State

\* A group stands for the rows with its key.
Own(grp, R) == {m \in R : Key(m) = grp.key}
IdsOf(lines) == {log[m].id : m \in lines} \ {NoId}

Stands(grp, R) ==
  /\ grp.occurrences = Cardinality(Own(grp, R))
  /\ {grp.first_seen, grp.last_seen} \subseteq Own(grp, R)
  /\ \A m \in Own(grp, R) : grp.first_seen <= m /\ m <= grp.last_seen
  /\ ToSet(grp.ids) \subseteq IdsOf(Own(grp, R))
  /\ ToSet(grp.ids) = IdsOf(Own(grp, R)) \/ Len(grp.ids) >= 2

StandFor(groups, R) ==
  /\ \A g \in DOMAIN groups : Stands(groups[g], R)
  /\ \A g, h \in DOMAIN groups : groups[g].key = groups[h].key => g = h
  /\ \A m \in R : \E g \in DOMAIN groups : groups[g].key = Key(m)

LEMMA SampleShows ==
  ASSUME NEW Ids, NEW ids \in Seq(Ids), NEW id \in Ids, NEW shown,
         ToSet(ids) \subseteq shown \ {NoId}, ToSet(ids) = shown \ {NoId} \/ Len(ids) >= 2
  PROVE  LET more == Sample(ids, id)
             all  == (shown \cup {id}) \ {NoId}
         IN  ToSet(more) \subseteq all /\ (ToSet(more) = all \/ Len(more) >= 2)
<1>. DEFINE all == (shown \cup {id}) \ {NoId}
<1>. PICK more : more = Sample(ids, id) OBVIOUS
<1>1. CASE id = NoId BY <1>1 DEF Sample
<1>2. CASE Contains(ids, id) /\ id # NoId
  <2>1. id \in ToSet(ids) BY <1>2 DEF Contains, ToSet
  <2>. QED BY <1>2, <2>1 DEF Sample
<1>3. CASE ~ Contains(ids, id) /\ id # NoId /\ Len(ids) >= MAX_CORRELATION_SAMPLES
  <2>1. Len(ids) >= 2 BY <1>3, LogAssumption
  <2>. QED BY <1>3, <2>1 DEF Sample
<1>4. CASE ~ Contains(ids, id) /\ id # NoId /\ ~ (Len(ids) >= MAX_CORRELATION_SAMPLES)
  <2>1. Sample(ids, id) = Append(ids, id) BY <1>4 DEF Sample
  <2>2. ToSet(Append(ids, id)) = ToSet(ids) \cup {id}
    <3>1. /\ DOMAIN Append(ids, id) = 1..(Len(ids) + 1) /\ DOMAIN ids = 1..Len(ids)
          /\ Len(ids) \in Nat /\ Append(ids, id)[Len(ids) + 1] = id
          /\ \A k \in 1..Len(ids) : Append(ids, id)[k] = ids[k]
      OBVIOUS
    <3>2. \A k : k \in 1..(Len(ids) + 1) <=> k \in 1..Len(ids) \/ k = Len(ids) + 1 BY <3>1
    <3>. QED BY <3>1, <3>2 DEF ToSet
  <2>3. Len(Append(ids, id)) = Len(ids) + 1 /\ Len(ids) \in Nat OBVIOUS
  <2>4. Len(ids) >= 2 => Len(Append(ids, id)) >= 2 BY <2>3
  <2>. QED BY <1>4, <2>1, <2>2, <2>4
<1>. QED BY <1>1, <1>2, <1>3, <1>4

LEMMA AnotherRow ==
  ASSUME Len(log) \in Nat, NEW R \in SUBSET (1..Len(log)), NEW n \in 1..Len(log), n \notin R,
         NEW groups \in Groups, NEW g \in DOMAIN groups, Stands(groups[g], R),
         groups[g].key = Key(n)
  PROVE  Stands([groups[g] EXCEPT !.occurrences = @ + 1,
                                  !.first_seen = IF n < @ THEN n ELSE @,
                                  !.last_seen = IF n > @ THEN n ELSE @,
                                  !.ids = Sample(@, log[n].id)], R \cup {n})
<1>. DEFINE Keys == {Key(m) : m \in 1..Len(log)}
            Ids == {log[m].id : m \in 1..Len(log)}
            Group == [key : Keys, occurrences : Nat, first_seen : Nat, last_seen : Nat, id : Ids,
                      ids : Seq(Ids)]
<1>1. PICK grp : grp = groups[g] OBVIOUS
<1>2. grp \in Group
  <2>1. groups \in Seq(Group) BY DEF Groups
  <2>. HIDE DEF Group
  <2>. QED BY <1>1, <2>1
<1>3. PICK new : new = [grp EXCEPT !.occurrences = @ + 1,
                                   !.first_seen = IF n < @ THEN n ELSE @,
                                   !.last_seen = IF n > @ THEN n ELSE @,
                                   !.ids = Sample(@, log[n].id)]
  OBVIOUS
<1>4. /\ new.key = grp.key /\ new.occurrences = grp.occurrences + 1
      /\ new.first_seen = (IF n < grp.first_seen THEN n ELSE grp.first_seen)
      /\ new.last_seen = (IF n > grp.last_seen THEN n ELSE grp.last_seen)
      /\ new.ids = Sample(grp.ids, log[n].id)
  BY <1>2, <1>3
<1>5. PICK own : own = Own(grp, R) OBVIOUS
<1>6. /\ grp.occurrences = Cardinality(own)
      /\ grp.first_seen \in own /\ grp.last_seen \in own
      /\ \A m \in own : grp.first_seen <= m /\ m <= grp.last_seen
      /\ ToSet(grp.ids) \subseteq IdsOf(own)
      /\ ToSet(grp.ids) = IdsOf(own) \/ Len(grp.ids) >= 2
  BY <1>1, <1>5 DEF Stands
<1>7. /\ Own(new, R \cup {n}) = own \cup {n}
      /\ Cardinality(Own(new, R \cup {n})) = Cardinality(own) + 1
      /\ IdsOf(Own(new, R \cup {n})) = (IdsOf(own) \cup {log[n].id}) \ {NoId}
  <2>1. grp.key = Key(n) /\ new.key = Key(n) BY <1>1, <1>4
  <2>2. Own(new, R \cup {n}) = own \cup {n} BY <1>5, <2>1 DEF Own
  <2>3. n \notin own /\ own \subseteq 1..Len(log) BY <1>5 DEF Own
  <2>4. IsFiniteSet(1..Len(log)) BY FS_Interval
  <2>5. IsFiniteSet(own) BY <2>3, <2>4, FS_Subset
  <2>6. Cardinality(own \cup {n}) = Cardinality(own) + 1 BY <2>3, <2>5, FS_AddElement
  <2>7. IdsOf(own \cup {n}) = (IdsOf(own) \cup {log[n].id}) \ {NoId} BY DEF IdsOf
  <2>. QED BY <2>2, <2>6, <2>7
<1>8. own \subseteq Nat /\ n \in Nat
  <2>1. own \subseteq R BY <1>5 DEF Own
  <2>2. \A m \in 1..Len(log) : m \in Nat OBVIOUS
  <2>. QED BY <2>1, <2>2
<1>9. new.first_seen \in own \cup {n} /\ new.last_seen \in own \cup {n} BY <1>4, <1>6
<1>10. \A m \in own \cup {n} : new.first_seen <= m /\ m <= new.last_seen
  <2>1. grp.first_seen \in Nat /\ grp.last_seen \in Nat BY <1>6, <1>8
  <2>2. new.first_seen <= n /\ n <= new.last_seen BY <1>4, <1>8, <2>1
  <2>3. new.first_seen <= grp.first_seen /\ grp.last_seen <= new.last_seen BY <1>4, <1>8, <2>1
  <2>4. new.first_seen \in Nat /\ new.last_seen \in Nat BY <1>8, <1>9
  <2>5. ASSUME NEW m \in own PROVE new.first_seen <= m /\ m <= new.last_seen
    <3>1. m \in Nat /\ grp.first_seen <= m /\ m <= grp.last_seen BY <1>6, <1>8
    <3>. QED BY <2>1, <2>3, <2>4, <3>1
  <2>. QED BY <2>2, <2>5
<1>11. /\ ToSet(new.ids) \subseteq IdsOf(Own(new, R \cup {n}))
       /\ ToSet(new.ids) = IdsOf(Own(new, R \cup {n})) \/ Len(new.ids) >= 2
  <2>1. PICK ids, id, shown : ids = grp.ids /\ id = log[n].id /\ shown = IdsOf(own) OBVIOUS
  <2>2. ids \in Seq(Ids) /\ id \in Ids BY <1>2, <2>1
  <2>. HIDE DEF Ids
  <2>3. shown = shown \ {NoId} BY <2>1 DEF IdsOf
  <2>4. ToSet(ids) \subseteq shown \ {NoId} /\ (ToSet(ids) = shown \ {NoId} \/ Len(ids) >= 2)
    BY <1>6, <2>1, <2>3
  <2>5. LET more == Sample(ids, id)
            all  == (shown \cup {id}) \ {NoId}
        IN  ToSet(more) \subseteq all /\ (ToSet(more) = all \/ Len(more) >= 2)
    BY <2>2, <2>4, SampleShows
  <2>. QED BY <1>4, <1>7, <2>1, <2>5
<1>12. Stands(new, R \cup {n}) BY <1>4, <1>6, <1>7, <1>9, <1>10, <1>11 DEF Stands
<1>. QED BY <1>1, <1>3, <1>12

LEMMA FirstRow ==
  ASSUME Len(log) \in Nat, NEW R \in SUBSET (1..Len(log)), NEW n \in 1..Len(log), n \notin R,
         \A m \in R : Key(m) # Key(n)
  PROVE  Stands([key |-> Key(n), occurrences |-> 1, first_seen |-> n, last_seen |-> n,
                 id |-> log[n].id, ids |-> Sample(<<>>, log[n].id)], R \cup {n})
<1>1. PICK new : new = [key |-> Key(n), occurrences |-> 1, first_seen |-> n, last_seen |-> n,
                        id |-> log[n].id, ids |-> Sample(<<>>, log[n].id)]
  OBVIOUS
<1>2. Own(new, R \cup {n}) = {n} BY <1>1 DEF Own
<1>3. Cardinality({n}) = 1 BY FS_Singleton
<1>4. IdsOf({n}) = {log[n].id} \ {NoId} BY DEF IdsOf
<1>5. LET more == Sample(<<>>, log[n].id)
          all  == ({} \cup {log[n].id}) \ {NoId}
      IN  ToSet(more) \subseteq all /\ (ToSet(more) = all \/ Len(more) >= 2)
  <2>1. PICK none, id, Ids : none = <<>> /\ id = log[n].id /\ Ids = {id} OBVIOUS
  <2>2. none \in Seq(Ids) /\ id \in Ids BY <2>1
  <2>3. ToSet(none) = {} BY <2>1 DEF ToSet
  <2>4. ToSet(none) \subseteq {} \ {NoId} /\ ToSet(none) = {} \ {NoId} BY <2>3
  <2>5. LET more == Sample(none, id)
            all  == ({} \cup {id}) \ {NoId}
        IN  ToSet(more) \subseteq all /\ (ToSet(more) = all \/ Len(more) >= 2)
    BY <2>2, <2>4, SampleShows
  <2>. QED BY <2>1, <2>5
<1>6. n \in Nat OBVIOUS
<1>7. ToSet(new.ids) \subseteq IdsOf({n}) /\ (ToSet(new.ids) = IdsOf({n}) \/ Len(new.ids) >= 2)
  <2>1. {} \cup {log[n].id} = {log[n].id} OBVIOUS
  <2>2. new.ids = Sample(<<>>, log[n].id) BY <1>1
  <2>. QED BY <1>4, <1>5, <2>1, <2>2
<1>8. new.occurrences = 1 /\ new.first_seen = n /\ new.last_seen = n BY <1>1
<1>9. Stands(new, R \cup {n})
  <2>1. new.occurrences = Cardinality(Own(new, R \cup {n})) BY <1>2, <1>3, <1>8
  <2>2. {new.first_seen, new.last_seen} \subseteq Own(new, R \cup {n}) BY <1>2, <1>8
  <2>3. \A m \in Own(new, R \cup {n}) : new.first_seen <= m /\ m <= new.last_seen
    BY <1>2, <1>6, <1>8
  <2>. QED BY <1>2, <1>7, <2>1, <2>2, <2>3 DEF Stands
<1>. QED BY <1>1, <1>9

LEMMA AddRowStands ==
  ASSUME Len(log) \in Nat, NEW R \in SUBSET (1..Len(log)), NEW n \in 1..Len(log), n \notin R,
         NEW groups \in Groups, StandFor(groups, R)
  PROVE  StandFor(AddRow(groups, n), R \cup {n})
<1>. PICK added : added = AddRow(groups, n) OBVIOUS
<1>1. /\ \A g \in DOMAIN groups : Stands(groups[g], R)
      /\ \A g, h \in DOMAIN groups : groups[g].key = groups[h].key => g = h
      /\ \A m \in R : \E g \in DOMAIN groups : groups[g].key = Key(m)
  BY DEF StandFor
<1>2. CASE \E g \in DOMAIN groups : groups[g].key = Key(n)
  <2>1. added = [g \in DOMAIN groups |->
                   IF groups[g].key # Key(n) THEN groups[g]
                   ELSE [groups[g] EXCEPT !.occurrences = @ + 1,
                                          !.first_seen = IF n < @ THEN n ELSE @,
                                          !.last_seen = IF n > @ THEN n ELSE @,
                                          !.ids = Sample(@, log[n].id)]]
    BY <1>2 DEF AddRow
  <2>2. ASSUME NEW g \in DOMAIN groups
        PROVE  added[g].key = groups[g].key /\ Stands(added[g], R \cup {n})
    <3>1. CASE groups[g].key # Key(n)
      <4>1. added[g] = groups[g] BY <2>1, <3>1
      <4>2. Own(groups[g], R \cup {n}) = Own(groups[g], R) BY <3>1 DEF Own
      <4>3. Stands(groups[g], R) BY <1>1
      <4>. QED BY <4>1, <4>2, <4>3 DEF Stands
    <3>2. CASE groups[g].key = Key(n)
      <4>1. added[g] = [groups[g] EXCEPT !.occurrences = @ + 1,
                                         !.first_seen = IF n < @ THEN n ELSE @,
                                         !.last_seen = IF n > @ THEN n ELSE @,
                                         !.ids = Sample(@, log[n].id)]
        BY <2>1, <3>2
      <4>2. Stands(groups[g], R) BY <1>1
      <4>3. Stands([groups[g] EXCEPT !.occurrences = @ + 1,
                                     !.first_seen = IF n < @ THEN n ELSE @,
                                     !.last_seen = IF n > @ THEN n ELSE @,
                                     !.ids = Sample(@, log[n].id)], R \cup {n})
        BY <3>2, <4>2, AnotherRow
      <4>4. added[g].key = groups[g].key BY <4>1
      <4>. QED BY <4>1, <4>3, <4>4
    <3>. QED BY <3>1, <3>2
  <2>3. DOMAIN added = DOMAIN groups BY <2>1
  <2>4. \A g, h \in DOMAIN added : added[g].key = added[h].key => g = h BY <1>1, <2>2, <2>3
  <2>5. \A m \in R \cup {n} : \E g \in DOMAIN added : added[g].key = Key(m) BY <1>1, <1>2, <2>2, <2>3
  <2>. QED BY <2>2, <2>3, <2>4, <2>5 DEF StandFor
<1>3. CASE ~ \E g \in DOMAIN groups : groups[g].key = Key(n)
  <2>1. PICK new : new = [key |-> Key(n), occurrences |-> 1, first_seen |-> n, last_seen |-> n,
                          id |-> log[n].id, ids |-> Sample(<<>>, log[n].id)]
    OBVIOUS
  <2>2. added = Append(groups, new) BY <1>3, <2>1 DEF AddRow
  <2>3. /\ DOMAIN groups = 1..Len(groups) /\ Len(groups) \in Nat
        /\ DOMAIN added = 1..(Len(groups) + 1) /\ added[Len(groups) + 1] = new
        /\ \A g \in DOMAIN groups : added[g] = groups[g]
    BY <2>2 DEF Groups
  <2>4. \A g : g \in DOMAIN added <=> g \in DOMAIN groups \/ g = Len(groups) + 1 BY <2>3
  <2>5. new.key = Key(n) /\ Stands(new, R \cup {n})
    <3>1. \A m \in R : Key(m) # Key(n) BY <1>1, <1>3
    <3>. QED BY <2>1, <3>1, FirstRow
  <2>6. ASSUME NEW g \in DOMAIN groups PROVE Stands(groups[g], R \cup {n})
    <3>1. Own(groups[g], R \cup {n}) = Own(groups[g], R) BY <1>3 DEF Own
    <3>2. Stands(groups[g], R) BY <1>1
    <3>. QED BY <3>1, <3>2 DEF Stands
  <2>7. \A g \in DOMAIN added : Stands(added[g], R \cup {n}) BY <2>3, <2>4, <2>5, <2>6
  <2>8. \A g, h \in DOMAIN added : added[g].key = added[h].key => g = h
    BY <1>1, <1>3, <2>3, <2>4, <2>5
  <2>9. \A m \in R \cup {n} : \E g \in DOMAIN added : added[g].key = Key(m)
    BY <1>1, <2>3, <2>4, <2>5
  <2>. QED BY <2>7, <2>8, <2>9 DEF StandFor
<1>. QED BY <1>2, <1>3

\* A sequence has no more members than places, and just as many if none is there twice.
LEMMA RangeBound ==
  ASSUME NEW S, NEW s \in Seq(S)
  PROVE  /\ IsFiniteSet(ToSet(s)) /\ Cardinality(ToSet(s)) <= Len(s)
         /\ (\A j, k \in DOMAIN s : s[j] = s[k] => j = k) => Cardinality(ToSet(s)) = Len(s)
<1>. DEFINE N == Len(s)
<1>1. N \in Nat /\ DOMAIN s = 1..N /\ s = [k \in 1..N |-> s[k]] OBVIOUS
<1>2. PICK T : T = ToSet(s) OBVIOUS
<1>3. T = {s[k] : k \in 1..N} BY <1>1, <1>2 DEF ToSet
<1>. HIDE DEF N
<1>4. s \in Surjection(1..N, T) BY <1>1, <1>3 DEF Surjection
<1>5. IsFiniteSet(1..N) /\ Cardinality(1..N) = N
  <2>1. N \in Nat BY <1>1
  <2>. QED BY <2>1, FS_Interval
<1>6. /\ IsFiniteSet(T) /\ Cardinality(T) <= N
      /\ Cardinality(T) = N <=> s \in Injection(1..N, T)
  BY <1>4, <1>5, FS_Surjection
<1>7. s \in [1..N -> T] BY <1>4 DEF Surjection
<1>8. (\A j, k \in DOMAIN s : s[j] = s[k] => j = k) => s \in Injection(1..N, T)
  BY <1>1, <1>7 DEF Injection, IsInjective
<1>. QED BY <1>2, <1>6, <1>8 DEF N

\* The rows before the n-th.
Until(found, n) == {found[j] : j \in 1..n}

LEMMA DedupeStands ==
  ASSUME Len(log) \in Nat, NEW a \in 0..Len(log), NEW found \in RowsAmong(a)
  PROVE  \E groups \in Groups : Dedupe(found) = Shown(groups) /\ StandFor(groups, ToSet(found))
<1>1. /\ found \in Seq(1..Len(log)) /\ Len(found) \in Nat /\ DOMAIN found = 1..Len(found)
      /\ \A j, k \in 1..Len(found) : found[j] = found[k] => j = k
  <2>1. found \in Seq(1..a) BY DEF RowsAmong
  <2>2. \A k \in 1..a : k \in 1..Len(log) OBVIOUS
  <2>3. found \in Seq(1..Len(log)) BY <2>1, <2>2
  <2>. QED BY <2>3 DEF RowsAmong
<1>2. PICK after \in [0..Len(found) -> Groups] :
        /\ after[0] = <<>>
        /\ \A n \in 1..Len(found) : after[n] = AddRow(after[n - 1], found[n])
        /\ Dedupe(found) = Shown(after[Len(found)])
  BY <1>1, DedupeFollows
<1>. DEFINE S == {n \in 0..Len(found) : StandFor(after[n], Until(found, n))}
<1>3. 0 \in S
  <2>1. Until(found, 0) = {} BY DEF Until
  <2>2. DOMAIN <<>> = {} OBVIOUS
  <2>3. StandFor(<<>>, {}) BY <2>2 DEF StandFor
  <2>4. 0 \in 0..Len(found) BY <1>1
  <2>. QED BY <1>2, <2>1, <2>3, <2>4
<1>4. ASSUME NEW n \in 1..Len(found), n - 1 \in S PROVE n \in S
  <2>1. n - 1 \in 0..Len(found) /\ n \in 0..Len(found) /\ n \in 1..n /\ n \notin 1..(n - 1) BY <1>1
  <2>2. \A j : j \in 1..n <=> j \in 1..(n - 1) \/ j = n BY <1>1
  <2>3. PICK R, row, groups : R = Until(found, n - 1) /\ row = found[n] /\ groups = after[n - 1]
    OBVIOUS
  <2>4. row \in 1..Len(log) /\ groups \in Groups
    <3>1. row \in 1..Len(log) BY <1>1, <2>3
    <3>2. groups \in Groups BY <2>1, <2>3
    <3>. QED BY <3>1, <3>2
  <2>5. R \in SUBSET (1..Len(log))
    <3>1. \A j \in 1..(n - 1) : j \in 1..Len(found) BY <1>1
    <3>2. \A j \in 1..(n - 1) : found[j] \in 1..Len(log) BY <1>1, <3>1
    <3>. QED BY <2>3, <3>2 DEF Until
  <2>6. row \notin R
    <3>1. \A j \in 1..(n - 1) : j \in 1..Len(found) /\ j # n BY <1>1
    <3>2. \A j \in 1..(n - 1) : found[j] # found[n] BY <1>1, <3>1
    <3>. QED BY <2>3, <3>2 DEF Until
  <2>7. Until(found, n) = R \cup {row} BY <2>2, <2>3 DEF Until
  <2>8. StandFor(groups, R) BY <1>4, <2>3
  <2>9. StandFor(AddRow(groups, row), R \cup {row}) BY <2>4, <2>5, <2>6, <2>8, AddRowStands
  <2>. QED BY <1>2, <2>1, <2>3, <2>7, <2>9
<1>5. Len(found) \in S
  <2>1. Len(found) \in 0..Len(found) BY <1>1
  <2>. HIDE DEF S
  <2>. QED BY <1>1, <1>3, <1>4, <2>1, Upwards
<1>6. Until(found, Len(found)) = ToSet(found) BY <1>1 DEF Until, ToSet
<1>7. PICK groups : groups = after[Len(found)] OBVIOUS
<1>8. groups \in Groups
  <2>1. Len(found) \in 0..Len(found) BY <1>1
  <2>. QED BY <1>7, <2>1
<1>. QED BY <1>2, <1>5, <1>6, <1>7, <1>8

\* The rows of a level are those of the entries of that level.
OfLevel(lines, R, l) == {m \in R : lines[m].level = l}

LEMMA CountsAdd ==
  ASSUME NEW N \in Nat, NEW R, IsFiniteSet(R), NEW entries, DOMAIN entries = 1..N, NEW l,
         \A g \in 1..N : entries[g].occurrences = Cardinality(Own(entries[g], R)),
         \A g, h \in 1..N : entries[g].key = entries[h].key => g = h,
         \A m \in R : \E g \in 1..N : entries[g].key = Key(m),
         NEW values, values = [k \in 1..N |-> IF entries[k].key[1] = l THEN entries[k].occurrences
                                                                      ELSE 0]
  PROVE  Total(values) = Cardinality(OfLevel(log, R, l))
<1>. DEFINE mine(g) == IF entries[g].key[1] = l THEN Own(entries[g], R) ELSE {}
            first(n) == {m \in R : log[m].level = l /\ \E h \in 1..n : entries[h].key = Key(m)}
<1>2. ASSUME NEW g \in 1..N
      PROVE  /\ IsFiniteSet(mine(g)) /\ Cardinality(mine(g)) \in Nat
             /\ values[g] = Cardinality(mine(g))
  <2>1. Own(entries[g], R) \subseteq R BY DEF Own
  <2>2. IsFiniteSet(Own(entries[g], R)) BY <2>1, FS_Subset
  <2>3. IsFiniteSet(mine(g)) BY <2>2, FS_EmptySet
  <2>4. values[g] = Cardinality(mine(g)) BY FS_EmptySet
  <2>. HIDE DEF mine
  <2>. QED BY <2>3, <2>4, FS_CardinalityType
<1>3. \A m : Key(m)[1] = log[m].level BY DEF Key
<1>4. ASSUME NEW n \in 1..N
      PROVE  first(n) = first(n - 1) \cup mine(n) /\ first(n - 1) \cap mine(n) = {}
  <2>1. \A j : j \in 1..n <=> j \in 1..(n - 1) \/ j = n OBVIOUS
  <2>2. \A m : m \in mine(n) <=> m \in R /\ Key(m) = entries[n].key /\ log[m].level = l
    BY <1>3 DEF Own
  <2>3. \A j \in 1..(n - 1) : j \in 1..N /\ j # n OBVIOUS
  <2>. HIDE DEF mine
  <2>4. first(n) = first(n - 1) \cup mine(n) BY <2>1, <2>2
  <2>5. first(n - 1) \cap mine(n) = {} BY <2>2, <2>3
  <2>. QED BY <2>4, <2>5
<1>. HIDE DEF mine
<1>5. values \in Seq(Nat) /\ Len(values) = N
  <2>1. \A g \in 1..N : values[g] \in Nat BY <1>2
  <2>2. DOMAIN values = 1..N /\ values = [g \in 1..N |-> values[g]] OBVIOUS
  <2>3. values \in [1..N -> Nat] BY <2>1, <2>2
  <2>. QED BY <2>3
<1>6. PICK sum \in [0..N -> Nat] : Sums(values, sum) /\ Total(values) = sum[N]
  BY <1>5, TotalSums
<1>7. ASSUME NEW n PROVE IsFiniteSet(first(n)) /\ Cardinality(first(n)) \in Nat
  <2>1. first(n) \subseteq R OBVIOUS
  <2>. HIDE DEF first
  <2>. QED BY <2>1, FS_Subset, FS_CardinalityType
<1>. DEFINE S == {n \in 0..N : sum[n] = Cardinality(first(n))}
<1>8. 0 \in S
  <2>1. first(0) = {} OBVIOUS
  <2>. HIDE DEF first
  <2>2. Cardinality(first(0)) = 0 BY <2>1, FS_EmptySet
  <2>3. sum[0] = 0 /\ 0 \in 0..N BY <1>6 DEF Sums
  <2>. QED BY <2>2, <2>3
<1>9. ASSUME NEW n \in 1..N, n - 1 \in S PROVE n \in S
  <2>. HIDE DEF first
  <2>1. PICK A, B : A = first(n - 1) /\ B = mine(n) OBVIOUS
  <2>2. Cardinality(first(n)) = Cardinality(A) + Cardinality(B)
    <3>1. IsFiniteSet(A) /\ IsFiniteSet(B) BY <1>2, <1>7, <2>1
    <3>2. A \cap B = {} /\ first(n) = A \cup B BY <1>4, <2>1
    <3>3. Cardinality(A \cap B) = 0 BY <3>2, FS_EmptySet
    <3>4. Cardinality(A) \in Nat /\ Cardinality(B) \in Nat BY <3>1, FS_CardinalityType
    <3>5. Cardinality(A \cup B) = Cardinality(A) + Cardinality(B) - Cardinality(A \cap B)
      BY <3>1, FS_Union
    <3>. QED BY <3>2, <3>3, <3>4, <3>5
  <2>3. sum[n] = sum[n - 1] + values[n] BY <1>5, <1>6 DEF Sums
  <2>4. sum[n - 1] = Cardinality(first(n - 1)) /\ n \in 0..N BY <1>9
  <2>. QED BY <1>2, <2>1, <2>2, <2>3, <2>4
<1>10. N \in S
  <2>1. N \in 0..N OBVIOUS
  <2>. HIDE DEF S
  <2>. QED BY <1>8, <1>9, <2>1, Upwards
<1>11. first(N) = OfLevel(log, R, l)
  <2>1. \A m \in R : \E g \in 1..N : entries[g].key = Key(m) OBVIOUS
  <2>. QED BY <2>1 DEF OfLevel
<1>. QED BY <1>6, <1>10, <1>11

LevelsIn(entries) == {e.key[1] : e \in ToSet(entries)}

Counted(levels, lines, R) == [l \in levels |-> Cardinality(OfLevel(lines, R, l))]

LEMMA LevelsAdd ==
  ASSUME NEW N \in Nat, NEW R, IsFiniteSet(R), NEW entries, DOMAIN entries = 1..N,
         \A g \in 1..N : entries[g].occurrences = Cardinality(Own(entries[g], R)),
         \A g, h \in 1..N : entries[g].key = entries[h].key => g = h,
         \A m \in R : \E g \in 1..N : entries[g].key = Key(m)
  PROVE  LevelCounts(entries) = Counted(LevelsIn(entries), log, R)
<1>1. ASSUME NEW l
      PROVE  Total([k \in DOMAIN entries |->
                      IF entries[k].key[1] = l THEN entries[k].occurrences ELSE 0])
               = Cardinality(OfLevel(log, R, l))
  <2>1. PICK values : values = [k \in 1..N |-> IF entries[k].key[1] = l
                                              THEN entries[k].occurrences ELSE 0]
    OBVIOUS
  <2>2. Total(values) = Cardinality(OfLevel(log, R, l)) BY <2>1, CountsAdd
  <2>. QED BY <2>1, <2>2
<1>. QED BY <1>1 DEF LevelCounts, LevelsIn, Counted

\* EntriesStandForRows, of any report.
Faithful(lines, found, entries, counts) ==
  LET key(n)      == <<lines[n].level, lines[n].text>>
      rowsOf(e)   == {n \in ToSet(found) : key(n) = e.key}
      idsOf(e)    == {lines[n].id : n \in rowsOf(e)} \ {NoId}
  IN  /\ UNION {rowsOf(e) : e \in ToSet(entries)} = ToSet(found)
      /\ Cardinality({e.key : e \in ToSet(entries)}) = Len(entries)
      /\ \A e \in ToSet(entries) :
           /\ e.occurrences = Cardinality(rowsOf(e))
           /\ {e.first_seen, e.last_seen} \subseteq rowsOf(e)
           /\ \A n \in rowsOf(e) : e.first_seen <= n /\ n <= e.last_seen
           /\ ToSet(e.ids) \subseteq idsOf(e)
           /\ Cardinality(idsOf(e)) >= 2 => Len(e.ids) >= 2
      /\ counts = [l \in {lines[n].level : n \in ToSet(found)} |->
                     Cardinality(OfLevel(lines, ToSet(found), l))]

LEMMA DedupeIsFaithful ==
  ASSUME Len(log) \in Nat, NEW a \in 0..Len(log), NEW found \in RowsAmong(a)
  PROVE  Faithful(log, found, Dedupe(found), LevelCounts(Dedupe(found)))
<1>1. PICK groups \in Groups : Dedupe(found) = Shown(groups) /\ StandFor(groups, ToSet(found))
  BY DedupeStands
<1>2. PICK R, entries : R = ToSet(found) /\ entries = Dedupe(found) OBVIOUS
<1>3. PICK N \in Nat : DOMAIN groups = 1..N /\ N = Len(groups) BY DEF Groups
<1>. DEFINE Ids == {log[m].id : m \in 1..Len(log)}
            Group == [key : {Key(n) : n \in 1..Len(log)}, occurrences : Nat, first_seen : Nat,
                      last_seen : Nat, id : Ids, ids : Seq(Ids)]
<1>4. IsFiniteSet(R)
  <2>1. found \in Seq(1..a) BY DEF RowsAmong
  <2>. QED BY <1>2, <2>1, RangeBound
<1>5. ASSUME NEW g \in 1..N
      PROVE  /\ entries[g].key = groups[g].key /\ entries[g].occurrences = groups[g].occurrences
             /\ entries[g].first_seen = groups[g].first_seen
             /\ entries[g].last_seen = groups[g].last_seen
             /\ entries[g].ids = IF Len(groups[g].ids) <= 1 THEN <<>> ELSE groups[g].ids
             /\ groups[g].ids \in Seq(Ids)
  <2>1. PICK grp : grp = groups[g] OBVIOUS
  <2>2. grp \in Group
    <3>1. groups \in Seq(Group) BY DEF Groups
    <3>. HIDE DEF Group
    <3>. QED BY <1>3, <2>1, <3>1
  <2>3. entries[g] = [grp EXCEPT !.ids = IF Len(@) <= 1 THEN <<>> ELSE @]
    BY <1>1, <1>2, <1>3, <2>1 DEF Shown
  <2>4. grp = [key |-> grp.key, occurrences |-> grp.occurrences, first_seen |-> grp.first_seen,
               last_seen |-> grp.last_seen, id |-> grp.id, ids |-> grp.ids]
    BY <2>2
  <2>5. entries[g] = [key |-> grp.key, occurrences |-> grp.occurrences,
                      first_seen |-> grp.first_seen, last_seen |-> grp.last_seen, id |-> grp.id,
                      ids |-> IF Len(grp.ids) <= 1 THEN <<>> ELSE grp.ids]
    BY <2>3, <2>4
  <2>6. grp.ids \in Seq(Ids)
    <3>. HIDE DEF Ids
    <3>. QED BY <2>2
  <2>. QED BY <2>1, <2>5, <2>6
<1>6. DOMAIN entries = 1..N BY <1>1, <1>2, <1>3 DEF Shown
<1>7. /\ \A g \in 1..N : Stands(groups[g], R)
      /\ \A g, h \in 1..N : entries[g].key = entries[h].key => g = h
      /\ \A m \in R : \E g \in 1..N : entries[g].key = Key(m)
  <2>1. /\ \A g \in 1..N : Stands(groups[g], R)
        /\ \A g, h \in 1..N : groups[g].key = groups[h].key => g = h
        /\ \A m \in R : \E g \in 1..N : groups[g].key = Key(m)
    BY <1>1, <1>2, <1>3 DEF StandFor
  <2>2. \A g \in 1..N : entries[g].key = groups[g].key BY <1>5
  <2>3. \A m \in R : \E g \in 1..N : entries[g].key = Key(m) BY <2>1, <2>2
  <2>4. \A g, h \in 1..N : entries[g].key = entries[h].key => g = h BY <2>1, <2>2
  <2>. QED BY <2>1, <2>3, <2>4
<1>8. ToSet(entries) = {entries[g] : g \in 1..N} BY <1>6 DEF ToSet
<1>. DEFINE own(e) == {n \in ToSet(found) : <<log[n].level, log[n].text>> = e.key}
            ids(e) == {log[n].id : n \in own(e)} \ {NoId}
<1>9. ASSUME NEW g \in 1..N
      PROVE  LET e == entries[g]
             IN  /\ e.occurrences = Cardinality(own(e))
                 /\ {e.first_seen, e.last_seen} \subseteq own(e)
                 /\ \A n \in own(e) : e.first_seen <= n /\ n <= e.last_seen
                 /\ ToSet(e.ids) \subseteq ids(e)
                 /\ Cardinality(ids(e)) >= 2 => Len(e.ids) >= 2
  <2>1. PICK e, grp : e = entries[g] /\ grp = groups[g] OBVIOUS
  <2>2. own(e) = Own(grp, R) /\ ids(e) = IdsOf(Own(grp, R)) BY <1>2, <1>5, <2>1 DEF Own, IdsOf, Key
  <2>3. Stands(grp, R) BY <1>7, <2>1
  <2>4. /\ e.occurrences = grp.occurrences /\ e.first_seen = grp.first_seen
        /\ e.last_seen = grp.last_seen
        /\ e.ids = IF Len(grp.ids) <= 1 THEN <<>> ELSE grp.ids
        /\ grp.ids \in Seq(Ids)
    BY <1>5, <2>1
  <2>. HIDE DEF own, ids, Ids
  <2>5. /\ e.occurrences = Cardinality(own(e))
        /\ {e.first_seen, e.last_seen} \subseteq own(e)
        /\ \A n \in own(e) : e.first_seen <= n /\ n <= e.last_seen
    BY <2>2, <2>3, <2>4 DEF Stands
  <2>6. ToSet(e.ids) \subseteq ids(e)
    <3>1. ToSet(<<>>) = {} BY DEF ToSet
    <3>2. ToSet(grp.ids) \subseteq ids(e) BY <2>2, <2>3 DEF Stands
    <3>. QED BY <2>4, <3>1, <3>2
  <2>7. ASSUME Cardinality(ids(e)) >= 2 PROVE Len(e.ids) >= 2
    <3>1. Len(grp.ids) \in Nat BY <2>4
    <3>2. CASE Len(grp.ids) >= 2 BY <2>4, <3>1, <3>2
    <3>3. CASE ToSet(grp.ids) = ids(e)
      <4>1. IsFiniteSet(ToSet(grp.ids)) /\ Cardinality(ToSet(grp.ids)) <= Len(grp.ids)
        BY <2>4, RangeBound
      <4>2. Cardinality(ToSet(grp.ids)) \in Nat BY <4>1, FS_CardinalityType
      <4>3. Len(grp.ids) >= 2 BY <2>7, <3>1, <3>3, <4>1, <4>2
      <4>. QED BY <2>4, <3>1, <4>3
    <3>. QED BY <2>2, <2>3, <3>2, <3>3 DEF Stands
  <2>. QED BY <2>1, <2>5, <2>6, <2>7
<1>10. UNION {own(e) : e \in ToSet(entries)} = ToSet(found)
  <2>1. \A m \in ToSet(found) : \E g \in 1..N : entries[g].key = <<log[m].level, log[m].text>>
    BY <1>2, <1>7 DEF Key
  <2>2. \A m \in ToSet(found) : \E e \in ToSet(entries) : m \in own(e) BY <1>8, <2>1
  <2>3. \A e : own(e) \subseteq ToSet(found) OBVIOUS
  <2>. HIDE DEF own
  <2>. QED BY <2>2, <2>3
<1>11. Cardinality({e.key : e \in ToSet(entries)}) = Len(entries)
  <2>1. PICK keys : keys = [g \in 1..N |-> entries[g].key] OBVIOUS
  <2>2. PICK Keys : Keys = {entries[g].key : g \in 1..N} OBVIOUS
  <2>3. keys \in Seq(Keys) /\ Len(keys) = N /\ DOMAIN keys = 1..N
    <3>1. keys \in [1..N -> Keys] BY <2>1, <2>2
    <3>. QED BY <3>1
  <2>4. \A j, k \in DOMAIN keys : keys[j] = keys[k] => j = k BY <1>7, <2>1
  <2>5. Cardinality(ToSet(keys)) = N BY <2>3, <2>4, RangeBound
  <2>6. ToSet(keys) = {e.key : e \in ToSet(entries)}
    <3>1. {e.key : e \in ToSet(entries)} = Keys BY <1>8, <2>2
    <3>2. ToSet(keys) = Keys BY <2>1, <2>2, <2>3 DEF ToSet
    <3>. QED BY <3>1, <3>2
  <2>7. Len(entries) = N
    <3>1. entries = [g \in 1..N |-> entries[g]] BY <1>1, <1>2, <1>3 DEF Shown
    <3>2. PICK E : E = {entries[g] : g \in 1..N} OBVIOUS
    <3>3. entries \in [1..N -> E] BY <3>1, <3>2
    <3>. QED BY <3>3
  <2>. QED BY <2>5, <2>6, <2>7
<1>12. LevelCounts(entries) = [l \in {log[n].level : n \in ToSet(found)} |->
                                 Cardinality(OfLevel(log, ToSet(found), l))]
  <2>1. {e.key[1] : e \in ToSet(entries)} = {log[n].level : n \in R}
    <3>1. \A m : Key(m)[1] = log[m].level BY DEF Key
    <3>2. \A g \in 1..N : \E m \in R : Key(m) = entries[g].key
      <4>1. \A g \in 1..N : entries[g].first_seen \in own(entries[g]) BY <1>9
      <4>. QED BY <1>2, <4>1 DEF Key
    <3>3. {e.key[1] : e \in ToSet(entries)} = {entries[g].key[1] : g \in 1..N} BY <1>8
    <3>4. \A g \in 1..N : \E m \in R : log[m].level = entries[g].key[1] BY <3>1, <3>2
    <3>5. \A m \in R : \E g \in 1..N : entries[g].key[1] = log[m].level BY <1>7, <3>1
    <3>6. PICK A, B : A = {entries[g].key[1] : g \in 1..N} /\ B = {log[n].level : n \in R}
      OBVIOUS
    <3>7. A \subseteq B BY <3>4, <3>6
    <3>8. B \subseteq A BY <3>5, <3>6
    <3>. QED BY <3>3, <3>6, <3>7, <3>8
  <2>2. \A g \in 1..N : entries[g].occurrences = Cardinality(Own(entries[g], R)) BY <1>2, <1>9 DEF Own, Key
  <2>3. /\ N \in Nat /\ IsFiniteSet(R) /\ DOMAIN entries = 1..N
        /\ \A g, h \in 1..N : entries[g].key = entries[h].key => g = h
        /\ \A m \in R : \E g \in 1..N : entries[g].key = Key(m)
    BY <1>4, <1>6, <1>7
  <2>. HIDE DEF own, ids, Ids, Group
  <2>4. LevelCounts(entries) = Counted(LevelsIn(entries), log, R) BY <2>2, <2>3, LevelsAdd
  <2>. QED BY <1>2, <2>1, <2>4 DEF Counted, LevelsIn
<1>13. \A e \in ToSet(entries) :
         /\ e.occurrences = Cardinality(own(e))
         /\ {e.first_seen, e.last_seen} \subseteq own(e)
         /\ \A n \in own(e) : e.first_seen <= n /\ n <= e.last_seen
         /\ ToSet(e.ids) \subseteq ids(e)
         /\ Cardinality(ids(e)) >= 2 => Len(e.ids) >= 2
  <2>. HIDE DEF own, ids
  <2>. QED BY <1>8, <1>9
<1>14. Faithful(log, found, entries, LevelCounts(entries))
  BY <1>10, <1>11, <1>12, <1>13 DEF Faithful
<1>. QED BY <1>2, <1>14

\* The invariant of a search's rows.
RowsInv == rows \in RowsAmong(arrived) /\ EntriesStandForRows

LEMMA FewerRows ==
  ASSUME NEW a \in Nat, NEW b \in Nat, a <= b
  PROVE  <<>> \in RowsAmong(b) /\ RowsAmong(a) \subseteq RowsAmong(b)
<1>1. <<>> \in RowsAmong(b) BY DEF RowsAmong
<1>2. \A k \in 1..a : k \in 1..b OBVIOUS
<1>3. ASSUME NEW found \in RowsAmong(a) PROVE found \in RowsAmong(b)
  <2>1. found \in Seq(1..a) BY DEF RowsAmong
  <2>2. found \in Seq(1..b) BY <1>2, <2>1
  <2>. QED BY <2>2 DEF RowsAmong
<1>. QED BY <1>1, <1>3

\* Reporting is faithful.
LEMMA ReportIsFaithful ==
  ASSUME Control, RowsInv, NEW census, Report(census), UNCHANGED <<log, arrived, rows>>
  PROVE  RowsInv'
<1>1. PICK lines, a, found, entries, counts :
         /\ lines = log /\ a = arrived /\ found = rows
         /\ entries = Dedupe(rows) /\ counts = LevelCounts(Dedupe(rows))
  OBVIOUS
<1>2. found \in RowsAmong(a) /\ a \in 0..Len(lines) /\ Len(lines) \in Nat
  BY <1>1 DEF RowsInv, Control
<1>3. Faithful(lines, found, entries, counts) BY <1>1, <1>2, DedupeIsFaithful
<1>4. ToSet(found) \subseteq 1..a
  <2>1. a \in Nat BY <1>2
  <2>. QED BY <1>2, <2>1, RowsAreLines
<1>5. /\ payload'.rows = found /\ payload'.entries = entries /\ payload'.level_counts = counts
      /\ log' = lines /\ arrived' = a /\ rows' = found
  BY <1>1 DEF Report, Return
<1>6. Faithful(log', payload'.rows, payload'.entries, payload'.level_counts) BY <1>3, <1>5
<1>7. ToSet(payload'.rows) \subseteq 1..arrived' BY <1>4, <1>5
<1>8. EntriesStandForRows'
  BY <1>6, <1>7 DEF EntriesStandForRows, Faithful, OfLevel, Key, CountLevels, LevelsOf
<1>. QED BY <1>2, <1>5, <1>8 DEF RowsInv

LEMMA OthersKeepRows ==
  ASSUME RowsInv, UNCHANGED <<log, arrived, rows>>,
         pc' = "done" => payload'.tool # "search_logs" \/ UNCHANGED callVars
  PROVE  RowsInv'
<1>1. rows' \in RowsAmong(arrived') BY DEF RowsInv
<1>2. CASE ~ Searched'
  BY <1>1, <1>2 DEF RowsInv, EntriesStandForRows, Searched
<1>3. CASE UNCHANGED callVars
  <2>1. SUFFICES ASSUME Searched PROVE RowsInv'
    BY <1>1, <1>2, <1>3 DEF Searched, callVars
  <2>2. PICK lines, found, entries, counts :
          /\ lines = log /\ found = payload.rows
          /\ entries = payload.entries /\ counts = payload.level_counts
    OBVIOUS
  <2>3. Faithful(lines, found, entries, counts)
    <3>1. EntriesStandForRows BY DEF RowsInv
    <3>2. Faithful(log, payload.rows, payload.entries, payload.level_counts)
      BY <2>1, <3>1 DEF EntriesStandForRows, Faithful, OfLevel, Key, CountLevels, LevelsOf
    <3>. QED BY <2>2, <3>2
  <2>4. ToSet(found) \subseteq 1..arrived BY <2>1, <2>2 DEF RowsInv, EntriesStandForRows
  <2>5. /\ payload'.rows = found /\ payload'.entries = entries /\ payload'.level_counts = counts
        /\ log' = lines /\ arrived' = arrived
    BY <1>3, <2>2 DEF callVars
  <2>6. Faithful(log', payload'.rows, payload'.entries, payload'.level_counts) BY <2>3, <2>5
  <2>7. ToSet(payload'.rows) \subseteq 1..arrived' BY <2>4, <2>5
  <2>8. EntriesStandForRows'
    BY <2>6, <2>7 DEF EntriesStandForRows, Faithful, OfLevel, Key, CountLevels, LevelsOf
  <2>. QED BY <1>1, <2>8 DEF RowsInv
<1>. QED BY <1>2, <1>3 DEF Searched

LEMMA RowsHold == ASSUME Control, RowsInv, [ToolNext]_toolVars PROVE RowsInv'
<1>0. arrived \in Nat /\ Len(log) \in Nat BY DEF Control
<1>1. CASE SearchStep
  <2>1. ASSUME NEW st, Poll(st) PROVE RowsInv'
    <3>1. rows' \in {<<>>, Found} /\ UNCHANGED <<log, arrived>> /\ pc' # "done"
      BY <2>1 DEF Poll, Results
    <3>2. rows' \in RowsAmong(arrived') BY <1>0, <3>1, FoundAreRows, FewerRows
    <3>. QED BY <3>1, <3>2 DEF RowsInv, EntriesStandForRows, Searched
  <2>2. ASSUME NEW census, Report(census), UNCHANGED searchVars PROVE RowsInv'
    BY <2>2, ReportIsFaithful DEF searchVars
  <2>3. CASE UNCHANGED <<log, arrived, rows>> /\ (pc' = "done" => payload' = Failure)
    BY <2>3, OthersKeepRows DEF Failure
  <2>4. CASE StartQuery \/ PollExpires \/ LookAgain \/ TakeCensus
    BY <2>3, <2>4 DEF StartQuery, PollExpires, LookAgain, TakeCensus
  <2>5. CASE QueryFails
    <3>1. UNCHANGED searchVars BY <2>5 DEF QueryFails
    <3>2. CASE query = "census" BY <2>2, <2>5, <3>1, <3>2 DEF QueryFails
    <3>3. CASE query # "census" BY <2>3, <2>5, <3>1, <3>3 DEF QueryFails, Return, searchVars
    <3>. QED BY <3>2, <3>3
  <2>6. ASSUME NEW st, NEW scanned, PollCensus(st, scanned) PROVE RowsInv'
    <3>1. UNCHANGED searchVars /\ pc = "poll" BY <2>6 DEF PollCensus
    <3>2. CASE st \in TERMINAL_STATUSES BY <2>2, <2>6, <3>1, <3>2 DEF PollCensus
    <3>3. CASE st \notin TERMINAL_STATUSES BY <2>3, <2>6, <3>1, <3>3 DEF PollCensus, searchVars
    <3>. QED BY <3>2, <3>3
  <2>7. CASE CensusExpires \/ SearchReturns BY <2>2, <2>7 DEF CensusExpires, SearchReturns
  <2>. QED BY <1>1, <2>1, <2>4, <2>5, <2>6, <2>7 DEF SearchStep
<1>2. CASE Ingestion
  <2>1. UNCHANGED <<callVars, log, rows>> /\ arrived' = arrived + 1 /\ pc # "done"
    BY <1>2 DEF Ingestion
  <2>2. rows' \in RowsAmong(arrived')
    <3>1. arrived + 1 \in Nat /\ arrived <= arrived + 1 BY <1>0
    <3>. QED BY <1>0, <2>1, <3>1, FewerRows DEF RowsInv
  <2>. QED BY <2>1, <2>2 DEF RowsInv, EntriesStandForRows, Searched, callVars
<1>3. CASE (ChangesStep \/ MetricsStep \/ RunbookSearch \/ Refuse) /\ UNCHANGED searchVars
  <2>1. ASSUME pc' = "done" PROVE payload'.tool # "search_logs"
    <3>1. CASE ChangesStep
      <4>1. CASE ChangesReturn BY <4>1 DEF ChangesReturn, Return
      <4>2. ~ (LookedUp \/ ListNothing \/ ListCommits)
        BY <2>1 DEF LookedUp, ListNothing, ListCommits
      <4>3. ~ \E answered \in BOOLEAN : LookUp(answered) \/ Detail(answered)
        BY <2>1 DEF LookUp, Detail
      <4>4. ~ DetailSkipped BY <2>1 DEF DetailSkipped
      <4>. QED BY <3>1, <4>1, <4>2, <4>3, <4>4 DEF ChangesStep
    <3>2. CASE MetricsStep BY <2>1, <3>2 DEF MetricsStep, Fetch, MetricsReturn, Return
    <3>3. CASE RunbookSearch \/ Refuse BY <2>1, <3>3 DEF RunbookSearch, Refuse, Return, Failure
    <3>. QED BY <1>3, <3>1, <3>2, <3>3
  <2>. QED BY <1>3, <2>1, OthersKeepRows DEF searchVars
<1>4. ASSUME NEW name, NEW first, Dispatch(name, first), UNCHANGED searchVars, first # "done"
      PROVE  RowsInv'
  BY <1>4, OthersKeepRows DEF Dispatch, searchVars
<1>5. CASE UNCHANGED toolVars BY <1>5, OthersKeepRows DEF toolVars, searchVars
<1>. QED BY <1>1, <1>2, <1>3, <1>4, <1>5 DEF ToolNext, ToolStep

-----------------------------------------------------------------------------
(* Quotients, rounding and means.                                            *)

\* A quotient is the number of whole times, and nothing but that is.
LEMMA DivType ==
  ASSUME NEW a \in Nat, NEW b \in Nat, b > 0
  PROVE  a \div b \in Nat /\ (a \div b) * b <= a /\ a < (a \div b) * b + b
OBVIOUS

LEMMA TimesKeepsOrder ==
  ASSUME NEW a \in Nat, NEW b \in Nat, NEW c \in Nat
  PROVE  /\ a <= b => a * c <= b * c
         /\ c > 0 /\ a < b => a * c < b * c
         /\ c > 0 /\ a * c <= b * c => a <= b
         /\ c > 0 /\ a * c < b * c => a < b
<1>1. a <= b => a * c <= b * c OBVIOUS
<1>2. c > 0 /\ a < b => a * c < b * c OBVIOUS
<1>3. c > 0 /\ a * c <= b * c => a <= b OBVIOUS
<1>4. c > 0 /\ a * c < b * c => a < b OBVIOUS
<1>. QED BY <1>1, <1>2, <1>3, <1>4

LEMMA DivIs ==
  ASSUME NEW a \in Nat, NEW b \in Nat, b > 0, NEW q \in Nat, q * b <= a, a < q * b + b
  PROVE  a \div b = q
<1>1. PICK p \in Nat : p = a \div b BY DivType
<1>2. p * b <= a /\ a < p * b + b BY <1>1, DivType
<1>3. q * b < (p + 1) * b /\ p * b < (q + 1) * b BY <1>2
<1>4. q < p + 1 /\ p < q + 1 BY <1>3, TimesKeepsOrder
<1>. QED BY <1>1, <1>4

\* Equal fractions have equal quotients.
LEMMA SameQuotient ==
  ASSUME NEW a \in Nat, NEW b \in Nat, b > 0, NEW c \in Nat, NEW d \in Nat, d > 0, a * d = c * b
  PROVE  a \div b = c \div d
<1>1. PICK q \in Nat : q = a \div b BY DivType
<1>2. q * b <= a /\ a < q * b + b BY <1>1, DivType
<1>3. (q * b) * d <= a * d /\ a * d < (q * b + b) * d BY <1>2, TimesKeepsOrder
<1>4. (q * b) * d = (q * d) * b /\ (q * b + b) * d = (q * d + d) * b OBVIOUS
<1>5. (q * d) * b <= c * b /\ c * b < (q * d + d) * b BY <1>3, <1>4
<1>6. q * d <= c /\ c < q * d + d
  <2>1. q * d \in Nat /\ q * d + d \in Nat OBVIOUS
  <2>. QED BY <1>5, <2>1, TimesKeepsOrder
<1>7. c \div d = q BY <1>6, DivIs
<1>. QED BY <1>1, <1>7

\* Rounding keeps bounds that are whole, and whole numbers as they are.
LEMMA RoundedFacts ==
  ASSUME NEW n \in Nat, NEW d \in Nat, d > 0
  PROVE  /\ Rounded(n, d) \in Nat
         /\ \A q \in Nat : q * d <= n => q <= Rounded(n, d)
         /\ \A q \in Nat : 2 * n + d < q * (2 * d) => Rounded(n, d) < q
         /\ \A q \in Nat : n = q * d => Rounded(n, d) = q
<1>1. PICK a, b : a = 2 * n + d /\ b = 2 * d OBVIOUS
<1>2. a \in Nat /\ b \in Nat /\ b > 0 BY <1>1
<1>3. PICK r : r = a \div b OBVIOUS
<1>4. r \in Nat /\ r * b <= a /\ a < r * b + b BY <1>2, <1>3, DivType
<1>5. Rounded(n, d) = r BY <1>1, <1>3 DEF Rounded
<1>6. ASSUME NEW q \in Nat, q * d <= n PROVE q <= r
  <2>1. q * b <= a BY <1>1, <1>6
  <2>2. q * b < (r + 1) * b BY <1>2, <1>4, <2>1
  <2>3. q < r + 1 BY <1>2, <1>4, <2>2, TimesKeepsOrder
  <2>. QED BY <1>4, <2>3
<1>7. ASSUME NEW q \in Nat, 2 * n + d < q * (2 * d) PROVE r < q
  <2>1. r * b < q * b BY <1>1, <1>2, <1>4, <1>7
  <2>. QED BY <1>2, <1>4, <2>1, TimesKeepsOrder
<1>8. ASSUME NEW q \in Nat, n = q * d PROVE r = q
  <2>1. q * b <= a /\ a < q * b + b BY <1>1, <1>8
  <2>. QED BY <1>2, <1>3, <2>1, DivIs
<1>. QED BY <1>4, <1>5, <1>6, <1>7, <1>8

\* Equal shares are rounded to the same rate.
LEMMA SameRate ==
  ASSUME NEW n \in Nat, NEW d \in Nat, d > 0, NEW m \in Nat, NEW e \in Nat, e > 0, n * e = m * d
  PROVE  Rounded(10000 * n, d) = Rounded(10000 * m, e)
<1>1. PICK a, b : a = 2 * (10000 * n) + d /\ b = 2 * d OBVIOUS
<1>2. PICK c, f : c = 2 * (10000 * m) + e /\ f = 2 * e OBVIOUS
<1>3. a \in Nat /\ b \in Nat /\ b > 0 /\ c \in Nat /\ f \in Nat /\ f > 0 BY <1>1, <1>2
<1>4. a * f = c * b
  <2>1. a * f = 40000 * (n * e) + 2 * (d * e) BY <1>1, <1>2
  <2>2. c * b = 40000 * (m * d) + 2 * (d * e) BY <1>1, <1>2
  <2>. QED BY <2>1, <2>2
<1>5. a \div b = c \div f BY <1>3, <1>4, SameQuotient
<1>. QED BY <1>1, <1>2, <1>5 DEF Rounded

\* A sum of values that have a bound.
LEMMA TotalBounds ==
  ASSUME NEW values \in Seq(Nat), NEW c \in Nat
  PROVE  /\ Total(values) \in Nat /\ Len(values) \in Nat
         /\ (\A n \in 1..Len(values) : values[n] = c) => Total(values) = Len(values) * c
         /\ (\A n \in 1..Len(values) : values[n] >= c) => Total(values) >= Len(values) * c
         /\ \A n \in 1..Len(values) : Total(values) >= values[n]
<1>. DEFINE L == Len(values)
<1>1. L \in Nat /\ \A n \in 1..L : values[n] \in Nat OBVIOUS
<1>2. PICK sum \in [0..L -> Nat] : Sums(values, sum) /\ Total(values) = sum[L] BY TotalSums
<1>3. sum[0] = 0 /\ \A n \in 1..L : sum[n] = sum[n - 1] + values[n] BY <1>2 DEF Sums
<1>. HIDE DEF L
<1>4. \A n \in 0..L : sum[n] \in Nat BY <1>2
<1>5. L \in 0..L /\ 0 \in 0..L BY <1>1
<1>6. ASSUME \A n \in 1..L : values[n] = c PROVE sum[L] = L * c
  <2>. DEFINE S == {n \in 0..L : sum[n] = n * c}
  <2>1. 0 \in S BY <1>3, <1>5
  <2>2. ASSUME NEW n \in 1..L, n - 1 \in S PROVE n \in S
    <3>1. sum[n - 1] = (n - 1) * c /\ n \in 0..L /\ sum[n] = sum[n - 1] + c BY <1>3, <1>6, <2>2
    <3>2. (n - 1) * c + c = n * c OBVIOUS
    <3>. QED BY <3>1, <3>2
  <2>. HIDE DEF S
  <2>3. L \in S BY <1>1, <1>5, <2>1, <2>2, Upwards
  <2>. QED BY <2>3 DEF S
<1>7. ASSUME \A n \in 1..L : values[n] >= c PROVE sum[L] >= L * c
  <2>. DEFINE S == {n \in 0..L : sum[n] >= n * c}
  <2>1. 0 \in S BY <1>3, <1>5
  <2>2. ASSUME NEW n \in 1..L, n - 1 \in S PROVE n \in S
    <3>1. sum[n - 1] >= (n - 1) * c /\ n \in 0..L /\ values[n] >= c BY <1>7, <2>2
    <3>2. (n - 1) * c + c = n * c /\ (n - 1) * c \in Nat /\ n * c \in Nat OBVIOUS
    <3>3. n - 1 \in 0..L BY <1>1
    <3>4. sum[n - 1] \in Nat /\ values[n] \in Nat BY <1>1, <1>4, <3>3
    <3>5. sum[n] = sum[n - 1] + values[n] BY <1>3
    <3>. QED BY <3>1, <3>2, <3>4, <3>5
  <2>. HIDE DEF S
  <2>3. L \in S BY <1>1, <1>5, <2>1, <2>2, Upwards
  <2>. QED BY <2>3 DEF S
<1>8. ASSUME NEW k \in 1..L PROVE sum[L] >= values[k]
  <2>. DEFINE S == {n \in 0..L : n >= k => sum[n] >= values[k]}
  <2>1. 0 \in S BY <1>1, <1>5
  <2>2. ASSUME NEW n \in 1..L, n - 1 \in S PROVE n \in S
    <3>1. n - 1 \in 0..L /\ n \in 0..L /\ k \in Nat BY <1>1
    <3>2. sum[n - 1] \in Nat /\ values[n] \in Nat /\ values[k] \in Nat BY <1>1, <1>4, <3>1
    <3>3. sum[n] = sum[n - 1] + values[n] BY <1>3
    <3>4. CASE n = k BY <3>1, <3>2, <3>3, <3>4
    <3>5. CASE n # k
      <4>1. n >= k => n - 1 >= k BY <3>1, <3>5
      <4>2. n - 1 >= k => sum[n - 1] >= values[k] BY <2>2
      <4>. QED BY <3>1, <3>2, <3>3, <4>1, <4>2
    <3>. QED BY <3>4, <3>5
  <2>. HIDE DEF S
  <2>3. L \in S BY <1>1, <1>5, <2>1, <2>2, Upwards
  <2>4. L >= k BY <1>1
  <2>. QED BY <2>3, <2>4 DEF S
<1>9. sum[L] \in Nat BY <1>4, <1>5
<1>. QED BY <1>1, <1>2, <1>6, <1>7, <1>8, <1>9 DEF L

\* What is as much as a multiple of each value is, that often, as much as of the sum.
LEMMA TotalWeighs ==
  ASSUME NEW values \in Seq(Nat), NEW w \in Nat, NEW t \in Nat,
         \A n \in 1..Len(values) : w * values[n] <= t
  PROVE  w * Total(values) <= Len(values) * t
<1>. DEFINE L == Len(values)
<1>1. L \in Nat /\ \A n \in 1..L : values[n] \in Nat OBVIOUS
<1>2. PICK sum \in [0..L -> Nat] : Sums(values, sum) /\ Total(values) = sum[L] BY TotalSums
<1>3. sum[0] = 0 /\ \A n \in 1..L : sum[n] = sum[n - 1] + values[n] BY <1>2 DEF Sums
<1>4. \A n \in 1..L : w * values[n] <= t OBVIOUS
<1>. HIDE DEF L
<1>5. L \in 0..L /\ 0 \in 0..L BY <1>1
<1>. DEFINE S == {n \in 0..L : w * sum[n] <= n * t}
<1>6. 0 \in S BY <1>3, <1>5
<1>7. ASSUME NEW n \in 1..L, n - 1 \in S PROVE n \in S
  <2>1. n - 1 \in 0..L /\ n \in 0..L BY <1>1
  <2>2. PICK old \in Nat, v \in Nat : old = sum[n - 1] /\ v = values[n] BY <1>1, <2>1
  <2>3. w * old <= (n - 1) * t /\ w * v <= t /\ sum[n] = old + v BY <1>3, <1>4, <1>7, <2>2
  <2>4. w * (old + v) = w * old + w * v /\ (n - 1) * t + t = n * t OBVIOUS
  <2>5. w * old \in Nat /\ w * v \in Nat /\ (n - 1) * t \in Nat OBVIOUS
  <2>6. w * (old + v) <= n * t BY <2>3, <2>4, <2>5
  <2>. QED BY <2>1, <2>3, <2>6
<1>. HIDE DEF S
<1>8. L \in S BY <1>1, <1>5, <1>6, <1>7, Upwards
<1>. QED BY <1>2, <1>8 DEF S, L

\* A series.
IsSeries(s) ==
  IsFiniteSet(DOMAIN s) /\ DOMAIN s \subseteq Nat /\ \A b \in DOMAIN s : s[b] \in Nat

\* Its values in order: the k-th is of the bucket with k - 1 earlier ones.
LEMMA ValuesFacts ==
  ASSUME NEW s, IsSeries(s)
  PROVE  /\ Values(s) \in Seq(Nat) /\ Len(Values(s)) = Cardinality(DOMAIN s)
         /\ Cardinality(DOMAIN s) \in Nat
         /\ \A k \in 1..Cardinality(DOMAIN s) :
              \E b \in DOMAIN s : Values(s)[k] = s[b] /\ Rank(DOMAIN s, b) = k - 1
         /\ \A b \in DOMAIN s : \E k \in 1..Cardinality(DOMAIN s) : Values(s)[k] = s[b]
<1>1. PICK B : B = DOMAIN s OBVIOUS
<1>2. IsFiniteSet(B) /\ B \in SUBSET Nat /\ \A b \in B : s[b] \in Nat BY <1>1 DEF IsSeries
<1>3. PICK N : N = Cardinality(B) OBVIOUS
<1>4. PICK at : at = Ascending(B) OBVIOUS
<1>5. /\ N \in Nat /\ at \in [1..N -> B]
      /\ \A k \in 1..N : Rank(B, at[k]) = k - 1
      /\ \A b \in B : Rank(B, b) + 1 \in 1..N /\ at[Rank(B, b) + 1] = b
  BY <1>2, <1>3, <1>4, AscendingRanks
<1>6. Values(s) = [k \in 1..N |-> s[at[k]]] BY <1>1, <1>4, <1>5 DEF Values
<1>7. \A k \in 1..N : at[k] \in B /\ s[at[k]] \in Nat BY <1>2, <1>5
<1>8. Values(s) \in [1..N -> Nat] BY <1>6, <1>7
<1>9. Values(s) \in Seq(Nat) /\ Len(Values(s)) = N BY <1>5, <1>8
<1>10. \A k \in 1..N : \E b \in B : Values(s)[k] = s[b] /\ Rank(B, b) = k - 1 BY <1>5, <1>6, <1>7
<1>11. ASSUME NEW b \in B PROVE \E k \in 1..N : Values(s)[k] = s[b]
  <2>1. PICK k \in 1..N : at[k] = b BY <1>5
  <2>. QED BY <1>6, <2>1
<1>. QED BY <1>1, <1>3, <1>5, <1>9, <1>10, <1>11

\* The halves of a window: the second is empty only where there are not two values.
LEMMA HalvesFacts ==
  ASSUME NEW v \in Seq(Nat)
  PROVE  /\ Len(v) \in Nat /\ Half(v) \in 0..Len(v)
         /\ Len(v) >= 2 => Half(v) = Len(v) \div 2 /\ Half(v) \in 1..(Len(v) - 1)
         /\ Len(v) < 2 => After(v) = <<>>
         /\ Before(v) \in Seq(Nat) /\ Len(Before(v)) = Half(v)
         /\ After(v) \in Seq(Nat) /\ Len(After(v)) = Len(v) - Half(v)
         /\ \A k \in 1..Half(v) : k \in 1..Len(v) /\ Before(v)[k] = v[k]
         /\ \A k \in 1..(Len(v) - Half(v)) :
              Half(v) + k \in 1..Len(v) /\ After(v)[k] = v[Half(v) + k]
<1>1. PICK L : L = Len(v) OBVIOUS
<1>2. L \in Nat BY <1>1
<1>3. PICK h : h = Half(v) OBVIOUS
<1>4. L >= 2 => h = L \div 2 /\ h \in 1..(L - 1)
  <2>1. L >= 2 => h = L \div 2 BY <1>1, <1>3 DEF Half
  <2>2. L >= 2 => L \div 2 \in 1..(L - 1) BY <1>2
  <2>. QED BY <2>1, <2>2
<1>5. L < 2 => h = L BY <1>1, <1>2, <1>3 DEF Half
<1>6. h \in 0..L /\ h \in Nat BY <1>2, <1>4, <1>5
<1>7. \A k \in 1..L : v[k] \in Nat BY <1>1
<1>8. Before(v) = [k \in 1..h |-> v[k]] /\ Len(Before(v)) = h
  BY <1>1, <1>2, <1>3, <1>6 DEF Before
<1>9. After(v) = [k \in 1..(L - h) |-> v[h + k]] /\ Len(After(v)) = L - h
  <2>1. After(v) = SubSeq(v, h + 1, L) BY <1>1, <1>3 DEF After
  <2>2. SubSeq(v, h + 1, L) = [k \in 1..(1 + L - (h + 1)) |-> v[k + (h + 1) - 1]]
    BY <1>2, <1>6
  <2>3. 1 + L - (h + 1) = L - h /\ L - h \in Nat BY <1>2, <1>6
  <2>4. \A k \in 1..(L - h) : k + (h + 1) - 1 = h + k BY <1>2, <1>6
  <2>5. After(v) = [k \in 1..(L - h) |-> v[h + k]] BY <2>1, <2>2, <2>3, <2>4
  <2>. QED BY <2>3, <2>5
<1>10. \A k \in 1..h : k \in 1..L BY <1>2, <1>6
<1>11. \A k \in 1..(L - h) : h + k \in 1..L BY <1>2, <1>6
<1>12. L - h \in Nat BY <1>2, <1>6
<1>13. Before(v) \in [1..h -> Nat] BY <1>7, <1>8, <1>10
<1>14. After(v) \in [1..(L - h) -> Nat] BY <1>7, <1>9, <1>11
<1>15. Before(v) \in Seq(Nat) /\ After(v) \in Seq(Nat)
  <2>1. \A m \in Nat : \A f \in [1..m -> Nat] : f \in Seq(Nat) OBVIOUS
  <2>. QED BY <1>6, <1>12, <1>13, <1>14, <2>1
<1>16. L < 2 => After(v) = <<>> BY <1>2, <1>5, <1>9, <1>15
<1>. QED BY <1>1, <1>2, <1>3, <1>4, <1>6, <1>8, <1>9, <1>10, <1>11, <1>15, <1>16

\* Halves hold nothing that the whole does not.
LEMMA HalvesAreOf ==
  ASSUME NEW v \in Seq(Nat), NEW r, \A k \in 1..Len(v) : v[k] = r
  PROVE  /\ Before(v) \in Seq(Nat) /\ \A k \in 1..Len(Before(v)) : Before(v)[k] = r
         /\ After(v) \in Seq(Nat) /\ \A k \in 1..Len(After(v)) : After(v)[k] = r
<1>1. /\ Before(v) \in Seq(Nat) /\ Len(Before(v)) = Half(v)
      /\ After(v) \in Seq(Nat) /\ Len(After(v)) = Len(v) - Half(v)
  BY HalvesFacts
<1>2. /\ \A k \in 1..Half(v) : k \in 1..Len(v) /\ Before(v)[k] = v[k]
      /\ \A k \in 1..(Len(v) - Half(v)) :
           Half(v) + k \in 1..Len(v) /\ After(v)[k] = v[Half(v) + k]
  BY HalvesFacts
<1>3. \A k \in 1..Half(v) : Before(v)[k] = r BY <1>2
<1>4. \A k \in 1..(Len(v) - Half(v)) : After(v)[k] = r BY <1>2
<1>. QED BY <1>1, <1>3, <1>4

\* The mean of equal rates.
LEMMA MeanOfSame ==
  ASSUME NEW v \in Seq(Nat), NEW r \in Nat, \A n \in 1..Len(v) : v[n] = r
  PROVE  MeanRate(v) = IF v = <<>> THEN 0 ELSE r
<1>1. CASE v = <<>> BY <1>1 DEF MeanRate
<1>2. CASE v # <<>>
  <2>1. Len(v) \in Nat /\ Len(v) > 0 BY <1>2
  <2>2. Total(v) = Len(v) * r /\ Total(v) \in Nat BY TotalBounds
  <2>3. PICK t \in Nat, d \in Nat : t = Total(v) /\ d = Len(v) BY <2>1, <2>2
  <2>4. d > 0 /\ t = r * d BY <2>1, <2>2, <2>3
  <2>5. Rounded(t, d) = r BY <2>4, RoundedFacts
  <2>. QED BY <1>2, <2>3, <2>5 DEF MeanRate
<1>. QED BY <1>1, <1>2

\* The halves of equal rates: the second, when there is one, is not above the first.
LEMMA EvenRates ==
  ASSUME NEW v \in Seq(Nat), NEW r \in Nat, \A n \in 1..Len(v) : v[n] = r
  PROVE  /\ MeanRate(Before(v)) \in {0, r} /\ MeanRate(After(v)) \in {0, r}
         /\ MeanRate(After(v)) = r => MeanRate(Before(v)) = r \/ r = 0
<1>1. /\ Before(v) \in Seq(Nat) /\ \A k \in 1..Len(Before(v)) : Before(v)[k] = r
      /\ After(v) \in Seq(Nat) /\ \A k \in 1..Len(After(v)) : After(v)[k] = r
  BY HalvesAreOf
<1>2. PICK B, A : B = Before(v) /\ A = After(v) OBVIOUS
<1>3. B \in Seq(Nat) /\ \A k \in 1..Len(B) : B[k] = r BY <1>1, <1>2, Zenon
<1>4. A \in Seq(Nat) /\ \A k \in 1..Len(A) : A[k] = r BY <1>1, <1>2, Zenon
<1>5. MeanRate(B) = IF B = <<>> THEN 0 ELSE r BY <1>3, MeanOfSame
<1>6. MeanRate(A) = IF A = <<>> THEN 0 ELSE r BY <1>4, MeanOfSame
<1>7. B = <<>> => A = <<>>
  <2>1. Len(v) \in Nat /\ Len(B) = Half(v) /\ (Len(v) >= 2 => Half(v) \in 1..(Len(v) - 1))
    BY <1>2, HalvesFacts
  <2>2. B = <<>> => Half(v) = 0 BY <2>1
  <2>3. B = <<>> => Len(v) < 2 BY <2>1, <2>2
  <2>. QED BY <1>2, <2>3, HalvesFacts
<1>. QED BY <1>2, <1>5, <1>6, <1>7

\* The errors of a bucket.
ErrorsIn(errors, b) == IF b \in DOMAIN errors THEN errors[b] ELSE 0

\* The error rate is a series over the buckets that had traffic.
LEMMA RateFacts ==
  ASSUME NEW inv, IsSeries(inv), NEW err, IsSeries(err)
  PROVE  /\ IsSeries(ErrorRate(inv, err))
         /\ \A b : b \in DOMAIN ErrorRate(inv, err) <=> b \in DOMAIN inv /\ inv[b] > 0
         /\ \A b \in DOMAIN ErrorRate(inv, err) :
              /\ inv[b] \in Nat /\ ErrorsIn(err, b) \in Nat
              /\ ErrorRate(inv, err)[b] = Rounded(10000 * ErrorsIn(err, b), inv[b])
<1>. DEFINE rate == ErrorRate(inv, err)
<1>1. /\ \A b : b \in DOMAIN rate <=> b \in DOMAIN inv /\ inv[b] > 0
      /\ \A b \in DOMAIN rate : rate[b] = Rounded(10000 * ErrorsIn(err, b), inv[b])
  BY DEF ErrorRate, ErrorsIn
<1>. HIDE DEF rate
<1>2. \A b \in DOMAIN rate : inv[b] \in Nat /\ inv[b] > 0 /\ ErrorsIn(err, b) \in Nat
  BY <1>1 DEF IsSeries, ErrorsIn
<1>3. \A b \in DOMAIN rate : rate[b] \in Nat
  <2>1. SUFFICES ASSUME NEW b \in DOMAIN rate PROVE rate[b] \in Nat OBVIOUS
  <2>2. PICK n \in Nat, d \in Nat : n = 10000 * ErrorsIn(err, b) /\ d = inv[b] BY <1>2
  <2>3. d > 0 /\ rate[b] = Rounded(n, d) BY <1>1, <1>2, <2>2
  <2>. QED BY <2>3, RoundedFacts
<1>4. DOMAIN rate \subseteq DOMAIN inv BY <1>1
<1>5. IsFiniteSet(DOMAIN rate) /\ DOMAIN rate \subseteq Nat BY <1>4, FS_Subset DEF IsSeries
<1>6. IsSeries(rate) BY <1>3, <1>5 DEF IsSeries
<1>. QED BY <1>1, <1>2, <1>6 DEF rate

\* Where some request failed, the errors are compared with the traffic.
LEMMA ErrorsAreCompared ==
  ASSUME NEW s, IsSeries(s["Invocations"]), IsSeries(s["Errors"]),
         NEW b \in DOMAIN ErrorRate(s["Invocations"], s["Errors"]), ErrorsIn(s["Errors"], b) > 0,
         NEW rate, rate = Values(ErrorRate(s["Invocations"], s["Errors"]))
  PROVE  rate # <<>> /\ Correlate(s) = Judgement(MeanRate(Before(rate)), MeanRate(After(rate)))
<1>1. PICK inv, err : inv = s["Invocations"] /\ err = s["Errors"] OBVIOUS
<1>2. PICK er : er = ErrorRate(inv, err) OBVIOUS
<1>3. IsSeries(inv) /\ IsSeries(err) /\ b \in DOMAIN er /\ rate = Values(er) BY <1>1, <1>2
<1>4. IsSeries(er) /\ b \in DOMAIN inv BY <1>2, <1>3, RateFacts
<1>5. rate # <<>>
  <2>1. Values(er) \in Seq(Nat) /\ \E k \in 1..Len(Values(er)) : TRUE BY <1>3, <1>4, ValuesFacts
  <2>. QED BY <1>3, <2>1
<1>6. Total(Values(err)) # 0
  <2>1. b \in DOMAIN err /\ err[b] > 0 /\ err[b] \in Nat BY <1>1, <1>3 DEF ErrorsIn, IsSeries
  <2>2. /\ Values(err) \in Seq(Nat)
        /\ \E k \in 1..Len(Values(err)) : Values(err)[k] = err[b]
    BY <1>3, <2>1, ValuesFacts
  <2>3. PICK v \in Seq(Nat) : v = Values(err) BY <2>2
  <2>4. PICK k \in 1..Len(v) : v[k] = err[b] BY <2>2, <2>3
  <2>5. Total(v) \in Nat /\ Total(v) >= v[k] BY TotalBounds
  <2>. QED BY <2>1, <2>3, <2>4, <2>5
<1>7. DOMAIN inv # {} BY <1>4
<1>. QED BY <1>1, <1>2, <1>3, <1>5, <1>6, <1>7 DEF Correlate

\* The same share of requests failing throughout, below a half, is load.
LEMMA EvenErrorsAreLoad ==
  ASSUME NEW s, IsSeries(s["Invocations"]), IsSeries(s["Errors"]),
         NEW b \in DOMAIN ErrorRate(s["Invocations"], s["Errors"]), ErrorsIn(s["Errors"], b) > 0,
         10000 * ErrorsIn(s["Errors"], b) <= 4999 * s["Invocations"][b],
         \A c \in DOMAIN ErrorRate(s["Invocations"], s["Errors"]) :
           ErrorsIn(s["Errors"], c) * s["Invocations"][b] = ErrorsIn(s["Errors"], b) * s["Invocations"][c]
  PROVE  Correlate(s) = "errors_tracked_load"
<1>1. PICK inv, err : inv = s["Invocations"] /\ err = s["Errors"] OBVIOUS
<1>2. PICK er : er = ErrorRate(inv, err) OBVIOUS
<1>3. PICK rate : rate = Values(er) OBVIOUS
<1>4. Correlate(s) = Judgement(MeanRate(Before(rate)), MeanRate(After(rate)))
  BY <1>1, <1>2, <1>3, ErrorsAreCompared
<1>5. /\ IsSeries(er)
      /\ \A c \in DOMAIN er : /\ inv[c] \in Nat /\ inv[c] > 0 /\ ErrorsIn(err, c) \in Nat
                              /\ er[c] = Rounded(10000 * ErrorsIn(err, c), inv[c])
  BY <1>1, <1>2, RateFacts
<1>6. PICK n \in Nat, d \in Nat : n = ErrorsIn(err, b) /\ d = inv[b] BY <1>1, <1>2, <1>5
<1>7. d > 0 /\ 10000 * n <= 4999 * d BY <1>1, <1>2, <1>5, <1>6
<1>8. PICK r : r = Rounded(10000 * n, d) OBVIOUS
<1>9. r \in Nat /\ r < 5000
  <2>1. PICK m \in Nat : m = 10000 * n OBVIOUS
  <2>2. 2 * m + d < 5000 * (2 * d) BY <1>7, <2>1
  <2>. QED BY <1>7, <1>8, <2>1, <2>2, RoundedFacts
<1>10. \A c \in DOMAIN er : er[c] = r
  <2>1. SUFFICES ASSUME NEW c \in DOMAIN er PROVE er[c] = r OBVIOUS
  <2>2. PICK m \in Nat, e \in Nat : m = ErrorsIn(err, c) /\ e = inv[c] BY <1>5
  <2>3. e > 0 /\ m * d = n * e BY <1>1, <1>2, <1>5, <1>6, <2>2
  <2>4. n * e = m * d BY <2>3
  <2>5. Rounded(10000 * n, d) = Rounded(10000 * m, e) BY <1>7, <2>3, <2>4, SameRate
  <2>. QED BY <1>5, <1>8, <2>2, <2>5
<1>11. rate \in Seq(Nat) /\ \A k \in 1..Len(rate) : rate[k] = r
  <2>1. /\ rate \in Seq(Nat)
        /\ \A k \in 1..Len(rate) : \E c \in DOMAIN er : rate[k] = er[c]
    <3>1. /\ Values(er) \in Seq(Nat) /\ Len(Values(er)) = Cardinality(DOMAIN er)
          /\ \A k \in 1..Cardinality(DOMAIN er) : \E c \in DOMAIN er : Values(er)[k] = er[c]
      BY <1>5, ValuesFacts
    <3>. QED BY <1>3, <3>1
  <2>. QED BY <1>10, <2>1
<1>12. /\ MeanRate(Before(rate)) \in {0, r} /\ MeanRate(After(rate)) \in {0, r}
       /\ MeanRate(After(rate)) = r => MeanRate(Before(rate)) = r \/ r = 0
  BY <1>9, <1>11, EvenRates
<1>. QED BY <1>4, <1>9, <1>12 DEF Judgement

\* All requests of two buckets failing is not load.
LEMMA DeadIsNotLoad ==
  ASSUME NEW s, IsSeries(s["Invocations"]), IsSeries(s["Errors"]),
         Cardinality(DOMAIN ErrorRate(s["Invocations"], s["Errors"])) >= 2,
         \A c \in DOMAIN ErrorRate(s["Invocations"], s["Errors"]) :
           ErrorsIn(s["Errors"], c) = s["Invocations"][c]
  PROVE  Correlate(s) \in {"errors_outpaced_load", "errors_saturated"}
<1>1. PICK inv, err : inv = s["Invocations"] /\ err = s["Errors"] OBVIOUS
<1>2. PICK er : er = ErrorRate(inv, err) OBVIOUS
<1>3. PICK rate : rate = Values(er) OBVIOUS
<1>4. /\ IsSeries(er)
      /\ \A c \in DOMAIN er : /\ inv[c] \in Nat /\ inv[c] > 0 /\ ErrorsIn(err, c) = inv[c]
                              /\ er[c] = Rounded(10000 * inv[c], inv[c])
  BY <1>1, <1>2, RateFacts
<1>5. \A c \in DOMAIN er : er[c] = 10000
  <2>1. SUFFICES ASSUME NEW c \in DOMAIN er PROVE er[c] = 10000 OBVIOUS
  <2>2. PICK n \in Nat, d \in Nat : n = 10000 * inv[c] /\ d = inv[c] BY <1>4
  <2>3. d > 0 /\ n = 10000 * d BY <1>4, <2>2
  <2>4. Rounded(n, d) = 10000 BY <2>3, RoundedFacts
  <2>. QED BY <1>4, <2>2, <2>4
<1>6. rate \in Seq(Nat) /\ Len(rate) >= 2 /\ \A k \in 1..Len(rate) : rate[k] = 10000
  <2>1. /\ Values(er) \in Seq(Nat) /\ Len(Values(er)) = Cardinality(DOMAIN er)
        /\ \A k \in 1..Cardinality(DOMAIN er) : \E c \in DOMAIN er : Values(er)[k] = er[c]
    BY <1>4, ValuesFacts
  <2>2. Cardinality(DOMAIN er) >= 2 BY <1>1, <1>2
  <2>. QED BY <1>3, <1>5, <2>1, <2>2
<1>7. PICK b \in DOMAIN er : TRUE
  <2>1. Len(rate) \in Nat /\ 1 \in 1..Len(rate) BY <1>6
  <2>. QED BY <1>3, <1>4, <2>1, ValuesFacts
<1>8. Correlate(s) = Judgement(MeanRate(Before(rate)), MeanRate(After(rate)))
  <2>1. er[b] = 10000 /\ b \in DOMAIN er /\ inv[b] > 0 /\ ErrorsIn(err, b) = inv[b] BY <1>4, <1>5, <1>7
  <2>2. ErrorsIn(err, b) > 0 BY <2>1
  <2>. QED BY <1>1, <1>2, <1>3, <2>1, <2>2, ErrorsAreCompared
<1>9. After(rate) \in Seq(Nat) /\ After(rate) # <<>> /\ \A k \in 1..Len(After(rate)) : After(rate)[k] = 10000
  <2>1. /\ After(rate) \in Seq(Nat) /\ Len(After(rate)) = Len(rate) - Half(rate)
        /\ Half(rate) \in 1..(Len(rate) - 1) /\ Len(rate) \in Nat
    BY <1>6, HalvesFacts
  <2>2. Len(After(rate)) > 0 BY <2>1
  <2>3. PICK v : v = After(rate) OBVIOUS
  <2>4. \A k \in 1..Len(v) : v[k] = 10000 BY <1>6, <2>3, HalvesAreOf
  <2>. QED BY <2>1, <2>2, <2>3, <2>4
<1>10. MeanRate(After(rate)) = 10000 BY <1>9, MeanOfSame
<1>. QED BY <1>8, <1>10 DEF Judgement

\* Where each request of the later half took twice as long as any of the earlier one,
\* the mean duration rose.
LEMMA SlowIsNoticed ==
  ASSUME NEW d, IsSeries(d), Cardinality(DOMAIN d) >= 2,
         \A b, c \in DOMAIN d :
           Rank(DOMAIN d, b) >= Cardinality(DOMAIN d) \div 2 /\ Rank(DOMAIN d, c) < Cardinality(DOMAIN d) \div 2
             => d[b] >= 2 * d[c] /\ d[c] > 0
  PROVE  DurationRose(d)
<1>1. PICK v : v = Values(d) OBVIOUS
<1>2. PICK N \in Nat : N = Cardinality(DOMAIN d) BY ValuesFacts
<1>3. N >= 2 /\ v \in Seq(Nat) /\ Len(v) = N BY <1>1, <1>2, ValuesFacts
<1>4. \A k \in 1..N : \E b \in DOMAIN d : v[k] = d[b] /\ Rank(DOMAIN d, b) = k - 1
  BY <1>1, <1>2, ValuesFacts
<1>5. PICK h : h = Half(v) OBVIOUS
<1>6. h = N \div 2 /\ h \in 1..(N - 1) BY <1>3, <1>5, HalvesFacts
<1>7. \A b \in DOMAIN d : d[b] \in Nat BY DEF IsSeries
<1>8. ASSUME NEW j \in 1..N, NEW i \in 1..N, j > h, i <= h
      PROVE  v[j] >= 2 * v[i] /\ v[i] > 0
  <2>1. PICK b \in DOMAIN d : v[j] = d[b] /\ Rank(DOMAIN d, b) = j - 1 BY <1>4
  <2>2. PICK c \in DOMAIN d : v[i] = d[c] /\ Rank(DOMAIN d, c) = i - 1 BY <1>4
  <2>3. j - 1 >= h /\ i - 1 < h BY <1>2, <1>6, <1>8
  <2>. QED BY <1>2, <1>6, <2>1, <2>2, <2>3
<1>9. PICK B \in Seq(Nat), A \in Seq(Nat) : B = Before(v) /\ A = After(v) BY <1>3, HalvesFacts
<1>10. PICK x \in Nat, y \in Nat : x = Len(B) /\ y = Len(A) OBVIOUS
<1>11. /\ x = h /\ y = N - h /\ x > 0 /\ y > 0
       /\ \A i \in 1..x : i \in 1..N /\ i <= h /\ B[i] = v[i]
       /\ \A j \in 1..y : h + j \in 1..N /\ h + j > h /\ A[j] = v[h + j]
  <2>1. x = h /\ y = N - h /\ x > 0 /\ y > 0
    <3>1. Len(Before(v)) = Half(v) /\ Len(After(v)) = Len(v) - Half(v) BY <1>3, HalvesFacts
    <3>2. x = h /\ y = N - h BY <1>3, <1>5, <1>9, <1>10, <3>1
    <3>3. h \in 1..(N - 1) BY <1>6
    <3>. QED BY <1>2, <3>2, <3>3
  <2>2. /\ \A i \in 1..Half(v) : i \in 1..Len(v) /\ Before(v)[i] = v[i]
        /\ \A j \in 1..(Len(v) - Half(v)) :
             Half(v) + j \in 1..Len(v) /\ After(v)[j] = v[Half(v) + j]
    BY <1>3, HalvesFacts
  <2>3. \A i \in 1..x : i \in 1..N /\ B[i] = v[i] BY <1>3, <1>5, <1>9, <2>1, <2>2
  <2>4. \A j \in 1..y : h + j \in 1..N /\ A[j] = v[h + j] BY <1>3, <1>5, <1>9, <2>1, <2>2
  <2>5. (\A i \in 1..x : i <= h) /\ \A j \in 1..y : h + j > h
    <3>1. h \in 1..(N - 1) BY <1>6
    <3>. QED BY <1>2, <2>1, <3>1
  <2>. QED BY <2>1, <2>3, <2>4, <2>5
<1>12. \A i \in 1..x, j \in 1..y : A[j] >= 2 * B[i] /\ B[i] > 0
  <2>1. SUFFICES ASSUME NEW i \in 1..x, NEW j \in 1..y PROVE A[j] >= 2 * B[i] /\ B[i] > 0
    OBVIOUS
  <2>. QED BY <1>8, <1>11
<1>13. PICK S \in Nat, T \in Nat : S = Total(B) /\ T = Total(A) BY TotalBounds
<1>14. \A i \in 1..x : y * (2 * B[i]) <= T
  <2>1. SUFFICES ASSUME NEW i \in 1..x PROVE y * (2 * B[i]) <= T OBVIOUS
  <2>2. B[i] \in Nat BY <1>10
  <2>3. PICK c \in Nat : c = 2 * B[i] BY <2>2
  <2>4. \A j \in 1..Len(A) : A[j] >= c BY <1>10, <1>12, <2>3
  <2>5. Total(A) >= Len(A) * c BY <2>4, TotalBounds
  <2>6. T >= y * c BY <1>10, <1>13, <2>5
  <2>7. y * c \in Nat OBVIOUS
  <2>. QED BY <2>3, <2>6, <2>7
<1>15. (2 * y) * S <= x * T
  <2>1. PICK w \in Nat : w = 2 * y OBVIOUS
  <2>2. \A i \in 1..Len(B) : w * B[i] <= T
    <3>1. SUFFICES ASSUME NEW i \in 1..Len(B) PROVE w * B[i] <= T OBVIOUS
    <3>2. B[i] \in Nat /\ y * (2 * B[i]) <= T BY <1>10, <1>14
    <3>3. w * B[i] = y * (2 * B[i]) BY <2>1, <3>2
    <3>. QED BY <3>2, <3>3
  <2>3. w * Total(B) <= Len(B) * T BY <2>2, TotalWeighs
  <2>. QED BY <1>10, <1>13, <2>1, <2>3
<1>16. S > 0
  <2>1. 1 \in 1..Len(B) /\ 1 \in 1..x /\ 1 \in 1..y BY <1>10, <1>11
  <2>2. B[1] > 0 /\ B[1] \in Nat BY <1>10, <1>12, <2>1
  <2>3. Total(B) >= B[1] BY <2>1, TotalBounds
  <2>. QED BY <1>13, <2>2, <2>3
<1>17. PICK p \in Nat, q \in Nat : p = S * y /\ q = T * x OBVIOUS
<1>18. p > 0 /\ q >= 2 * p
  <2>1. p > 0 BY <1>11, <1>16, <1>17
  <2>2. (2 * y) * S = 2 * p /\ x * T = q BY <1>17
  <2>. QED BY <1>15, <2>1, <2>2
<1>19. Rounded(1000 * (q - p), p) > 500
  <2>1. PICK n \in Nat : n = 1000 * (q - p) BY <1>18
  <2>2. 1000 * p <= n BY <1>18, <2>1
  <2>3. Rounded(n, p) \in Nat /\ 1000 <= Rounded(n, p) BY <1>18, <2>2, RoundedFacts
  <2>. QED BY <2>1, <2>3
<1>20. q > p BY <1>18
<1>. QED BY <1>1, <1>9, <1>10, <1>13, <1>17, <1>18, <1>19, <1>20 DEF DurationRose

-----------------------------------------------------------------------------
(* The verdict of get_metrics.                                               *)

\* The metrics that are fetched of a function, in their order.
Fetched == {{}, {"Invocations"}, {"Invocations", "Errors"}, {"Invocations", "Errors", "Duration"}}

\* What a call for metrics has fetched, and what its verdict rests on.
MetricsInv ==
  /\ call.tool = "get_metrics" => activity \in Activity
  /\ pc = "dispatch" => series = <<>>
  /\ pc = "fetch" =>
       call.tool = "get_metrics" /\ (Wanted = LAMBDA_METRICS => DOMAIN series \in Fetched)
  /\ pc = "done" /\ payload.tool = "get_metrics" /\ payload.verdict # "none" =>
       /\ call.tool = "get_metrics" /\ payload.verdict = Correlate(series)
       /\ DOMAIN series = {"Invocations", "Errors", "Duration"}

LEMMA FetchedSizes ==
  /\ Cardinality({}) = 0 /\ Cardinality({"Invocations"}) = 1
  /\ Cardinality({"Invocations", "Errors"}) = 2
  /\ Cardinality({"Invocations", "Errors", "Duration"}) = 3
<1>1. IsFiniteSet({}) /\ Cardinality({}) = 0 BY FS_EmptySet
<1>2. PICK a, b, c : a = {"Invocations"} /\ b = {"Invocations", "Errors"}
                     /\ c = {"Invocations", "Errors", "Duration"}
  OBVIOUS
<1>3. a = {} \cup {"Invocations"} /\ b = a \cup {"Errors"} /\ c = b \cup {"Duration"} BY <1>2
<1>4. "Errors" \notin a /\ "Duration" \notin b BY <1>2
<1>5. IsFiniteSet(a) /\ Cardinality(a) = 1 BY <1>1, <1>3, FS_AddElement
<1>6. IsFiniteSet(b) /\ Cardinality(b) = 2 BY <1>3, <1>4, <1>5, FS_AddElement
<1>7. Cardinality(c) = 3 BY <1>3, <1>4, <1>6, FS_AddElement
<1>. QED BY <1>1, <1>2, <1>5, <1>6, <1>7

\* A fetch adds the next metric, and the verdict is of the metrics fetched.
LEMMA MetricsKeep == ASSUME MetricsInv, MetricsStep PROVE MetricsInv'
<1>1. ASSUME NEW answered \in BOOLEAN, Fetch(answered) PROVE MetricsInv'
  <2>1. PICK metric : metric = Wanted[Cardinality(DOMAIN series) + 1] OBVIOUS
  <2>2. /\ pc = "fetch" /\ UNCHANGED <<call, pc, activity>> /\ Wanted' = Wanted
        /\ Cardinality(DOMAIN series) < Len(Wanted)
        /\ DOMAIN series' = DOMAIN series \cup {metric}
    BY <1>1, <2>1 DEF Fetch, Wanted
  <2>3. ASSUME Wanted = LAMBDA_METRICS PROVE DOMAIN series' \in Fetched
    <3>1. DOMAIN series \in Fetched BY <2>2, <2>3 DEF MetricsInv
    <3>2. Len(Wanted) = 3 /\ Wanted[1] = "Invocations" /\ Wanted[2] = "Errors" /\ Wanted[3] = "Duration"
      BY <2>3 DEF LAMBDA_METRICS
    <3>3. CASE DOMAIN series = {} BY <2>1, <2>2, <3>2, <3>3, FetchedSizes DEF Fetched
    <3>4. CASE DOMAIN series = {"Invocations"} BY <2>1, <2>2, <3>2, <3>4, FetchedSizes DEF Fetched
    <3>5. CASE DOMAIN series = {"Invocations", "Errors"}
      BY <2>1, <2>2, <3>2, <3>5, FetchedSizes DEF Fetched
    <3>6. CASE DOMAIN series = {"Invocations", "Errors", "Duration"}
      BY <2>2, <3>2, <3>6, FetchedSizes
    <3>. QED BY <3>1, <3>3, <3>4, <3>5, <3>6 DEF Fetched
  <2>. QED BY <2>2, <2>3 DEF MetricsInv
<1>2. CASE MetricsReturn
  <2>1. /\ pc = "fetch" /\ UNCHANGED <<call, activity, series>> /\ pc' = "done"
        /\ Cardinality(DOMAIN series) = Len(Wanted)
        /\ payload'.verdict = IF Wanted = LAMBDA_METRICS THEN Correlate(series) ELSE "none"
    BY <1>2 DEF MetricsReturn, Return, metricVars
  <2>2. ASSUME payload'.verdict # "none"
        PROVE  /\ payload'.verdict = Correlate(series)
               /\ DOMAIN series = {"Invocations", "Errors", "Duration"}
    <3>1. Wanted = LAMBDA_METRICS /\ payload'.verdict = Correlate(series) BY <2>1, <2>2
    <3>2. DOMAIN series \in Fetched /\ Cardinality(DOMAIN series) = 3
      BY <2>1, <3>1 DEF MetricsInv, LAMBDA_METRICS
    <3>. QED BY <3>1, <3>2, FetchedSizes DEF Fetched
  <2>3. Correlate(series)' = Correlate(series) BY <2>1
  <2>. QED BY <2>1, <2>2, <2>3 DEF MetricsInv
<1>. QED BY <1>1, <1>2 DEF MetricsStep

\* What another tool has to show of a step.
LEMMA OthersKeepMetrics ==
  ASSUME MetricsInv, UNCHANGED <<call, metricVars>>,
         pc' = "dispatch" => pc = "dispatch",
         pc' = "fetch" => pc = "fetch" \/ (pc = "dispatch" /\ call.tool = "get_metrics"),
         pc' = "done" => payload'.tool # "get_metrics" \/ UNCHANGED callVars
  PROVE  MetricsInv'
<1>1. UNCHANGED <<call, activity, series>> /\ Wanted' = Wanted BY DEF metricVars, Wanted
<1>2. Correlate(series)' = Correlate(series) BY <1>1
<1>3. DOMAIN <<>> = {} OBVIOUS
<1>4. pc' = "fetch" =>
        call'.tool = "get_metrics" /\ (Wanted' = LAMBDA_METRICS => DOMAIN series' \in Fetched)
  BY <1>1, <1>3 DEF MetricsInv, Fetched
<1>5. pc' = "done" /\ payload'.tool = "get_metrics" /\ payload'.verdict # "none" =>
        /\ call'.tool = "get_metrics" /\ payload'.verdict = Correlate(series)'
        /\ DOMAIN series' = {"Invocations", "Errors", "Duration"}
  BY <1>1, <1>2 DEF MetricsInv, callVars
<1>. QED BY <1>1, <1>4, <1>5 DEF MetricsInv

LEMMA SearchIsNoMetrics ==
  ASSUME SearchStep
  PROVE  /\ UNCHANGED call /\ pc' \notin {"dispatch", "fetch"}
         /\ pc' = "done" => payload'.tool # "get_metrics"
<1>1. CASE StartQuery \/ LookAgain \/ TakeCensus BY <1>1 DEF StartQuery, LookAgain, TakeCensus
<1>2. ASSUME NEW census, Report(census) PROVE pc' = "done" /\ payload'.tool # "get_metrics"
  BY <1>2 DEF Report, Return
<1>3. CASE QueryFails
  <2>1. CASE query = "census" BY <1>2, <1>3, <2>1 DEF QueryFails
  <2>2. CASE query # "census" BY <1>3, <2>2 DEF QueryFails, Return, Failure
  <2>. QED BY <2>1, <2>2
<1>4. ASSUME NEW st, Poll(st) PROVE UNCHANGED call /\ pc' \in {"poll", "queried"} BY <1>4 DEF Poll
<1>5. ASSUME NEW st, NEW scanned, PollCensus(st, scanned)
      PROVE  /\ UNCHANGED call /\ pc' \in {"poll", "done"}
             /\ pc' = "done" => payload'.tool # "get_metrics"
  <2>1. CASE st \in TERMINAL_STATUSES BY <1>2, <1>5, <2>1 DEF PollCensus
  <2>2. CASE st \notin TERMINAL_STATUSES BY <1>5, <2>2 DEF PollCensus
  <2>. QED BY <2>1, <2>2
<1>6. CASE PollExpires BY <1>6 DEF PollExpires
<1>7. CASE CensusExpires \/ SearchReturns BY <1>2, <1>7 DEF CensusExpires, SearchReturns
<1>. QED BY <1>1, <1>3, <1>4, <1>5, <1>6, <1>7 DEF SearchStep

LEMMA ChangesAreNoMetrics ==
  ASSUME ChangesStep
  PROVE  /\ UNCHANGED call /\ pc' \notin {"dispatch", "fetch"}
         /\ pc' = "done" => payload'.tool # "get_metrics"
<1>1. ASSUME NEW answered \in BOOLEAN, LookUp(answered) \/ Detail(answered)
      PROVE  UNCHANGED call /\ pc' \in {"lookup", "detail"}
  BY <1>1 DEF LookUp, Detail
<1>2. CASE LookedUp \/ ListNothing \/ ListCommits \/ DetailSkipped
  <2>1. CASE LookedUp
    <3>1. pc' \in {"merge", "list"} /\ UNCHANGED call BY <2>1 DEF LookedUp
    <3>. QED BY <3>1
  <2>2. CASE ListNothing BY <2>2 DEF ListNothing
  <2>3. CASE ListCommits BY <2>3 DEF ListCommits
  <2>4. CASE DetailSkipped BY <2>4 DEF DetailSkipped
  <2>. QED BY <1>2, <2>1, <2>2, <2>3, <2>4
<1>3. CASE ChangesReturn BY <1>3 DEF ChangesReturn, Return
<1>. QED BY <1>1, <1>2, <1>3 DEF ChangesStep

LEMMA MetricsHold == ASSUME MetricsInv, [ToolNext]_toolVars PROVE MetricsInv'
<1>1. CASE MetricsStep BY <1>1, MetricsKeep
<1>2. CASE SearchStep /\ UNCHANGED metricVars
  BY <1>2, SearchIsNoMetrics, OthersKeepMetrics
<1>3. CASE ChangesStep /\ UNCHANGED metricVars
  BY <1>3, ChangesAreNoMetrics, OthersKeepMetrics
<1>4. CASE (RunbookSearch \/ Refuse) /\ UNCHANGED metricVars
  BY <1>4, OthersKeepMetrics DEF RunbookSearch, Refuse, Return, Failure
<1>5. ASSUME NEW name, NEW first, Dispatch(name, first), UNCHANGED metricVars,
             first \notin {"dispatch", "done"}, first = "fetch" => name = "get_metrics"
      PROVE  MetricsInv'
  BY <1>5, OthersKeepMetrics DEF Dispatch
<1>6. ASSUME UNCHANGED <<callVars, metricVars>> PROVE MetricsInv'
  <2>1. UNCHANGED callVars /\ UNCHANGED metricVars BY <1>6
  <2>2. call' = call /\ pc' = pc BY <2>1 DEF callVars
  <2>3. UNCHANGED <<call, metricVars>> BY <2>1, <2>2
  <2>4. pc' = "done" => payload'.tool # "get_metrics" \/ UNCHANGED callVars BY <2>1
  <2>5. pc' = "dispatch" => pc = "dispatch" BY <2>2
  <2>6. pc' = "fetch" => pc = "fetch" \/ (pc = "dispatch" /\ call.tool = "get_metrics") BY <2>2
  <2>. QED BY <2>3, <2>4, <2>5, <2>6, OthersKeepMetrics
<1>7. CASE Ingestion /\ UNCHANGED metricVars BY <1>6, <1>7 DEF Ingestion
<1>8. CASE UNCHANGED toolVars BY <1>6, <1>8 DEF toolVars
<1>. QED BY <1>1, <1>2, <1>3, <1>4, <1>5, <1>7, <1>8 DEF ToolNext, ToolStep

\* Complete measurements are what CloudWatch holds.
LEMMA MeasuredIsHeld ==
  ASSUME MetricsInv, Measured
  PROVE  /\ payload.verdict = Correlate(series)
         /\ series["Invocations"] = activity["Invocations"]
         /\ series["Errors"] = activity["Errors"] /\ series["Duration"] = activity["Duration"]
         /\ IsSeries(series["Invocations"]) /\ IsSeries(series["Errors"])
         /\ IsSeries(series["Duration"])
<1>1. /\ activity \in Activity /\ payload.verdict = Correlate(series)
      /\ DOMAIN series = {"Invocations", "Errors", "Duration"}
  BY DEF MetricsInv, Measured
<1>2. \A x \in {"Invocations", "Errors", "Duration"} : series[x] = activity[x] BY <1>1 DEF Measured
<1>3. \A x \in {"Invocations", "Errors", "Duration"} : IsSeries(activity[x])
  BY <1>1, MetricsAssumption DEF IsSeries
<1>. QED BY <1>1, <1>2, <1>3

\* Buckets with a rate are the busy ones.
LEMMA BusyHaveRates ==
  ASSUME MetricsInv, Measured, NEW rate, rate = ErrorRate(series["Invocations"], series["Errors"])
  PROVE  /\ DOMAIN rate = Busy
         /\ \A b : series["Invocations"][b] = Inv(b) /\ ErrorsIn(series["Errors"], b) = Err(b)
<1>1. /\ series["Invocations"] = activity["Invocations"] /\ series["Errors"] = activity["Errors"]
      /\ IsSeries(series["Invocations"]) /\ IsSeries(series["Errors"])
  BY MeasuredIsHeld
<1>2. \A b : series["Invocations"][b] = Inv(b) /\ ErrorsIn(series["Errors"], b) = Err(b)
  BY <1>1 DEF Inv, Err, ErrorsIn
<1>3. \A b : b \in DOMAIN rate <=> b \in DOMAIN series["Invocations"] /\ series["Invocations"][b] > 0
  BY <1>1, RateFacts
<1>4. \A b : b \in DOMAIN rate <=> b \in Busy BY <1>1, <1>2, <1>3 DEF Busy
<1>. QED BY <1>2, <1>4

\* The verdict on complete measurements.
LEMMA VerdictRests == ASSUME MetricsInv, Measured PROVE VerdictIsSound
<1>1. /\ payload.verdict = Correlate(series)
      /\ IsSeries(series["Invocations"]) /\ IsSeries(series["Errors"])
      /\ IsSeries(series["Duration"])
      /\ series["Duration"] = activity["Duration"]
  BY MeasuredIsHeld
<1>2. PICK rate : rate = ErrorRate(series["Invocations"], series["Errors"]) OBVIOUS
<1>3. /\ DOMAIN rate = Busy
      /\ \A b : series["Invocations"][b] = Inv(b) /\ ErrorsIn(series["Errors"], b) = Err(b)
  BY <1>2, BusyHaveRates
<1>4. LoadIsNotDefect
  <2>1. SUFFICES ASSUME NEW b \in Busy, Err(b) > 0,
                        \A c, e \in Busy : Err(c) * Inv(e) = Err(e) * Inv(c),
                        \A c \in Busy : 10000 * Err(c) <= 4999 * Inv(c)
                 PROVE  payload.verdict = "errors_tracked_load"
    BY DEF LoadIsNotDefect
  <2>2. b \in DOMAIN rate /\ ErrorsIn(series["Errors"], b) > 0 BY <1>3, <2>1
  <2>3. 10000 * ErrorsIn(series["Errors"], b) <= 4999 * series["Invocations"][b] BY <1>3, <2>1
  <2>4. \A c \in DOMAIN rate :
          ErrorsIn(series["Errors"], c) * series["Invocations"][b]
            = ErrorsIn(series["Errors"], b) * series["Invocations"][c]
    BY <1>3, <2>1
  <2>5. Correlate(series) = "errors_tracked_load"
    BY <1>1, <1>2, <2>2, <2>3, <2>4, EvenErrorsAreLoad
  <2>. QED BY <1>1, <2>5
<1>5. DeadServiceIsNotLoad
  <2>1. SUFFICES ASSUME Cardinality(Busy) >= 2, \A b \in Busy : Err(b) = Inv(b)
                 PROVE  payload.verdict \in {"errors_outpaced_load", "errors_saturated"}
    BY DEF DeadServiceIsNotLoad
  <2>2. /\ Cardinality(DOMAIN rate) >= 2
        /\ \A c \in DOMAIN rate : ErrorsIn(series["Errors"], c) = series["Invocations"][c]
    BY <1>3, <2>1
  <2>3. Correlate(series) \in {"errors_outpaced_load", "errors_saturated"}
    BY <1>1, <1>2, <2>2, DeadIsNotLoad
  <2>. QED BY <1>1, <2>3
<1>6. SlowIsNotQuiet
  <2>1. PICK d : d = activity["Duration"] OBVIOUS
  <2>. DEFINE late == {b \in DOMAIN d : Rank(DOMAIN d, b) >= Cardinality(DOMAIN d) \div 2}
  <2>2. SUFFICES ASSUME Cardinality(DOMAIN d) >= 2,
                        \A b \in late, c \in DOMAIN d \ late : d[b] >= 2 * d[c] /\ d[c] > 0
                 PROVE  payload.verdict # "no_errors"
    BY <2>1 DEF SlowIsNotQuiet, Rank
  <2>3. IsSeries(d) /\ d = series["Duration"] BY <1>1, <2>1
  <2>4. Cardinality(DOMAIN d) \in Nat BY <2>3, ValuesFacts
  <2>5. \A b, c \in DOMAIN d :
          Rank(DOMAIN d, b) >= Cardinality(DOMAIN d) \div 2 /\ Rank(DOMAIN d, c) < Cardinality(DOMAIN d) \div 2
            => d[b] >= 2 * d[c] /\ d[c] > 0
    <3>1. SUFFICES ASSUME NEW b \in DOMAIN d, NEW c \in DOMAIN d,
                          Rank(DOMAIN d, b) >= Cardinality(DOMAIN d) \div 2,
                          Rank(DOMAIN d, c) < Cardinality(DOMAIN d) \div 2
                   PROVE  d[b] >= 2 * d[c] /\ d[c] > 0
      OBVIOUS
    <3>2. Rank(DOMAIN d, c) \in Nat
      <4>1. PICK B : B = DOMAIN d OBVIOUS
      <4>2. B \in SUBSET Nat /\ IsFiniteSet(B) BY <2>3, <4>1 DEF IsSeries
      <4>3. Rank(B, c) \in 0..(Cardinality(B) - 1) BY <4>1, <4>2, RankType
      <4>. QED BY <2>4, <4>1, <4>3
    <3>3. PICK half \in Nat : half = Cardinality(DOMAIN d) \div 2 BY <2>4, DivType
    <3>4. b \in late /\ c \in DOMAIN d \ late BY <3>1, <3>2, <3>3
    <3>. QED BY <2>2, <3>4
  <2>6. DurationRose(d) BY <2>2, <2>3, <2>5, SlowIsNoticed
  <2>7. Correlate(series) # "no_errors"
    <3>1. \A before, after : Judgement(before, after) # "no_errors" BY DEF Judgement
    <3>. QED BY <2>3, <2>6, <3>1 DEF Correlate
  <2>. QED BY <1>1, <2>7
<1>. QED BY <1>4, <1>5, <1>6 DEF VerdictIsSound

-----------------------------------------------------------------------------
(* The theorems.                                                             *)

LEMMA ToolParts ==
  ToolsIInv <=> /\ Control /\ LooksAreKept /\ EmptyIsHonest
                /\ CommitsAreSaid /\ Listing /\ CommitsSayTheirFiles
BY DEF ToolsIInv, ToolsInv, ToolsTypeOK, Control, Listing, Failed, LooksAreKept

LEMMA ToolInvariant == ToolSpec => []ToolsIInv
<1>1. ToolsIInv /\ [ToolNext]_toolVars => ToolsIInv'
  <2>. SUFFICES ASSUME ToolsIInv, [ToolNext]_toolVars PROVE ToolsIInv' OBVIOUS
  <2>1. Control' BY ToolParts, CallTakesTime
  <2>2. LooksAreKept' /\ EmptyIsHonest' BY ToolParts, LooksHold
  <2>3. CommitsAreSaid' /\ Listing' /\ CommitsSayTheirFiles' BY ToolParts, FilesHold
  <2>. QED BY <2>1, <2>2, <2>3, ToolParts, PTL
<1>. QED BY <1>1, ToolInitHolds, PTL DEF ToolSpec

\* A tool call ends in time whatever its services do: the poll loops have their
\* deadlines, the empty result its one second look, and the commit details the
\* budget that is checked before each request (logs.py, changes.py).
THEOREM CallsEndInTime == ToolSpec => []ToolsInv
<1>1. ToolsIInv => ToolsInv BY DEF ToolsIInv
<1>. QED BY <1>1, ToolInvariant, PTL

\* A search that reports nothing looked twice, more than EMPTY_RETRY_SLEEP_S
\* apart, at a complete result, and the census that goes with it counted every
\* line that had arrived by then (logs.py: run, _level_census).
THEOREM EmptySearchIsHonest == ToolSpec => []EmptyIsHonest
<1>1. ToolsIInv => EmptyIsHonest BY DEF ToolsIInv
<1>. QED BY <1>1, ToolInvariant, PTL

\* Each commit GitHub listed has its entry, in order, and the entry says its files,
\* or that they are unknown once the budget is used up; but for a detail request
\* that failed, which leaves no files and no mark (changes.py: _fetch_commits).
THEOREM CommitsAreComplete == ToolSpec => []CommitsSayTheirFiles
<1>1. ToolsIInv => CommitsSayTheirFiles BY DEF ToolsIInv
<1>. QED BY <1>1, ToolInvariant, PTL

\* What is given as evidence is honest: for any trail and any failed lookups, the
\* deployments reported touched the application and none that names it is missing
\* from a lookup that answered; the commits say their files; and no better runbook
\* is withheld (changes.py: _relevant, _fetch_deployments, run; runbooks.py: run).
THEOREM EvidenceCanBeTrusted == ToolSpec => []EvidenceIsHonest
<1>1. ToolsIInv => Control /\ Listing BY ToolParts
<1>2. ToolSpec => []EvidenceInv
  BY <1>1, EvidenceInit, EvidenceHolds, ToolInvariant, PTL DEF ToolSpec
<1>3. EvidenceInv /\ CommitsSayTheirFiles => EvidenceIsHonest
  BY DEF EvidenceInv, EvidenceIsHonest
<1>. QED BY <1>2, <1>3, CommitsAreComplete, PTL

\* The entries of a search stand for the rows they replace: each row is of one entry,
\* which counts and dates all of its rows, and shows two correlation ids if they have
\* as many; and the counts by level are those of the rows (logs.py: _dedupe, run).
THEOREM NothingOfFrequencyIsLost == ToolSpec => []EntriesStandForRows
<1>1. ToolInit => RowsInv
  <2>. SUFFICES ASSUME ToolInit PROVE RowsInv OBVIOUS
  <2>1. rows = <<>> /\ pc = "dispatch" /\ arrived \in Nat
    BY ToolInitHolds DEF ToolInit, SearchInit, CallInit, ToolsIInv, ToolsInv, ToolsTypeOK
  <2>. QED BY <2>1, FewerRows DEF RowsInv, EntriesStandForRows, Searched
<1>2. Control /\ RowsInv /\ [ToolNext]_toolVars => RowsInv' BY RowsHold
<1>3. ToolsIInv => Control BY ToolParts
<1>4. RowsInv => EntriesStandForRows BY DEF RowsInv
<1>. QED BY <1>1, <1>2, <1>3, <1>4, ToolInvariant, PTL DEF ToolSpec

\* On complete measurements the verdict is load where the same share of the requests,
\* below a half, fails throughout; it is not load where all fail; and it is more than
\* "no errors" where the requests of the second half took twice as long as those of the
\* first: for all numbers of requests, errors and milliseconds (metrics.py: _correlate).
THEOREM VerdictsCanBeTrusted == ToolSpec => []VerdictIsSound
<1>1. ToolInit => MetricsInv
  BY DEF ToolInit, MetricsInit, CallInit, MetricsInv
<1>2. MetricsInv /\ [ToolNext]_toolVars => MetricsInv' BY MetricsHold
<1>3. MetricsInv => VerdictIsSound
  <2>1. ~ Measured => LoadIsNotDefect /\ DeadServiceIsNotLoad /\ SlowIsNotQuiet
    BY DEF LoadIsNotDefect, DeadServiceIsNotLoad, SlowIsNotQuiet
  <2>. QED BY <2>1, VerdictRests DEF VerdictIsSound
<1>. QED BY <1>1, <1>2, <1>3, PTL DEF ToolSpec
=============================================================================
