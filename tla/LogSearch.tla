------------------------------ MODULE LogSearch ------------------------------
(***************************************************************************)
(* agent/tools/logs.py: search_logs.                                       *)
(*                                                                         *)
(* A log line is [level, text, failure, id]: its parsed level or "none",   *)
(* what the deduplication key sees of it, whether a raw platform line      *)
(* reports a runtime failure, and a correlation id.  Lines are numbered in *)
(* time order and become visible to Insights in that order, some of them   *)
(* only after the search has begun.  Rows are line numbers.                *)
(***************************************************************************)
EXTENDS ToolCall

CONSTANTS
  Log,                      \* the logs a search may meet: sequences of lines
  LOG_QUERY_LIMIT,          \* rows Insights returns at most
  POLL_TIMEOUT_S,
  EMPTY_RETRY_SLEEP_S,
  MAX_CORRELATION_SAMPLES,
  NoId,                     \* a line without a correlation id
  NoCensus                  \* no level census was taken, or it failed

ASSUME LogAssumption ==
  /\ {LOG_QUERY_LIMIT, POLL_TIMEOUT_S, EMPTY_RETRY_SLEEP_S, MAX_CORRELATION_SAMPLES}
        \subseteq Nat \ {0}
  /\ MAX_CORRELATION_SAMPLES >= 2
  /\ \A lines \in Log : Len(lines) \in Nat

VARIABLES
  log,        \* the target's log
  arrived,    \* how many of its lines Insights knows of
  query,      \* which query is made: "first", "retry" or "census"
  deadline,   \* of the query's poll loop
  rows,       \* results of the search so far
  status,     \* query status of the search
  looks       \* history: when a search query ended, and what had arrived

searchVars == <<log, arrived, query, deadline, rows, status, looks>>

TERMINAL_STATUSES == {"Complete", "Failed", "Cancelled", "Timeout", "Unknown"}

SearchInit(logs) ==
  /\ log \in logs
  /\ arrived \in 0..Len(log)
  /\ query = "first" /\ deadline = 0
  /\ rows = <<>> /\ status = "Running" /\ looks = <<>>

-----------------------------------------------------------------------------
(***************************************************************************)
(* The query and what Insights makes of it.                                *)
(***************************************************************************)
\* _is_runtime_failure and the filter clauses of _build_query.
Matches(n) ==
  /\ IF call.level = "all" THEN log[n].level # "none" \/ log[n].failure
                           ELSE log[n].level = call.level
  /\ call.term \in {"any", log[n].text}

\* The newest LOG_QUERY_LIMIT matches, newest first.
Found == LET hits == {n \in 1..arrived : Matches(n)}
             newest == {n \in hits : Cardinality({m \in hits : n < m}) < LOG_QUERY_LIMIT}
         IN  Reverse(Ascending(newest))

\* A query still running, or cut short, shows a part of its results.
Results(st) == IF st = "Complete" THEN {Found} ELSE {<<>>, Found}

LevelsOf(lines) == {log[n].level : n \in lines}

\* stats count(*) as entries by level: the census query's answer.
CountLevels(lines) == [l \in LevelsOf(lines) |-> Cardinality({n \in lines : log[n].level = l})]

-----------------------------------------------------------------------------
(***************************************************************************)
(* _dedupe: one entry per distinct failure.                                *)
(***************************************************************************)
Key(n) == <<log[n].level, log[n].text>>

Sample(ids, id) ==
  IF id = NoId \/ Contains(ids, id) \/ Len(ids) >= MAX_CORRELATION_SAMPLES
  THEN ids ELSE Append(ids, id)

\* Mutant: the span is taken from the first row instead of extended both ways.
AddRowFirstWins(groups, n) ==
  IF \E g \in DOMAIN groups : groups[g].key = Key(n)
  THEN [g \in DOMAIN groups |->
          IF groups[g].key # Key(n) THEN groups[g]
          ELSE [groups[g] EXCEPT !.occurrences = @ + 1,
                                 !.last_seen = n,
                                 !.ids = Sample(@, log[n].id)]]
  ELSE Append(groups, [key |-> Key(n), occurrences |-> 1, first_seen |-> n, last_seen |-> n,
                       id |-> log[n].id, ids |-> Sample(<<>>, log[n].id)])

AddRow(groups, n) ==
  IF \E g \in DOMAIN groups : groups[g].key = Key(n)
  THEN [g \in DOMAIN groups |->
          IF groups[g].key # Key(n) THEN groups[g]
          ELSE [groups[g] EXCEPT !.occurrences = @ + 1,
                                 !.first_seen = IF n < @ THEN n ELSE @,
                                 !.last_seen = IF n > @ THEN n ELSE @,
                                 !.ids = Sample(@, log[n].id)]]
  ELSE Append(groups, [key |-> Key(n), occurrences |-> 1, first_seen |-> n, last_seen |-> n,
                       id |-> log[n].id, ids |-> Sample(<<>>, log[n].id)])

\* With one distinct id the sample is dropped: the entry's own id says it.
Dedupe(found) ==
  LET after[n \in 0..Len(found)] == IF n = 0 THEN <<>> ELSE AddRow(after[n - 1], found[n])
      groups == after[Len(found)]
  IN  [g \in DOMAIN groups |-> [groups[g] EXCEPT !.ids = IF Len(@) <= 1 THEN <<>> ELSE @]]

\* level_counts of the payload, added up from the entries.
LevelCounts(entries) ==
  [l \in {e.key[1] : e \in ToSet(entries)} |->
     Total([k \in DOMAIN entries |->
              IF entries[k].key[1] = l THEN entries[k].occurrences ELSE 0])]

-----------------------------------------------------------------------------
(***************************************************************************)
(* _run_query, _level_census and run, from one remote call to the next.    *)
(***************************************************************************)
\* One more line reaches Insights.
Ingestion ==
  /\ pc \notin {"dispatch", "done"}
  /\ call.tool = "search_logs"
  /\ arrived < Len(log)
  /\ arrived' = arrived + 1
  /\ UNCHANGED <<callVars, log, query, deadline, rows, status, looks>>

Report(census) ==
  Return([tool |-> "search_logs", query_status |-> status, rows |-> rows,
          entries |-> Dedupe(rows), level_counts |-> LevelCounts(Dedupe(rows)),
          truncated |-> Len(rows) >= LOG_QUERY_LIMIT, window_level_counts |-> census])

StartQuery ==
  /\ pc = "start_query"
  /\ pc' = "poll"
  /\ deadline' = clock + POLL_TIMEOUT_S
  /\ UNCHANGED <<call, clock, payload, log, arrived, query, rows, status, looks>>

\* start_query or get_query_results raises: an error, or a search without census.
QueryFails ==
  /\ pc \in {"start_query", "poll"}
  /\ clock' \in IF pc = "poll" THEN {clock + 1} ELSE {clock}
  /\ pc = "poll" => clock < deadline
  /\ IF query = "census" THEN Report(NoCensus) ELSE Return(Failure)
  /\ UNCHANGED <<call, searchVars>>

\* One round of the poll loop of a search.
Poll(st) ==
  /\ pc = "poll" /\ query # "census"
  /\ clock < deadline
  /\ clock' = clock + 1
  /\ rows' \in Results(st)
  /\ status' = st
  /\ IF st \in TERMINAL_STATUSES
     THEN pc' = "queried" /\ looks' = Append(looks, [at |-> clock', arrived |-> arrived])
     ELSE UNCHANGED <<pc, looks>>
  /\ UNCHANGED <<call, payload, log, arrived, query, deadline>>

\* The loop's deadline passed: stop the query, keep what it had.
PollExpires ==
  /\ pc = "poll" /\ query # "census"
  /\ clock >= deadline
  /\ status' = "Timeout"
  /\ pc' = "queried"
  /\ looks' = Append(looks, [at |-> clock, arrived |-> arrived])
  /\ UNCHANGED <<call, clock, payload, log, arrived, query, deadline, rows>>

\* Ingestion lag: an empty result is looked at once more, as it proves nothing.
RetryDue == query = "first" /\ rows = <<>> /\ status = "Complete"

LookAgain ==
  /\ pc = "queried" /\ RetryDue
  /\ query' = "retry" /\ pc' = "start_query"
  /\ clock' = clock + EMPTY_RETRY_SLEEP_S
  /\ UNCHANGED <<call, payload, log, arrived, deadline, rows, status, looks>>

\* Nothing of the wanted level: see what levels there are.
TakeCensus ==
  /\ pc = "queried" /\ ~RetryDue
  /\ rows = <<>> /\ call.level # "all"
  /\ query' = "census" /\ pc' = "start_query"
  /\ UNCHANGED <<call, clock, payload, log, arrived, deadline, rows, status, looks>>

\* Mutant: whatever the census query has when it ends is the census.
PollCensusTrusting(st, scanned) ==
  /\ pc = "poll" /\ query = "census"
  /\ clock < deadline
  /\ clock' = clock + 1
  /\ IF st \in TERMINAL_STATUSES THEN Report(CountLevels(1..scanned))
                                 ELSE UNCHANGED <<pc, payload>>
  /\ UNCHANGED <<call, searchVars>>

\* One round of the poll loop of the census: all or nothing.
PollCensus(st, scanned) ==
  /\ pc = "poll" /\ query = "census"
  /\ clock < deadline
  /\ clock' = clock + 1
  /\ st = "Complete" => scanned = arrived
  /\ IF st \in TERMINAL_STATUSES
     THEN Report(IF st = "Complete" THEN CountLevels(1..scanned) ELSE NoCensus)
     ELSE UNCHANGED <<pc, payload>>
  /\ UNCHANGED <<call, searchVars>>

CensusExpires ==
  /\ pc = "poll" /\ query = "census"
  /\ clock >= deadline
  /\ Report(NoCensus)
  /\ UNCHANGED <<call, clock, searchVars>>

SearchReturns ==
  /\ pc = "queried" /\ ~RetryDue
  /\ rows # <<>> \/ call.level = "all"
  /\ Report(NoCensus)
  /\ UNCHANGED <<call, clock, searchVars>>

SearchStep ==
  \/ StartQuery
  \/ QueryFails
  \/ \E st \in {"Running", "Complete", "Failed"} :
        \/ Poll(st)
        \/ \E scanned \in 0..arrived : PollCensus(st, scanned)
  \/ PollExpires
  \/ LookAgain
  \/ TakeCensus
  \/ CensusExpires
  \/ SearchReturns

-----------------------------------------------------------------------------
Searched == pc = "done" /\ payload.tool = "search_logs"

\* "Ingestion lag: an empty first result is not proof of no errors": a search
\* that reports nothing has looked twice, some time apart, at a complete result.
EmptyIsLookedAtTwice ==
  Searched /\ payload.query_status = "Complete" /\ payload.rows = <<>> =>
    Len(looks) = 2 /\ looks[2].at - looks[1].at > EMPTY_RETRY_SLEEP_S

\* Entries stand for the rows they replace ("nothing about frequency is lost"):
\* each row is a line that had arrived and belongs to exactly one entry, which
\* counts and dates all of its rows, and shows two correlation ids if they have as
\* many.
EntriesStandForRows ==
  Searched =>
    LET RowsOf(e) == {n \in ToSet(payload.rows) : Key(n) = e.key}
        IdsOf(e)  == {log[n].id : n \in RowsOf(e)} \ {NoId}
    IN  /\ UNION {RowsOf(e) : e \in ToSet(payload.entries)} = ToSet(payload.rows)
        /\ Cardinality({e.key : e \in ToSet(payload.entries)}) = Len(payload.entries)
        /\ \A e \in ToSet(payload.entries) :
             /\ e.occurrences = Cardinality(RowsOf(e))
             /\ {e.first_seen, e.last_seen} \subseteq RowsOf(e)
             /\ \A n \in RowsOf(e) : e.first_seen <= n /\ n <= e.last_seen
             /\ ToSet(e.ids) \subseteq IdsOf(e)
             /\ Cardinality(IdsOf(e)) >= 2 => Len(e.ids) >= 2
        /\ payload.level_counts = CountLevels(ToSet(payload.rows))
        /\ ToSet(payload.rows) \subseteq 1..arrived

\* The census offered with an empty search is of the whole window: it leaves out
\* no line that had arrived when the search looked last.
CensusIsWhole ==
  Searched /\ payload.window_level_counts # NoCensus =>
    LET census == payload.window_level_counts
        before == 1..looks[Len(looks)].arrived
    IN  \A l \in LevelsOf(before) :
          /\ l \in DOMAIN census
          /\ census[l] >= Cardinality({n \in before : log[n].level = l})

\* A search that comes back empty may be taken at its word: it was made twice,
\* and the census that goes with it left nothing out.
EmptyIsHonest == EmptyIsLookedAtTwice /\ CensusIsWhole
=============================================================================
