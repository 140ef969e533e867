------------------------------- MODULE Tools --------------------------------
(***************************************************************************)
(* agent/tools: a tool call of the agent loop, from its dispatch to the    *)
(* payload.  AgentLoop sees of it only whether it succeeded.               *)
(***************************************************************************)
EXTENDS LogSearch, Metrics, ChangeHistory, Runbooks

toolVars == <<callVars, searchVars, metricVars, changeVars>>

ToolInit ==
  /\ CallInit
  /\ SearchInit(IF call.tool = "search_logs" THEN Log ELSE {<<>>})
  /\ MetricsInit(IF call.tool = "get_metrics" THEN Activity ELSE {<<>>})
  /\ ChangesInit(IF call.tool = "get_recent_changes" THEN History ELSE {<<>>})

\* What the invocation does.
ToolStep ==
  \/ Refuse /\ UNCHANGED <<searchVars, metricVars, changeVars>>
  \/ /\ \/ Dispatch("search_logs", "start_query")
        \/ Dispatch("get_metrics", "fetch")
        \/ Dispatch("get_recent_changes", "lookup")
        \/ Dispatch("search_runbooks", "match")
     /\ UNCHANGED <<searchVars, metricVars, changeVars>>
  \/ SearchStep /\ UNCHANGED <<metricVars, changeVars>>
  \/ MetricsStep /\ UNCHANGED <<searchVars, changeVars>>
  \/ ChangesStep /\ UNCHANGED <<searchVars, metricVars>>
  \/ RunbookSearch /\ UNCHANGED <<searchVars, metricVars, changeVars>>

ToolNext ==
  \/ ToolStep
  \/ Ingestion /\ UNCHANGED <<metricVars, changeVars>>

ToolSpec == ToolInit /\ [][ToolNext]_toolVars

ToolsTypeOK ==
  /\ call \in Request /\ clock \in Nat
  /\ pc \in {"dispatch", "start_query", "poll", "queried", "fetch", "lookup", "list",
             "detail", "merge", "match", "done"}
  /\ arrived \in 0..Len(log)
  /\ query \in {"first", "retry", "census"}
  /\ lookedUp \in Nat
  /\ failed \in [lookups : SUBSET (1..lookedUp), details : SUBSET (1..Len(commits))]
  /\ Len(commits) <= listed /\ listed <= MAX_COMMITS

-----------------------------------------------------------------------------
\* "Cap the total instead of trusting the per-request timeout to bound it": the
\* time a call spends is bounded whatever its services do.  A search polls three
\* queries; the change history waits for the listing, its budget, and the request
\* that was under way when the budget ended.
CallIsBounded ==
  clock <= CASE call.tool = "search_logs"        -> 3 * POLL_TIMEOUT_S + EMPTY_RETRY_SLEEP_S
             [] call.tool = "get_recent_changes" -> 2 * GITHUB_TIMEOUT_S + COMMIT_DETAIL_BUDGET_S
             [] OTHER                            -> 0

\* What holds throughout any call: the types, and the bound on its time.
ToolsInv == ToolsTypeOK /\ CallIsBounded

\* What the model is given as evidence, and what it is pointed to: the deployments
\* of the application and nobody else's, commits that say their files or that they
\* are unknown (but for failed requests), and the runbooks that fit best.
EvidenceIsHonest == DeploymentsAreTheApps /\ CommitsSayTheirFiles /\ BestRunbooksAreOffered
=============================================================================
