---------------------------- MODULE ChangeHistory ----------------------------
(***************************************************************************)
(* agent/tools/changes.py: get_recent_changes.                             *)
(*                                                                         *)
(* A CloudTrail event is [id, resources, mentions]: whose resources it     *)
(* names, in order, and whose names its raw payload holds.  "app" is the   *)
(* target application, "own" Sentry itself, "other" the rest of the        *)
(* account; both "app" and "own" names carry the project's prefix.         *)
(***************************************************************************)
EXTENDS ToolCall

CONSTANTS
  History,                 \* what may have happened: [trail, commits]
  MAX_COMMITS,
  GITHUB_TIMEOUT_S,
  COMMIT_DETAIL_BUDGET_S

ASSUME ChangesAssumption ==
  /\ {MAX_COMMITS, GITHUB_TIMEOUT_S, COMMIT_DETAIL_BUDGET_S} \subseteq Nat \ {0}
  /\ \A h \in History : /\ Len(h.commits) \in Nat /\ DOMAIN h.commits = 1..Len(h.commits)
                        /\ Len(h.trail) \in Nat /\ DOMAIN h.trail = 1..Len(h.trail)

VARIABLES
  history,       \* trail: what each lookup would return; commits: files each touched
  lookedUp,      \* DEPLOY_EVENTS names looked up so far
  deployments,   \* the changes found in CloudTrail: which event, and what it targets
  listed,        \* how many commits GitHub listed
  commits,       \* changes made of them
  budgetEnds,    \* when COMMIT_DETAIL_BUDGET_S is used up
  failed         \* history variable: the lookups and detail requests that failed

changeVars == <<history, lookedUp, deployments, listed, commits, budgetEnds, failed>>

ChangesInit(histories) ==
  /\ history \in histories
  /\ lookedUp = 0 /\ deployments = {}
  /\ listed = 0 /\ commits = <<>> /\ budgetEnds = 0
  /\ failed = [lookups |-> {}, details |-> {}]

-----------------------------------------------------------------------------
\* Mutant: an event that names a component of Sentry's is dropped, whatever else it names.
RelevantUnlessOwn(e) ==
  /\ "own" \notin ToSet(e.resources) \cup e.mentions
  /\ "app" \in ToSet(e.resources) \cup e.mentions

\* _relevant: a resource of the application, or, when no resource carries the
\* prefix, a payload that mentions the application and nothing of Sentry's.
Relevant(e) ==
  \/ "app" \in ToSet(e.resources)
  \/ /\ {"app", "own"} \cap ToSet(e.resources) = {}
     /\ "app" \in e.mentions
     /\ "own" \notin e.mentions

\* _extract_target: the first name with the prefix, or the request's parameter.
Target(e) ==
  LET named == SelectSeq(e.resources, LAMBDA r : r \in {"app", "own"})
  IN  IF named # <<>> THEN named[1] ELSE "parameter"

Seen == {d.event.id : d \in deployments}

\* _fetch_deployments: one event name is looked up; a failed lookup finds nothing.
LookUp(answered) ==
  /\ pc = "lookup" /\ call.source # "commits"
  /\ lookedUp < Len(history.trail)
  /\ lookedUp' = lookedUp + 1
  /\ LET found == IF answered THEN history.trail[lookedUp'] ELSE <<>>
         fresh == {e \in ToSet(found) : e.id \notin Seen /\ Relevant(e)}
     IN  deployments' = deployments \cup {[event |-> e, target |-> Target(e)] : e \in fresh}
  /\ failed' = IF answered THEN failed
               ELSE [failed EXCEPT !.lookups = @ \cup {lookedUp'}]
  /\ UNCHANGED <<call, pc, clock, payload, history, listed, commits, budgetEnds>>

\* The sources the call asked for, CloudTrail first.
LookedUp ==
  /\ pc = "lookup"
  /\ call.source = "commits" \/ lookedUp = Len(history.trail)
  /\ pc' = IF call.source = "deployments" THEN "merge" ELSE "list"
  /\ UNCHANGED <<call, clock, payload, changeVars>>

\* _fetch_commits: GitHub is not configured, or does not answer with a list.
ListNothing ==
  /\ pc = "list"
  /\ clock' \in clock..(clock + GITHUB_TIMEOUT_S)
  /\ pc' = "merge"
  /\ UNCHANGED <<call, payload, changeVars>>

\* The newest MAX_COMMITS; the time their details may take is counted from here.
ListCommits ==
  /\ pc = "list"
  /\ clock' \in clock..(clock + GITHUB_TIMEOUT_S)
  /\ listed' = IF Len(history.commits) < MAX_COMMITS THEN Len(history.commits)
                                                     ELSE MAX_COMMITS
  /\ budgetEnds' = clock' + COMMIT_DETAIL_BUDGET_S
  /\ pc' = "detail"
  /\ UNCHANGED <<call, payload, history, lookedUp, deployments, commits, failed>>

NextCommit == Len(commits) + 1

Entry(files, unavailable) == [changed_files |-> files, unavailable |-> unavailable]

\* Mutant: only the timeout of each request bounds the time.
DetailUnbounded(answered) ==
  /\ pc = "detail"
  /\ Len(commits) < listed
  /\ clock' \in clock..(clock + GITHUB_TIMEOUT_S)
  /\ failed' = IF answered THEN failed
               ELSE [failed EXCEPT !.details = @ \cup {NextCommit}]
  /\ commits' = Append(commits, Entry(IF answered THEN history.commits[NextCommit] ELSE {}, FALSE))
  /\ UNCHANGED <<call, pc, payload, history, lookedUp, deployments, listed, budgetEnds>>

\* Within the budget, the commit's files are asked for.
Detail(answered) ==
  /\ pc = "detail"
  /\ Len(commits) < listed
  /\ clock < budgetEnds
  /\ clock' \in clock..(clock + GITHUB_TIMEOUT_S)
  /\ failed' = IF answered THEN failed
               ELSE [failed EXCEPT !.details = @ \cup {NextCommit}]
  /\ commits' = Append(commits, Entry(IF answered THEN history.commits[NextCommit] ELSE {}, FALSE))
  /\ UNCHANGED <<call, pc, payload, history, lookedUp, deployments, listed, budgetEnds>>

\* Past it, the entry says that its files are not known.
DetailSkipped ==
  /\ pc = "detail"
  /\ Len(commits) < listed
  /\ clock >= budgetEnds
  /\ commits' = Append(commits, Entry({}, TRUE))
  /\ UNCHANGED <<call, pc, clock, payload, history, lookedUp, deployments, listed,
                 budgetEnds, failed>>

\* run_changes puts the two lists together; that they are sorted by time is left out.
ChangesReturn ==
  /\ \/ pc = "merge"
     \/ pc = "detail" /\ Len(commits) = listed
  /\ Return([tool |-> "get_recent_changes",
             sources_searched |-> (IF call.source = "commits" THEN {} ELSE {"cloudtrail"})
                                  \cup (IF commits = <<>> THEN {} ELSE {"github"}),
             deployments |-> deployments, commits |-> commits])
  /\ UNCHANGED <<call, clock, changeVars>>

ChangesStep ==
  \/ \E answered \in BOOLEAN : LookUp(answered) \/ Detail(answered)
  \/ LookedUp
  \/ ListNothing
  \/ ListCommits
  \/ DetailSkipped
  \/ ChangesReturn

-----------------------------------------------------------------------------
Listed == pc = "done" /\ payload.tool = "get_recent_changes"

\* "Keep only events touching the target app's resources": what is reported
\* touched something of the application, and is not Sentry's alone by the names
\* of its resources; and no event that names a resource of the application is
\* left out, unless the lookup it was to be found by failed.
DeploymentsAreTheApps ==
  Listed =>
    /\ \A d \in payload.deployments :
         /\ "app" \in ToSet(d.event.resources) \cup d.event.mentions
         /\ "own" \in ToSet(d.event.resources) => "app" \in ToSet(d.event.resources)
    /\ call.source # "commits" =>
         \A k \in DOMAIN history.trail \ failed.lookups :
           \A e \in ToSet(history.trail[k]) :
             "app" \in ToSet(e.resources) => \E d \in payload.deployments : d.event.id = e.id

\* What an entry says of its files: that they are unknown only once the budget is
\* used up, and otherwise the files of that very commit.  A detail request that
\* failed is the exception: its entry shows no files and carries no mark.
SaysItsFiles(entry, k) ==
  IF entry.unavailable THEN clock >= budgetEnds
  ELSE entry.changed_files = history.commits[k] \/ k \in failed.details

\* "Say so rather than leaving changed_files empty": each commit that was listed
\* has one entry, and that entry says its files, but for a failed request.
CommitsSayTheirFiles ==
  Listed => /\ Len(payload.commits) = listed
            /\ \A k \in DOMAIN payload.commits : SaysItsFiles(payload.commits[k], k)
=============================================================================
