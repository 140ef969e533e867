------------------------------ MODULE Dashboard ------------------------------
(***************************************************************************)
(* frontend/index.html, the operator's page: its board, polling, drawers   *)
(* and decision buttons, with every request it has under way.              *)
(*                                                                         *)
(* The page runs one handler at a time, and what it awaits comes back in   *)
(* any order.  The board's answer is a copy of the statuses, each of them  *)
(* now or from a lagging replica (Listing has the scan behind it); a       *)
(* request without credentials fails like one the network loses.  A box of *)
(* buttons is disabled while its own request is under way, and drawing it  *)
(* anew enables it.                                                        *)
(***************************************************************************)
EXTENDS IncidentStore, Sequences, FiniteSets

CONSTANTS
  Operator,   \* the page's name for itself, "dashboard"
  Moves,      \* the transitions others make meanwhile
  MaxLoads,   \* loads of the board that may overlap
  Post,       \* decisions that may be under way at once
  MaxRequests \* requests an operator keeps under way at once

ASSUME DashboardAssumption == /\ Operator \in Actor
                              /\ Moves \subseteq ALLOWED_TRANSITIONS
                              /\ MaxLoads \in Nat \ {0}
                              /\ MaxRequests \in Nat

VARIABLES
  board,       \* what the board shows: nothing, "loading", a list or an error
  cards,       \* state.incidents: the status of each incident
  polling,     \* the auto checkbox, state.timer, and the reload act leaves
  loads,       \* loads of the board: how many are sent, which lists are on their way
  drawer,      \* the panel, the guide and the scrim behind them
  details,     \* the full records openPanel awaits
  posts,       \* each decision's request
  succeeded    \* history: per incident, the decisions answered with success

pageVars == <<board, cards, polling, loads, drawer, details, posts, succeeded>>
vars == <<storeVars, faults, pageVars>>

Verb == {"approve", "reject"}
Shown == Status \cup {"MISSING"}

Lists == [Incident -> Shown]
NoPost == [stage |-> "idle", id |-> NoIncident, verb |-> "approve", box |-> "none"]
NoDrawer == [panel |-> FALSE, guide |-> FALSE, scrim |-> FALSE, selected |-> NoIncident,
             shown |-> NoIncident, status |-> "MISSING", trace |-> NoIncident]

\* A page opened with credentials loads at once; without, it opens the guide
\* and does not, even when the stored auto-refresh is on.
DashInit ==
  /\ table \in [Incident -> {[NewItem EXCEPT !.status = s] : s \in {"INVESTIGATING", "PENDING_APPROVAL"}}]
  /\ replica = table
  /\ faults = 0
  /\ cards = [i \in Incident |-> "MISSING"]
  /\ \E known, auto \in BOOLEAN :
       /\ board = IF known THEN "loading" ELSE "empty"
       /\ polling = [auto |-> auto, timer |-> FALSE, reload |-> FALSE, asked |-> known]
       /\ loads = [sent |-> IF known THEN 1 ELSE 0, lists |-> {}]
       /\ drawer = [NoDrawer EXCEPT !.guide = ~known, !.scrim = ~known]
  /\ details = {}
  /\ posts = [p \in Post |-> NoPost]
  /\ succeeded = [i \in Incident |-> <<>>]

-----------------------------------------------------------------------------
\* The loads under way.
Loading == loads.sent + Cardinality(loads.lists)

\* The operator waits before starting more.
Room ==
  Loading + Cardinality(details) + Cardinality({p \in Post : posts[p] # NoPost}) < MaxRequests

\* load: the request leaves.
Send == Loading < MaxLoads /\ loads' = [loads EXCEPT !.sent = @ + 1]

\* Mutant: the page polls on only while work is moving.
ScheduleWhileBusy ==
  polling' = [polling EXCEPT !.timer = polling.auto /\ \E i \in Incident : cards[i] = "INVESTIGATING"]

\* schedule
Schedule == polling' = [polling EXCEPT !.timer = polling.auto]

\* Drawing a box detaches the request its buttons had under way.
Drawn(box) == [p \in Post |-> [posts[p] EXCEPT !.box = IF @ = box THEN "none" ELSE @]]

\* $("refresh").onclick
Refresh ==
  /\ Room
  /\ Send
  /\ board' = "loading"
  /\ posts' = Drawn("board")
  /\ polling' = [polling EXCEPT !.asked = TRUE]
  /\ UNCHANGED <<storeVars, faults, cards, drawer, details, succeeded>>

\* Mutant: checking the box neither loads nor starts the timer.
AutoChangedQuietly ==
  /\ Room
  /\ polling' = [polling EXCEPT !.auto = ~@, !.timer = FALSE]
  /\ UNCHANGED <<storeVars, faults, board, cards, loads, drawer, details, posts, succeeded>>

\* $("auto").onchange, and startWaiting, which checks the box for the operator.
AutoChanged ==
  /\ Room
  /\ IF polling.auto
       THEN polling' = [polling EXCEPT !.auto = FALSE, !.timer = FALSE] /\ UNCHANGED loads
       ELSE polling' = [polling EXCEPT !.auto = TRUE, !.asked = TRUE] /\ Send
  /\ UNCHANGED <<storeVars, faults, board, cards, drawer, details, posts, succeeded>>

\* state.timer, or the reload a decision leaves behind, fires: load(true).
Fire ==
  /\ Send
  /\ \/ polling.timer /\ polling' = [polling EXCEPT !.timer = FALSE]
     \/ polling.reload /\ polling' = [polling EXCEPT !.reload = FALSE, !.asked = TRUE]
  /\ UNCHANGED <<storeVars, faults, board, cards, drawer, details, posts, succeeded>>

\* The gate puts the list together.  (Two equal lists on their way are one.)
Serve ==
  /\ loads.sent > 0
  /\ \E old \in SUBSET Lagging :
       loads' = [sent |-> loads.sent - 1,
                 lists |-> loads.lists \cup {[i \in Incident |-> Copy(i, old).status]}]
  /\ UNCHANGED <<storeVars, faults, board, cards, polling, drawer, details, posts, succeeded>>

\* load goes on: with a list,
Arrive(list) ==
  /\ list \in loads.lists
  /\ loads' = [loads EXCEPT !.lists = @ \ {list}]
  /\ cards' = list
  /\ board' = "list"
  /\ Schedule
  /\ posts' = Drawn("board")
  /\ UNCHANGED <<storeVars, faults, drawer, details, succeeded>>

\* or into its catch.
LoadFailed ==
  /\ \/ loads.sent > 0 /\ loads' = [loads EXCEPT !.sent = @ - 1]
     \/ \E list \in loads.lists : loads' = [loads EXCEPT !.lists = @ \ {list}]
  /\ board' = "error"
  /\ Fault
  /\ Schedule
  /\ posts' = Drawn("board")
  /\ UNCHANGED <<storeVars, cards, drawer, details, succeeded>>

-----------------------------------------------------------------------------
\* syncScrim, over the drawers a handler leaves open.
Synced(d) == [d EXCEPT !.scrim = d.panel \/ d.guide]

\* closePanel, but for its render.  What a closed panel still holds is out of
\* sight and left out.
Closed == Synced([NoDrawer EXCEPT !.guide = drawer.guide])

\* closePanel by its close button, or by closeDrawers when no guide is open.
ClosePanel ==
  /\ drawer.panel
  /\ drawer' = Closed
  /\ board' = "list"
  /\ posts' = [p \in Post |-> [posts[p] EXCEPT !.box = "none"]]
  /\ UNCHANGED <<storeVars, faults, cards, polling, loads, details, succeeded>>

\* A click on a card, which the scrim covers while it is there: openPanel.
OpenPanel(i) ==
  /\ Room /\ board = "list" /\ cards[i] # "MISSING" /\ ~drawer.scrim
  /\ drawer' = Synced([drawer EXCEPT !.selected = i, !.guide = FALSE, !.panel = TRUE, !.shown = i,
                                     !.status = cards[i], !.trace = NoIncident])
  /\ details' = details \cup {i}
  /\ posts' = [p \in Post |-> [posts[p] EXCEPT !.box = "none"]]
  /\ UNCHANGED <<storeVars, faults, board, cards, polling, loads, succeeded>>

\* openPanel goes on: the record of i, or a failure, is written into the trace
\* of the panel as it is by now.
Detail(i) ==
  /\ i \in details
  /\ details' = details \ {i}
  /\ \/ drawer' = [drawer EXCEPT !.trace = IF drawer.panel THEN i ELSE @] /\ NoFault
     \/ drawer' = [drawer EXCEPT !.trace = NoIncident] /\ Fault
  /\ UNCHANGED <<storeVars, board, cards, polling, loads, posts, succeeded>>

\* Mutant: the panel is left open under the guide.
GuideOverPanel ==
  /\ drawer' = Synced([drawer EXCEPT !.guide = ~@])
  /\ UNCHANGED <<storeVars, faults, board, cards, polling, loads, details, posts, succeeded>>

\* $("guide").onclick, and closeDrawers when the guide is open: openGuide (its
\* button can be reached by the keyboard under the scrim) or closeGuide.
Guide ==
  /\ drawer' = Synced([NoDrawer EXCEPT !.guide = ~drawer.guide, !.selected = drawer.selected])
  /\ posts' = Drawn("panel")
  /\ UNCHANGED <<storeVars, faults, board, cards, polling, loads, details, succeeded>>

-----------------------------------------------------------------------------
\* Where incident i's buttons are drawn.
Buttons(i, box) ==
  IF box = "board" THEN board = "list" /\ cards[i] = "PENDING_APPROVAL"
                   ELSE drawer.panel /\ drawer.shown = i /\ drawer.status = "PENDING_APPROVAL"

\* act up to its request.
Act(i, verb, box) ==
  /\ Room /\ Buttons(i, box)
  /\ \A p \in Post : ~ (posts[p].id = i /\ posts[p].box = box)
  /\ \E p \in Post :
       /\ posts[p] = NoPost
       /\ posts' = [posts EXCEPT ![p] = [stage |-> "sent", id |-> i, verb |-> verb, box |-> box]]
  /\ UNCHANGED <<storeVars, faults, board, cards, polling, loads, drawer, details, succeeded>>

\* _approve and _reject; the answer, or the handover to the executor, may be lost.
Decide(p) ==
  LET q == posts[p]
  IN /\ q.stage = "sent"
     /\ \E out \in Outcome :
          /\ IF q.verb = "approve"
               THEN Transition(q.id, "APPROVED", [table[q.id] EXCEPT !.approved_by = Operator], out)
               ELSE Transition(q.id, "REJECTED", [table[q.id] EXCEPT !.rejected_by = Operator], out)
          /\ posts' = [posts EXCEPT ![p].stage = IF out = "ok" THEN "ok" ELSE "failed"]
     /\ UNCHANGED <<board, cards, polling, loads, drawer, details, succeeded>>

\* Mutant: the board is left as it is after a decision.
ActedWithoutReload(p) ==
  /\ posts[p].stage = "ok"
  /\ drawer' = Closed
  /\ board' = "list"
  /\ posts' = [q \in Post |-> IF q = p THEN NoPost ELSE [posts[q] EXCEPT !.box = "none"]]
  /\ succeeded' = [succeeded EXCEPT ![posts[p].id] = Append(@, posts[p].verb)]
  /\ UNCHANGED <<storeVars, faults, cards, polling, loads, details>>

\* act goes on after success: closePanel, whatever it shows, and a reload soon.
Acted(p) ==
  /\ posts[p].stage = "ok"
  /\ drawer' = Closed
  /\ board' = "list"
  /\ posts' = [q \in Post |-> IF q = p THEN NoPost ELSE [posts[q] EXCEPT !.box = "none"]]
  /\ polling' = [polling EXCEPT !.reload = TRUE]
  /\ succeeded' = [succeeded EXCEPT ![posts[p].id] = Append(@, posts[p].verb)]
  /\ UNCHANGED <<storeVars, faults, cards, loads, details>>

\* act's catch: the buttons of its box are enabled again.
ActFailed(p) ==
  /\ posts[p].stage = "failed"
  /\ posts' = [posts EXCEPT ![p] = NoPost]
  /\ UNCHANGED <<storeVars, faults, board, cards, polling, loads, drawer, details, succeeded>>

-----------------------------------------------------------------------------
\* The pipeline and the other operators.
Others ==
  /\ \E i \in Incident, m \in Moves :
       m[1] = table[i].status /\ Transition(i, m[2], table[i], "ok")
  /\ UNCHANGED pageVars

CatchUp(i) == Propagate(i) /\ UNCHANGED <<faults, pageVars>>

DashNext ==
  \/ Refresh \/ AutoChanged \/ Fire \/ ClosePanel \/ Guide \/ Others
  \/ Serve \/ LoadFailed \/ \E list \in Lists : Arrive(list)
  \/ \E i \in Incident : OpenPanel(i) \/ Detail(i) \/ CatchUp(i)
  \/ \E i \in Incident, verb \in Verb, box \in {"board", "panel"} : Act(i, verb, box)
  \/ \E p \in Post : Decide(p) \/ Acted(p) \/ ActFailed(p)

DashSpec == DashInit /\ [][DashNext]_vars

\* Timers fire, requests end and the replica catches up; what the operator and
\* the others do is theirs.
DashFair ==
  /\ WF_vars(Fire)
  /\ WF_vars(Serve)
  /\ \A list \in Lists : WF_vars(Arrive(list))
  /\ \A i \in Incident : WF_vars(CatchUp(i))
  /\ \A p \in Post : WF_vars(Decide(p) \/ Acted(p) \/ ActFailed(p))

FairDashSpec == DashSpec /\ DashFair

-----------------------------------------------------------------------------
\* Types; and no timer runs without auto-refresh.
DashTypeOK ==
  /\ StoreTypeOK /\ FaultsTypeOK
  /\ board \in {"empty", "loading", "list", "error"}
  /\ cards \in [Incident -> Shown]
  /\ polling \in [auto : BOOLEAN, timer : BOOLEAN, reload : BOOLEAN, asked : BOOLEAN]
  /\ polling.timer => polling.auto
  /\ loads \in [sent : 0..MaxLoads, lists : SUBSET Lists]
  /\ drawer \in [panel : BOOLEAN, guide : BOOLEAN, scrim : BOOLEAN, status : Shown,
                 selected : Incident \cup {NoIncident}, shown : Incident \cup {NoIncident},
                 trace : Incident \cup {NoIncident}]
  /\ details \subseteq Incident
  /\ posts \in [Post -> [stage : {"idle", "sent", "ok", "failed"}, id : Incident \cup {NoIncident},
                         verb : Verb, box : {"board", "panel", "none"}]]
  /\ succeeded \in [Incident -> Seq(Verb)]

\* "one drawer at a time", and the scrim "is only hidden once neither is open",
\* although the answer to a decision closes the panel behind the operator's
\* back; the card marked as selected is the one the panel shows.
DrawersAgree ==
  /\ ~ (drawer.panel /\ drawer.guide)
  /\ drawer.scrim = (drawer.panel \/ drawer.guide)
  /\ drawer.panel => drawer.selected = drawer.shown

\* What holds of the page at any moment: the types, and that the drawers agree.
DashInv == DashTypeOK /\ DrawersAgree

\* However often the buttons are drawn anew under a request and pressed again,
\* an incident is decided here once, and a decision reported as made is the
\* one on record.
SuccessIsDecision ==
  \A i \in Incident :
     /\ Len(succeeded[i]) <= 1
     /\ succeeded[i] = <<"approve">> => table[i].approved_by = Operator /\ table[i].rejected_by = Nobody
     /\ succeeded[i] = <<"reject">> => table[i].rejected_by = Operator /\ table[i].approved_by = Nobody

\* Auto-refresh is on, and neither is a timer set nor a load under way.
Unattended == polling.auto /\ polling.asked /\ ~polling.timer /\ Loading = 0

\* With auto-refresh on ("the board updates itself") nothing but an error ends
\* the polling: no step leaves the page unattended, however the box was switched
\* under a request, but one that shows an error ("do not poll into a bad token
\* forever").
PollingGoesOn == [][Unattended' => Unattended \/ board' = "error"]_vars

\* A late answer may bring an older board, and a lagging replica one that is
\* older still, but with auto-refresh on ("the board updates itself") the page
\* ends up showing the table.
BoardCatchesUp ==
  <>[](polling.auto /\ polling.asked) =>
     <>[](board # "error" /\ \A i \in Incident : cards[i] = table[i].status)

\* A decision made here, and known to every copy of the table by the time the
\* page learns of it, comes to be shown, with auto-refresh off too, unless the
\* load behind it fails and shows its error.  (It need not stay: an older load
\* may still arrive, and closing a panel draws the old list over the error.)
DecisionIsShown ==
  \A i \in Incident :
     (\E p \in Post : posts[p].id = i /\ posts[p].stage = "ok" /\ i \notin Lagging)
        ~> cards[i] # "PENDING_APPROVAL" \/ board = "error"

\* "the view an operator uses to check the agent's reasoning before approving":
\* the investigation shown in the panel is that of the incident shown.
TraceIsOfShownIncident ==
  drawer.panel => drawer.trace \in {NoIncident, drawer.shown}
=============================================================================
