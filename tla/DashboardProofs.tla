--------------------------- MODULE DashboardProofs ---------------------------
(***************************************************************************)
(* The operator's page, proved for any number of incidents, overlapping    *)
(* loads and decisions under way: the drawers agree, polling goes on, and  *)
(* a decision reported as made was made once and is on record.             *)
(***************************************************************************)
EXTENDS Dashboard, FiniteSetTheorems, TLAPS

-----------------------------------------------------------------------------
(* The invariant *)

Undecided == {"NEW", "INVESTIGATING", "PENDING_APPROVAL"}

\* This is what became of incident i, and nobody will decide on it again.
Decided(i, verb) ==
  /\ table[i].status \notin Undecided
  /\ verb = "approve" => table[i].approved_by = Operator /\ table[i].rejected_by = Nobody
  /\ verb = "reject" => table[i].rejected_by = Operator /\ table[i].approved_by = Nobody

\* Nobody's name is on an incident before it is decided on.
UndecidedIsBlank ==
  \A i \in Incident : table[i].status \in Undecided =>
     table[i].approved_by = Nobody /\ table[i].rejected_by = Nobody

\* A request is about an incident; one answered with success is the only such
\* request about it, no earlier one was reported, and its decision was made.
AnswersAreDecisions ==
  /\ \A p \in Post : posts[p].stage # "idle" => posts[p].id \in Incident
  /\ \A p \in Post : posts[p].stage = "ok" =>
        Decided(posts[p].id, posts[p].verb) /\ succeeded[posts[p].id] = <<>>
  /\ \A p, q \in Post :
        posts[p].stage = "ok" /\ posts[q].stage = "ok" /\ posts[p].id = posts[q].id => p = q

\* What was reported is at most one decision, and it was made.
ReportsAreDecisions ==
  \A i \in Incident :
     succeeded[i] = <<>> \/ \E verb \in Verb : succeeded[i] = <<verb>> /\ Decided(i, verb)

\* The polling goes on, after an error too: load's catch schedules like its
\* success.
StillPolls == polling.auto /\ polling.asked => polling.timer \/ Loading > 0

\* The inductive invariant of the page.
DashIInv ==
  /\ DashTypeOK
  /\ DrawersAgree
  /\ IsFiniteSet(loads.lists)
  /\ StillPolls
  /\ UndecidedIsBlank
  /\ AnswersAreDecisions
  /\ ReportsAreDecisions

-----------------------------------------------------------------------------
(* Parts of the page *)

Drawer == [panel : BOOLEAN, guide : BOOLEAN, scrim : BOOLEAN, status : Shown,
           selected : Incident \cup {NoIncident}, shown : Incident \cup {NoIncident},
           trace : Incident \cup {NoIncident}]

Request == [stage : {"idle", "sent", "ok", "failed"}, id : Incident \cup {NoIncident},
            verb : Verb, box : {"board", "panel", "none"}]

Polling == [auto : BOOLEAN, timer : BOOLEAN, reload : BOOLEAN, asked : BOOLEAN]

Agree(d) == /\ ~ (d.panel /\ d.guide)
            /\ d.scrim = (d.panel \/ d.guide)
            /\ d.panel => d.selected = d.shown

\* The drawers as a handler leaves them.
LEMMA SyncedAgrees ==
  ASSUME NEW d \in Drawer, ~ (d.panel /\ d.guide), d.panel => d.selected = d.shown
  PROVE  Synced(d) \in Drawer /\ Agree(Synced(d))
BY DEF Drawer, Synced, Agree

LEMMA ClosedAgrees ==
  ASSUME drawer \in Drawer
  PROVE  Closed \in Drawer /\ Agree(Closed)
<1>. DEFINE d == [NoDrawer EXCEPT !.guide = drawer.guide]
<1>1. d \in Drawer /\ ~d.panel BY DEF Drawer, NoDrawer, Shown
<1>. HIDE DEF d
<1>2. Synced(d) \in Drawer /\ Agree(Synced(d)) BY <1>1, SyncedAgrees
<1>. QED BY <1>2 DEF Closed, d

\* The loads under way: none when nothing is sent and no list is on its way.
LEMMA LoadingCounts ==
  ASSUME NEW s \in Nat, NEW l, IsFiniteSet(l)
  PROVE  s + Cardinality(l) \in Nat /\ (s + Cardinality(l) > 0 <=> s > 0 \/ l # {})
BY FS_CardinalityType, FS_EmptySet

\* Drawing a box leaves every request as it was, but for its box.
SameRequests == \A p \in Post : /\ posts'[p].stage = posts[p].stage
                                /\ posts'[p].id = posts[p].id
                                /\ posts'[p].verb = posts[p].verb

LEMMA DrawnKeeps ==
  ASSUME posts \in [Post -> Request],
         \/ \E box : posts' = Drawn(box)
         \/ posts' = [p \in Post |-> [posts[p] EXCEPT !.box = "none"]]
  PROVE  posts' \in [Post -> Request] /\ SameRequests
<1>1. CASE \E box : posts' = Drawn(box)
  <2>1. PICK box : posts' = Drawn(box) BY <1>1
  <2>2. posts' = [p \in Post |->
                   [posts[p] EXCEPT !.box = IF posts[p].box = box THEN "none" ELSE posts[p].box]]
    BY <2>1 DEF Drawn
  <2>3. ASSUME NEW p \in Post
        PROVE  /\ posts'[p] \in Request /\ posts'[p].stage = posts[p].stage
               /\ posts'[p].id = posts[p].id /\ posts'[p].verb = posts[p].verb
    <3>. DEFINE b == IF posts[p].box = box THEN "none" ELSE posts[p].box
    <3>1. posts[p] \in Request OBVIOUS
    <3>2. posts'[p] = [posts[p] EXCEPT !.box = b] BY <2>2
    <3>3. b \in {"board", "panel", "none"} BY <3>1 DEF Request
    <3>. HIDE DEF b
    <3>. QED BY <3>1, <3>2, <3>3 DEF Request
  <2>4. posts' = [p \in Post |-> posts'[p]] BY <2>2
  <2>. HIDE DEF Drawn
  <2>. QED BY <2>3, <2>4 DEF SameRequests
<1>2. CASE posts' = [p \in Post |-> [posts[p] EXCEPT !.box = "none"]]
  BY <1>2 DEF SameRequests, Request
<1>. QED BY <1>1, <1>2

\* Then nothing is decided and nothing reported.
LEMMA SameRequestsKeep ==
  ASSUME UndecidedIsBlank, AnswersAreDecisions, ReportsAreDecisions, SameRequests,
         UNCHANGED <<table, succeeded>>
  PROVE  UndecidedIsBlank' /\ AnswersAreDecisions' /\ ReportsAreDecisions'
BY DEF SameRequests, UndecidedIsBlank, AnswersAreDecisions, ReportsAreDecisions, Decided

\* The type invariant, by the names above.
LEMMA DashTypes ==
  DashTypeOK <=>
    /\ StoreTypeOK /\ FaultsTypeOK
    /\ board \in {"empty", "loading", "list", "error"}
    /\ cards \in Lists
    /\ polling \in Polling /\ (polling.timer => polling.auto)
    /\ loads \in [sent : 0..MaxLoads, lists : SUBSET Lists]
    /\ drawer \in Drawer /\ details \subseteq Incident
    /\ posts \in [Post -> Request]
    /\ succeeded \in [Incident -> Seq(Verb)]
BY DEF DashTypeOK, Lists, Polling, Drawer, Request

LEMMA DrawersAgreeIs == DrawersAgree <=> Agree(drawer)
BY DEF DrawersAgree, Agree

LEMMA DashStarts == DashInit => DashIInv
<1>. SUFFICES ASSUME DashInit PROVE DashIInv OBVIOUS
<1>1. PICK known, auto \in BOOLEAN :
        /\ board = IF known THEN "loading" ELSE "empty"
        /\ polling = [auto |-> auto, timer |-> FALSE, reload |-> FALSE, asked |-> known]
        /\ loads = [sent |-> IF known THEN 1 ELSE 0, lists |-> {}]
        /\ drawer = [NoDrawer EXCEPT !.guide = ~known, !.scrim = ~known]
  BY DEF DashInit
<1>2. \A i \in Incident : /\ table[i] \in Item
                          /\ table[i].approved_by = Nobody /\ table[i].rejected_by = Nobody
  <2>. TAKE i \in Incident
  <2>1. PICK s \in {"INVESTIGATING", "PENDING_APPROVAL"} : table[i] = [NewItem EXCEPT !.status = s]
    BY DEF DashInit
  <2>2. NewItem \in Item BY DEF NewItem, Missing, Item, Status, NoResult, Result
  <2>3. NewItem.approved_by = Nobody /\ NewItem.rejected_by = Nobody BY DEF NewItem, Missing
  <2>. HIDE DEF NewItem
  <2>. QED BY <2>1, <2>2, <2>3 DEF Item, Status
<1>3. StoreTypeOK /\ FaultsTypeOK
  <2>1. \A S : table \in [Incident -> S] => table \in [Incident -> Item] BY <1>2
  <2>2. table \in [Incident -> Item] BY <2>1 DEF DashInit
  <2>3. faults \in 0..MaxFaults BY FaultsAssumption DEF DashInit
  <2>. QED BY <2>2, <2>3 DEF DashInit, StoreTypeOK, FaultsTypeOK
<1>4. drawer \in Drawer /\ Agree(drawer)
  BY <1>1 DEF Drawer, NoDrawer, Agree, Shown
<1>5. NoPost \in Request /\ NoPost.stage = "idle" BY DEF NoPost, Request, Verb
<1>6. posts \in [Post -> Request] /\ \A p \in Post : posts[p].stage = "idle"
  BY <1>5 DEF DashInit
<1>7. cards \in Lists BY DEF DashInit, Lists, Shown
<1>8. loads \in [sent : 0..MaxLoads, lists : SUBSET Lists] /\ polling \in Polling
  BY <1>1, DashboardAssumption DEF Polling
<1>9. succeeded \in [Incident -> Seq(Verb)] /\ \A i \in Incident : succeeded[i] = <<>>
  BY DEF DashInit
<1>10. DashTypeOK
  BY <1>1, <1>3, <1>4, <1>6, <1>7, <1>8, <1>9, DashTypes DEF DashInit
<1>11. IsFiniteSet(loads.lists) /\ StillPolls
  BY <1>1, FS_EmptySet DEF StillPolls, Loading
<1>12. UndecidedIsBlank /\ AnswersAreDecisions /\ ReportsAreDecisions
  BY <1>2, <1>6, <1>9 DEF UndecidedIsBlank, AnswersAreDecisions, ReportsAreDecisions
<1>. QED BY <1>4, <1>10, <1>11, <1>12, DrawersAgreeIs DEF DashIInv

-----------------------------------------------------------------------------
(* The table *)

LEMMA TransitionMoves ==
  ASSUME StoreTypeOK, FaultsTypeOK, NEW i \in Incident, NEW to \in Status, NEW item \in Item,
         NEW out, Transition(i, to, item, out)
  PROVE  /\ StoreTypeOK' /\ FaultsTypeOK'
         /\ out \in Outcome
         /\ \/ UNCHANGED table /\ out # "ok"
            \/ /\ <<table[i].status, to>> \in ALLOWED_TRANSITIONS
               /\ table'[i].status = to
               /\ table'[i].approved_by = item.approved_by
               /\ table'[i].rejected_by = item.rejected_by
               /\ \A j \in Incident : j # i => table'[j] = table[j]
<1>. DEFINE new == [item EXCEPT !.status = to]
<1>1. /\ new \in Item /\ new.status = to
      /\ new.approved_by = item.approved_by /\ new.rejected_by = item.rejected_by
  BY DEF Item
<1>. HIDE DEF new
<1>2. FaultsTypeOK' BY FaultsAssumption DEF Transition, FaultsTypeOK, NoFault, Fault
<1>3. replica' = replica /\ out \in Outcome /\ ((UNCHANGED table /\ out # "ok") \/ Move(i, to, item))
  BY DEF Transition, Outcome
<1>4. CASE UNCHANGED table /\ out # "ok" BY <1>2, <1>3, <1>4 DEF StoreTypeOK
<1>5. CASE Move(i, to, item)
  <2>1. table' = [table EXCEPT ![i] = new] BY <1>5 DEF Move, new
  <2>2. <<table[i].status, to>> \in ALLOWED_TRANSITIONS BY <1>5 DEF Move, LegalFrom
  <2>3. table'[i] = new /\ \A j \in Incident : j # i => table'[j] = table[j]
    BY <2>1 DEF StoreTypeOK
  <2>4. StoreTypeOK' BY <1>1, <1>3, <2>1 DEF StoreTypeOK
  <2>. QED BY <1>1, <1>2, <1>3, <2>2, <2>3, <2>4
<1>. QED BY <1>3, <1>4, <1>5

LEMMA NoWayBack ==
  ASSUME NEW from, NEW to, <<from, to>> \in ALLOWED_TRANSITIONS
  PROVE  /\ to \in Status
         /\ to \in Undecided => from \in Undecided
         /\ to \in {"APPROVED", "REJECTED"} => from = "PENDING_APPROVAL" /\ to \notin Undecided
BY DEF ALLOWED_TRANSITIONS, Undecided, Status

\* The names and the status are all a decision is.
LEMMA StandingDecided ==
  ASSUME NEW i \in Incident, NEW verb, Decided(i, verb),
         table'[i].status \notin Undecided,
         table'[i].approved_by = table[i].approved_by, table'[i].rejected_by = table[i].rejected_by
  PROVE  Decided(i, verb)'
BY DEF Decided

-----------------------------------------------------------------------------
(* The handlers that decide nothing *)

\* Types, drawers and polling.
PageOK == DashTypeOK /\ DrawersAgree /\ IsFiniteSet(loads.lists) /\ StillPolls

\* A request leaves.
LEMMA SendCounts ==
  ASSUME PageOK, Send
  PROVE  /\ loads' \in [sent : 0..MaxLoads, lists : SUBSET Lists]
         /\ IsFiniteSet(loads'.lists)
         /\ loads'.sent \in Nat
         /\ loads'.sent + Cardinality(loads'.lists) > 0
<1>1. loads \in [sent : 0..MaxLoads, lists : SUBSET Lists] /\ IsFiniteSet(loads.lists)
  BY DashTypes DEF PageOK
<1>2. loads.sent \in Nat /\ MaxLoads \in Nat BY <1>1, DashboardAssumption
<1>3. Cardinality(loads.lists) \in Nat BY <1>1, FS_CardinalityType
<1>4. loads.sent < MaxLoads BY <1>2, <1>3 DEF Send, Loading
<1>5. loads'.sent = loads.sent + 1 /\ loads'.lists = loads.lists
      /\ loads' = [sent |-> loads.sent + 1, lists |-> loads.lists]
  BY <1>1 DEF Send
<1>. QED BY <1>1, <1>2, <1>3, <1>4, <1>5

\* A request ends, by a list that is made, that arrives, or that is lost.
LEMMA LoadEnds ==
  ASSUME PageOK, StoreTypeOK, NEW old,
         \/ /\ loads.sent > 0
            /\ \/ loads' = [loads EXCEPT !.sent = @ - 1]
               \/ loads' = [sent |-> loads.sent - 1,
                            lists |-> loads.lists \cup {[i \in Incident |-> Copy(i, old).status]}]
         \/ \E list \in loads.lists : loads' = [loads EXCEPT !.lists = @ \ {list}]
  PROVE  /\ loads' \in [sent : 0..MaxLoads, lists : SUBSET Lists]
         /\ IsFiniteSet(loads'.lists)
<1>1. loads \in [sent : 0..MaxLoads, lists : SUBSET Lists] /\ IsFiniteSet(loads.lists)
  BY DashTypes DEF PageOK
<1>. DEFINE now == [i \in Incident |-> Copy(i, old).status]
<1>2. now \in Lists BY DEF StoreTypeOK, Item, Lists, Shown, Copy
<1>. HIDE DEF now
<1>3. CASE loads.sent > 0 /\ loads' = [loads EXCEPT !.sent = @ - 1]
  BY <1>1, <1>3, DashboardAssumption
<1>4. CASE loads.sent > 0 /\ loads' = [sent |-> loads.sent - 1, lists |-> loads.lists \cup {now}]
  <2>1. loads.sent - 1 \in 0..MaxLoads BY <1>1, <1>4, DashboardAssumption
  <2>. QED BY <1>1, <1>2, <1>4, <2>1, FS_AddElement
<1>5. ASSUME NEW list \in loads.lists, loads' = [loads EXCEPT !.lists = @ \ {list}]
      PROVE  /\ loads' \in [sent : 0..MaxLoads, lists : SUBSET Lists]
             /\ IsFiniteSet(loads'.lists)
  BY <1>1, <1>5, FS_RemoveElement
<1>. QED BY <1>3, <1>4, <1>5 DEF now

\* With a timer set, or a load under way, the polling goes on.
LEMMA StillPolling ==
  ASSUME loads'.sent \in Nat, IsFiniteSet(loads'.lists),
         polling'.auto /\ polling'.asked =>
            polling'.timer \/ loads'.sent + Cardinality(loads'.lists) > 0
  PROVE  StillPolls'
BY DEF StillPolls, Loading

\* What a handler that decides nothing has to establish.
LEMMA HandlerKeeps ==
  ASSUME DashIInv, UNCHANGED <<table, replica, succeeded>>,
         NoFault \/ Fault,
         board' \in {"empty", "loading", "list", "error"},
         cards' \in Lists,
         polling' \in Polling, polling'.timer => polling'.auto,
         loads' \in [sent : 0..MaxLoads, lists : SUBSET Lists], IsFiniteSet(loads'.lists),
         polling'.auto /\ polling'.asked =>
            polling'.timer \/ loads'.sent + Cardinality(loads'.lists) > 0,
         drawer' \in Drawer, Agree(drawer'),
         details' \subseteq Incident,
         \/ UNCHANGED posts
         \/ \E box : posts' = Drawn(box)
         \/ posts' = [p \in Post |-> [posts[p] EXCEPT !.box = "none"]]
  PROVE  DashIInv'
<1>1. posts \in [Post -> Request] /\ StoreTypeOK /\ FaultsTypeOK /\ succeeded \in [Incident -> Seq(Verb)]
  BY DashTypes DEF DashIInv
<1>2. posts' \in [Post -> Request] /\ SameRequests
  BY <1>1, DrawnKeeps DEF SameRequests
<1>3. UndecidedIsBlank' /\ AnswersAreDecisions' /\ ReportsAreDecisions'
  BY <1>2, SameRequestsKeep DEF DashIInv
<1>4. FaultsTypeOK' BY <1>1, FaultsAssumption DEF FaultsTypeOK, NoFault, Fault
<1>5. StoreTypeOK' BY <1>1 DEF StoreTypeOK
<1>6. DashTypeOK'
  BY <1>1, <1>2, <1>4, <1>5 DEF DashTypeOK, Lists, Polling, Drawer, Request
<1>7. DrawersAgree' BY DEF DrawersAgree, Agree
<1>8. loads'.sent \in Nat BY DashboardAssumption
<1>9. StillPolls' BY <1>8, StillPolling
<1>. QED BY <1>3, <1>6, <1>7, <1>9 DEF DashIInv

LEMMA HandlersKeep ==
  ASSUME DashIInv,
         \/ Refresh \/ AutoChanged \/ Fire \/ ClosePanel \/ Guide \/ Serve \/ LoadFailed
         \/ \E list \in Lists : Arrive(list)
         \/ \E i \in Incident : OpenPanel(i) \/ Detail(i)
  PROVE  DashIInv'
<1>1. /\ StoreTypeOK
      /\ board \in {"empty", "loading", "list", "error"} /\ cards \in Lists
      /\ polling \in Polling /\ (polling.timer => polling.auto)
      /\ loads \in [sent : 0..MaxLoads, lists : SUBSET Lists] /\ IsFiniteSet(loads.lists)
      /\ loads.sent \in Nat
      /\ drawer \in Drawer /\ Agree(drawer) /\ details \subseteq Incident
      /\ polling.auto /\ polling.asked =>
            polling.timer \/ loads.sent + Cardinality(loads.lists) > 0
      /\ PageOK
  BY DashTypes, DrawersAgreeIs, DashboardAssumption DEF DashIInv, PageOK, StillPolls, Loading
<1>2. CASE Refresh
  <2>1. polling' \in Polling /\ polling'.timer = polling.timer /\ polling'.auto = polling.auto
    BY <1>1, <1>2 DEF Refresh, Polling
  <2>. QED BY <1>1, <1>2, <2>1, SendCounts, HandlerKeeps DEF Refresh, NoFault, storeVars
<1>3. CASE AutoChanged
  <2>1. /\ \/ /\ polling' = [polling EXCEPT !.auto = FALSE, !.timer = FALSE]
              /\ UNCHANGED loads
           \/ polling' = [polling EXCEPT !.auto = TRUE, !.asked = TRUE] /\ Send
        /\ UNCHANGED <<storeVars, faults, board, cards, drawer, details, posts, succeeded>>
    BY <1>3 DEF AutoChanged
  <2>2. CASE polling' = [polling EXCEPT !.auto = FALSE, !.timer = FALSE] /\ UNCHANGED loads
    <3>1. polling' \in Polling /\ ~polling'.auto /\ ~polling'.timer BY <1>1, <2>2 DEF Polling
    <3>. QED BY <1>1, <2>1, <2>2, <3>1, HandlerKeeps DEF NoFault, storeVars
  <2>3. CASE polling' = [polling EXCEPT !.auto = TRUE, !.asked = TRUE] /\ Send
    <3>1. polling' \in Polling /\ (polling'.timer => polling'.auto) BY <1>1, <2>3 DEF Polling
    <3>. QED BY <1>1, <2>1, <2>3, <3>1, SendCounts, HandlerKeeps DEF NoFault, storeVars
  <2>. QED BY <2>1, <2>2, <2>3
<1>4. CASE Fire
  <2>1. polling' \in Polling /\ (polling'.timer => polling'.auto)
    BY <1>1, <1>4 DEF Fire, Polling
  <2>. QED BY <1>1, <1>4, <2>1, SendCounts, HandlerKeeps DEF Fire, NoFault, storeVars
<1>5. CASE ClosePanel
  BY <1>1, <1>5, ClosedAgrees, HandlerKeeps DEF ClosePanel, NoFault, storeVars
<1>6. CASE Guide
  <2>. DEFINE d == [NoDrawer EXCEPT !.guide = ~drawer.guide, !.selected = drawer.selected]
  <2>1. d \in Drawer /\ ~d.panel BY <1>1 DEF Drawer, NoDrawer, Shown
  <2>2. drawer' = Synced(d) BY <1>6 DEF Guide
  <2>. HIDE DEF d
  <2>3. drawer' \in Drawer /\ Agree(drawer') BY <2>1, <2>2, SyncedAgrees
  <2>. QED BY <1>1, <1>6, <2>3, HandlerKeeps DEF Guide, NoFault, storeVars
<1>7. CASE Serve
  <2>1. /\ loads' \in [sent : 0..MaxLoads, lists : SUBSET Lists] /\ IsFiniteSet(loads'.lists)
        /\ loads'.sent \in Nat /\ loads'.lists # {}
    <3>0. PICK old \in SUBSET Lagging :
            loads' = [sent |-> loads.sent - 1,
                      lists |-> loads.lists \cup {[i \in Incident |-> Copy(i, old).status]}]
      BY <1>7 DEF Serve
    <3>. DEFINE now == [i \in Incident |-> Copy(i, old).status]
    <3>1. loads' = [sent |-> loads.sent - 1, lists |-> loads.lists \cup {now}] /\ loads.sent > 0
      BY <1>7, <3>0 DEF Serve
    <3>2. loads' \in [sent : 0..MaxLoads, lists : SUBSET Lists] /\ IsFiniteSet(loads'.lists)
      BY <1>1, <3>1, LoadEnds
    <3>. HIDE DEF now
    <3>3. loads'.sent \in Nat /\ loads'.lists # {} BY <1>1, <3>1
    <3>. QED BY <3>2, <3>3
  <2>. QED BY <1>1, <1>7, <2>1, LoadingCounts, HandlerKeeps DEF Serve, NoFault, storeVars
<1>8. CASE LoadFailed
  <2>1. loads' \in [sent : 0..MaxLoads, lists : SUBSET Lists] /\ IsFiniteSet(loads'.lists)
    BY <1>1, <1>8, LoadEnds DEF LoadFailed
  <2>2. polling' \in Polling /\ polling'.timer = polling'.auto
    BY <1>1, <1>8 DEF LoadFailed, Schedule, Polling
  <2>. QED BY <1>1, <1>8, <2>1, <2>2, HandlerKeeps DEF LoadFailed, storeVars
<1>9. ASSUME NEW list \in Lists, Arrive(list) PROVE DashIInv'
  <2>1. loads' \in [sent : 0..MaxLoads, lists : SUBSET Lists] /\ IsFiniteSet(loads'.lists)
    BY <1>1, <1>9, LoadEnds DEF Arrive
  <2>2. polling' \in Polling /\ polling'.timer = polling'.auto
    BY <1>1, <1>9 DEF Arrive, Schedule, Polling
  <2>. QED BY <1>1, <1>9, <2>1, <2>2, HandlerKeeps DEF Arrive, NoFault, storeVars
<1>10. ASSUME NEW i \in Incident, OpenPanel(i) PROVE DashIInv'
  <2>. DEFINE d == [drawer EXCEPT !.selected = i, !.guide = FALSE, !.panel = TRUE, !.shown = i,
                                  !.status = cards[i], !.trace = NoIncident]
  <2>1. d \in Drawer /\ ~d.guide /\ d.selected = d.shown BY <1>1 DEF Drawer, Lists
  <2>2. drawer' = Synced(d) /\ details' \subseteq Incident BY <1>1, <1>10 DEF OpenPanel
  <2>. HIDE DEF d
  <2>3. drawer' \in Drawer /\ Agree(drawer') BY <2>1, <2>2, SyncedAgrees
  <2>. QED BY <1>1, <1>10, <2>2, <2>3, HandlerKeeps DEF OpenPanel, NoFault, storeVars
<1>11. ASSUME NEW i \in Incident, Detail(i) PROVE DashIInv'
  <2>1. \E t \in Incident \cup {NoIncident} : drawer' = [drawer EXCEPT !.trace = t]
    <3>1. drawer.trace \in Incident \cup {NoIncident} BY <1>1 DEF Drawer
    <3>. QED BY <1>11, <3>1 DEF Detail
  <2>2. drawer' \in Drawer /\ Agree(drawer') BY <1>1, <2>1 DEF Drawer, Agree
  <2>. QED BY <1>1, <1>11, <2>2, HandlerKeeps DEF Detail, storeVars
<1>. QED BY <1>2, <1>3, <1>4, <1>5, <1>6, <1>7, <1>8, <1>9, <1>10, <1>11

-----------------------------------------------------------------------------
(* The handlers that decide *)

\* What they leave alone, and what they have to establish.
LEMMA DeciderKeeps ==
  ASSUME DashIInv, UNCHANGED <<cards, loads, details>>,
         StoreTypeOK', FaultsTypeOK',
         board' \in {"empty", "loading", "list", "error"},
         UNCHANGED polling \/ polling' = [polling EXCEPT !.reload = TRUE],
         UNCHANGED drawer \/ drawer' = Closed,
         posts' \in [Post -> Request],
         succeeded' \in [Incident -> Seq(Verb)],
         UndecidedIsBlank', AnswersAreDecisions', ReportsAreDecisions'
  PROVE  DashIInv'
<1>1. /\ cards \in Lists /\ polling \in Polling /\ (polling.timer => polling.auto)
      /\ loads \in [sent : 0..MaxLoads, lists : SUBSET Lists] /\ IsFiniteSet(loads.lists)
      /\ drawer \in Drawer /\ Agree(drawer) /\ details \subseteq Incident
      /\ StillPolls
  BY DashTypes, DrawersAgreeIs DEF DashIInv
<1>2. /\ polling' \in Polling /\ (polling'.timer => polling'.auto)
      /\ polling'.auto = polling.auto /\ polling'.asked = polling.asked
      /\ polling'.timer = polling.timer
  BY <1>1 DEF Polling
<1>3. drawer' \in Drawer /\ Agree(drawer') BY <1>1, ClosedAgrees
<1>4. DashTypeOK' BY <1>1, <1>2, <1>3 DEF DashTypeOK, Lists, Polling, Drawer, Request
<1>5. DrawersAgree' BY <1>3 DEF DrawersAgree, Agree
<1>6. StillPolls' BY <1>1, <1>2 DEF StillPolls, Loading
<1>. QED BY <1>1, <1>4, <1>5, <1>6 DEF DashIInv

LEMMA DecisionFacts ==
  ASSUME DashIInv
  PROVE  /\ StoreTypeOK /\ FaultsTypeOK
         /\ table \in [Incident -> Item]
         /\ board \in {"empty", "loading", "list", "error"}
         /\ posts \in [Post -> Request]
         /\ succeeded \in [Incident -> Seq(Verb)]
         /\ UndecidedIsBlank /\ AnswersAreDecisions /\ ReportsAreDecisions
BY DashTypes DEF DashIInv, StoreTypeOK

LEMMA ActKeeps ==
  ASSUME DashIInv, NEW i \in Incident, NEW verb \in Verb, NEW box \in {"board", "panel"},
         Act(i, verb, box)
  PROVE  DashIInv'
<1>. DEFINE r == [stage |-> "sent", id |-> i, verb |-> verb, box |-> box]
<1>1. PICK p \in Post : posts' = [posts EXCEPT ![p] = r] BY DEF Act
<1>2. UNCHANGED <<storeVars, faults, board, cards, polling, loads, drawer, details, succeeded>>
  BY DEF Act
<1>3. r \in Request /\ r.stage = "sent" /\ r.id = i BY DEF Request
<1>. HIDE DEF r
<1>4. /\ posts' \in [Post -> Request] /\ posts'[p] = r
      /\ \A q \in Post : q # p => posts'[q] = posts[q]
  BY <1>1, <1>3, DecisionFacts
<1>5. UndecidedIsBlank' /\ ReportsAreDecisions'
  BY <1>2, DecisionFacts DEF UndecidedIsBlank, ReportsAreDecisions, Decided, storeVars
<1>6. AnswersAreDecisions'
  <2>1. table' = table /\ succeeded' = succeeded BY <1>2 DEF storeVars
  <2>2. /\ \A q \in Post : posts'[q].stage = "ok" => posts'[q] = posts[q]
        /\ \A q \in Post : posts'[q].stage # "idle" => posts'[q].id \in Incident
    BY <1>3, <1>4, DecisionFacts DEF AnswersAreDecisions
  <2>. QED BY <2>1, <2>2, DecisionFacts DEF AnswersAreDecisions, Decided
<1>7. StoreTypeOK' /\ FaultsTypeOK'
  BY <1>2, DecisionFacts DEF StoreTypeOK, FaultsTypeOK, storeVars
<1>. QED BY <1>2, <1>4, <1>5, <1>6, <1>7, DecisionFacts, DeciderKeeps

LEMMA ActFailedKeeps ==
  ASSUME DashIInv, NEW p \in Post, ActFailed(p)
  PROVE  DashIInv'
<1>1. /\ posts' = [posts EXCEPT ![p] = NoPost]
      /\ UNCHANGED <<storeVars, faults, board, cards, polling, loads, drawer, details, succeeded>>
  BY DEF ActFailed
<1>2. NoPost \in Request /\ NoPost.stage = "idle" BY DEF NoPost, Request, Verb
<1>3. /\ posts' \in [Post -> Request] /\ posts'[p] = NoPost
      /\ \A q \in Post : q # p => posts'[q] = posts[q]
  BY <1>1, <1>2, DecisionFacts
<1>4. UndecidedIsBlank' /\ ReportsAreDecisions'
  BY <1>1, DecisionFacts DEF UndecidedIsBlank, ReportsAreDecisions, Decided, storeVars
<1>5. AnswersAreDecisions'
  BY <1>1, <1>2, <1>3, DecisionFacts DEF AnswersAreDecisions, Decided, storeVars
<1>6. StoreTypeOK' /\ FaultsTypeOK'
  BY <1>1, DecisionFacts DEF StoreTypeOK, FaultsTypeOK, storeVars
<1>. QED BY <1>1, <1>3, <1>4, <1>5, <1>6, DecisionFacts, DeciderKeeps

\* The success of a request is reported once, and clears the request.
LEMMA ActedKeeps ==
  ASSUME DashIInv, NEW p \in Post, Acted(p)
  PROVE  DashIInv'
<1>1. PICK i, verb : i = posts[p].id /\ verb = posts[p].verb OBVIOUS
<1>2. /\ posts[p].stage = "ok"
      /\ posts' = [q \in Post |-> IF q = p THEN NoPost ELSE [posts[q] EXCEPT !.box = "none"]]
      /\ succeeded' = [succeeded EXCEPT ![i] = Append(succeeded[i], verb)]
      /\ drawer' = Closed /\ board' = "list" /\ polling' = [polling EXCEPT !.reload = TRUE]
      /\ UNCHANGED <<storeVars, faults, cards, loads, details>>
  BY <1>1 DEF Acted
<1>3. /\ i \in Incident /\ verb \in Verb /\ succeeded[i] = <<>> /\ Decided(i, verb)
      /\ \A q \in Post : q # p /\ posts[q].stage = "ok" => posts[q].id # i
  BY <1>1, <1>2, DecisionFacts DEF AnswersAreDecisions, Request
<1>4. NoPost \in Request /\ NoPost.stage = "idle" BY DEF NoPost, Request, Verb
<1>5. /\ posts' \in [Post -> Request] /\ posts'[p].stage = "idle"
      /\ \A q \in Post : q # p => /\ posts'[q].stage = posts[q].stage
                                  /\ posts'[q].id = posts[q].id
                                  /\ posts'[q].verb = posts[q].verb
  <2>1. \A q \in Post : [posts[q] EXCEPT !.box = "none"] \in Request
    BY DecisionFacts DEF Request
  <2>2. posts' \in [Post -> Request] BY <1>2, <1>4, <2>1
  <2>. QED BY <1>2, <1>4, <2>2, DecisionFacts DEF Request
<1>6. /\ succeeded' \in [Incident -> Seq(Verb)]
      /\ succeeded'[i] = <<verb>>
      /\ \A j \in Incident : j # i => succeeded'[j] = succeeded[j]
  <2>1. Append(succeeded[i], verb) = <<verb>> /\ <<verb>> \in Seq(Verb) BY <1>3
  <2>. QED BY <1>2, <1>3, <2>1, DecisionFacts
<1>7. UndecidedIsBlank' BY <1>2, DecisionFacts DEF UndecidedIsBlank, storeVars
<1>8. AnswersAreDecisions'
  BY <1>2, <1>3, <1>5, <1>6, DecisionFacts DEF AnswersAreDecisions, Decided, storeVars
<1>9. ReportsAreDecisions'
  BY <1>2, <1>3, <1>6, DecisionFacts DEF ReportsAreDecisions, Decided, storeVars
<1>10. StoreTypeOK' /\ FaultsTypeOK'
  BY <1>2, DecisionFacts DEF StoreTypeOK, FaultsTypeOK, storeVars
<1>. QED BY <1>2, <1>5, <1>6, <1>7, <1>8, <1>9, <1>10, DeciderKeeps

\* The gate answers: the decision is made, now or never, and reported by this
\* request if by any.
LEMMA DecideKeeps ==
  ASSUME DashIInv, NEW p \in Post, Decide(p)
  PROVE  DashIInv'
<1>1. PICK i, verb : i = posts[p].id /\ verb = posts[p].verb OBVIOUS
<1>. DEFINE to   == IF verb = "approve" THEN "APPROVED" ELSE "REJECTED"
            item == IF verb = "approve" THEN [table[i] EXCEPT !.approved_by = Operator]
                                        ELSE [table[i] EXCEPT !.rejected_by = Operator]
<1>2. /\ i \in Incident /\ verb \in Verb /\ posts[p].stage = "sent" /\ table[i] \in Item
      /\ posts[p] \in Request
  BY <1>1, DecisionFacts DEF Decide, AnswersAreDecisions, Request
<1>3. PICK out \in Outcome :
        /\ Transition(i, to, item, out)
        /\ posts' = [posts EXCEPT ![p].stage = IF out = "ok" THEN "ok" ELSE "failed"]
  BY <1>1 DEF Decide
<1>4. UNCHANGED <<board, cards, polling, loads, drawer, details, succeeded>> BY DEF Decide
<1>5. /\ item \in Item
      /\ verb = "approve" => item.approved_by = Operator /\ item.rejected_by = table[i].rejected_by
      /\ verb = "reject" => item.rejected_by = Operator /\ item.approved_by = table[i].approved_by
  BY <1>2, DashboardAssumption DEF Item, Verb
<1>6. to \in {"APPROVED", "REJECTED"} /\ to \in Status BY DEF Status
<1>. HIDE DEF to, item
<1>7. /\ posts' \in [Post -> Request]
      /\ posts'[p].id = i /\ posts'[p].verb = verb
      /\ posts'[p].stage = (IF out = "ok" THEN "ok" ELSE "failed")
      /\ \A q \in Post : q # p => posts'[q] = posts[q]
  <2>. DEFINE r == [posts[p] EXCEPT !.stage = IF out = "ok" THEN "ok" ELSE "failed"]
  <2>1. /\ r \in Request /\ r.id = i /\ r.verb = verb
        /\ r.stage = (IF out = "ok" THEN "ok" ELSE "failed")
    BY <1>1, <1>2 DEF Request
  <2>2. posts' = [posts EXCEPT ![p] = r] BY <1>3
  <2>. HIDE DEF r
  <2>. QED BY <2>1, <2>2, DecisionFacts
<1>8. StoreTypeOK' /\ FaultsTypeOK' BY <1>2, <1>3, <1>5, <1>6, DecisionFacts, TransitionMoves
<1>9. CASE UNCHANGED table /\ out # "ok"
  <2>1. UndecidedIsBlank' /\ ReportsAreDecisions'
    BY <1>4, <1>9, DecisionFacts DEF UndecidedIsBlank, ReportsAreDecisions, Decided
  <2>2. posts'[p].stage = "failed" BY <1>7, <1>9
  <2>3. ASSUME NEW q \in Post, posts'[q].stage = "ok" PROVE q # p /\ posts'[q] = posts[q]
    BY <1>7, <2>2, <2>3
  <2>4. AnswersAreDecisions'
    <3>1. \A q \in Post : posts'[q].stage # "idle" => posts'[q].id \in Incident
      BY <1>2, <1>7, DecisionFacts DEF AnswersAreDecisions
    <3>2. ASSUME NEW q \in Post, posts'[q].stage = "ok"
          PROVE  \E j, v : /\ j \in Incident /\ posts'[q].id = j /\ posts'[q].verb = v
                           /\ Decided(j, v)' /\ succeeded'[j] = <<>>
      <4>1. PICK j, v : j = posts[q].id /\ v = posts[q].verb OBVIOUS
      <4>2. j \in Incident /\ Decided(j, v) /\ succeeded[j] = <<>>
        BY <2>3, <3>2, <4>1, DecisionFacts DEF AnswersAreDecisions
      <4>3. Decided(j, v)' BY <1>9, <4>2 DEF Decided
      <4>. QED BY <1>4, <2>3, <3>2, <4>1, <4>2, <4>3
    <3>3. \A q, r \in Post :
            posts'[q].stage = "ok" /\ posts'[r].stage = "ok" /\ posts'[q].id = posts'[r].id => q = r
      BY <2>3, DecisionFacts DEF AnswersAreDecisions
    <3>. QED BY <3>1, <3>2, <3>3 DEF AnswersAreDecisions, Decided
  <2>. QED BY <1>4, <1>7, <1>8, <2>1, <2>4, DecisionFacts, DeciderKeeps
<1>10. CASE /\ <<table[i].status, to>> \in ALLOWED_TRANSITIONS
            /\ table'[i].status = to
            /\ table'[i].approved_by = item.approved_by
            /\ table'[i].rejected_by = item.rejected_by
            /\ \A j \in Incident : j # i => table'[j] = table[j]
  <2>1. table[i].status \in Undecided /\ to \notin Undecided
    BY <1>6, <1>10, NoWayBack DEF Undecided
  <2>2. table[i].approved_by = Nobody /\ table[i].rejected_by = Nobody
    BY <1>2, <2>1, DecisionFacts DEF UndecidedIsBlank
  <2>3. Decided(i, verb)'
    BY <1>5, <1>10, <2>1, <2>2 DEF Decided
  <2>4. /\ succeeded[i] = <<>>
        /\ \A q \in Post : posts[q].stage = "ok" => posts[q].id # i
    BY <1>2, <2>1, DecisionFacts DEF ReportsAreDecisions, AnswersAreDecisions, Decided
  <2>5. \A j \in Incident : \A v : j # i => (Decided(j, v) <=> Decided(j, v)')
    BY <1>10 DEF Decided
  <2>6. UndecidedIsBlank' BY <1>10, <2>1, DecisionFacts DEF UndecidedIsBlank
  <2>7. ReportsAreDecisions'
    BY <1>4, <2>4, <2>5, DecisionFacts DEF ReportsAreDecisions
  <2>8. AnswersAreDecisions'
    <3>1. \A q \in Post : posts'[q].stage # "idle" => posts'[q].id \in Incident
      BY <1>2, <1>7, DecisionFacts DEF AnswersAreDecisions
    <3>2. ASSUME NEW q \in Post, posts'[q].stage = "ok"
          PROVE  \E j, v : /\ j \in Incident /\ posts'[q].id = j /\ posts'[q].verb = v
                           /\ Decided(j, v)' /\ succeeded'[j] = <<>>
      <4>1. CASE q = p BY <1>2, <1>4, <1>7, <2>3, <2>4, <4>1
      <4>2. CASE q # p
        <5>1. PICK j, v : j = posts[q].id /\ v = posts[q].verb OBVIOUS
        <5>2. /\ posts'[q] = posts[q] /\ j \in Incident /\ j # i
              /\ Decided(j, v) /\ succeeded[j] = <<>>
          BY <1>7, <2>4, <3>2, <4>2, <5>1, DecisionFacts DEF AnswersAreDecisions
        <5>. QED BY <1>4, <2>5, <5>1, <5>2
      <4>. QED BY <4>1, <4>2
    <3>3. \A q, r \in Post :
            posts'[q].stage = "ok" /\ posts'[r].stage = "ok" /\ posts'[q].id = posts'[r].id => q = r
      BY <1>7, <2>4, DecisionFacts DEF AnswersAreDecisions
    <3>. QED BY <3>1, <3>2, <3>3 DEF AnswersAreDecisions, Decided
  <2>. QED BY <1>4, <1>7, <1>8, <2>6, <2>7, <2>8, DecisionFacts, DeciderKeeps
<1>. QED BY <1>2, <1>3, <1>5, <1>6, <1>9, <1>10, DecisionFacts, TransitionMoves

\* What others do to the table undoes no decision.
LEMMA OthersKeep ==
  ASSUME DashIInv, Others
  PROVE  DashIInv'
<1>1. PICK i \in Incident, m \in Moves : m[1] = table[i].status /\ Transition(i, m[2], table[i], "ok")
  BY DEF Others
<1>2. PICK from, to : m = <<from, to>> /\ <<from, to>> \in ALLOWED_TRANSITIONS
  BY DashboardAssumption DEF ALLOWED_TRANSITIONS
<1>3. /\ UNCHANGED <<board, cards, polling, loads, drawer, details, posts, succeeded>>
      /\ Transition(i, to, table[i], "ok") /\ to \in Status
  BY <1>1, <1>2, NoWayBack DEF Others, pageVars
<1>4. /\ StoreTypeOK' /\ FaultsTypeOK'
      /\ <<table[i].status, to>> \in ALLOWED_TRANSITIONS
      /\ table'[i].status = to
      /\ table'[i].approved_by = table[i].approved_by
      /\ table'[i].rejected_by = table[i].rejected_by
      /\ \A j \in Incident : j # i => table'[j] = table[j]
  <2>1. table[i] \in Item BY DecisionFacts
  <2>. QED BY <1>3, <2>1, DecisionFacts, TransitionMoves
<1>5. to \in Undecided => table[i].status \in Undecided BY <1>4, NoWayBack
<1>6. ASSUME NEW j \in Incident, NEW v, Decided(j, v)
      PROVE  Decided(j, v)'
  BY <1>4, <1>5, <1>6 DEF Decided
<1>7. UndecidedIsBlank' BY <1>4, <1>5, DecisionFacts DEF UndecidedIsBlank
<1>8. ReportsAreDecisions' BY <1>3, <1>6, DecisionFacts DEF ReportsAreDecisions
<1>9. AnswersAreDecisions'
  <2>1. ASSUME NEW q \in Post, posts'[q].stage = "ok"
        PROVE  \E j, v : /\ j \in Incident /\ posts'[q].id = j /\ posts'[q].verb = v
                         /\ Decided(j, v)' /\ succeeded'[j] = <<>>
    <3>1. PICK j, v : j \in Incident /\ j = posts[q].id /\ v = posts[q].verb
      BY <1>3, <2>1, DecisionFacts DEF AnswersAreDecisions
    <3>2. Decided(j, v) /\ succeeded[j] = <<>>
      BY <1>3, <2>1, <3>1, DecisionFacts DEF AnswersAreDecisions
    <3>3. Decided(j, v)' BY <1>6, <3>1, <3>2
    <3>4. posts'[q].id = j /\ posts'[q].verb = v BY <1>3, <3>1
    <3>. QED BY <1>3, <3>1, <3>2, <3>3, <3>4
  <2>. QED BY <1>3, <2>1, DecisionFacts DEF AnswersAreDecisions, Decided
<1>. QED BY <1>3, <1>4, <1>7, <1>8, <1>9, DecisionFacts, DeciderKeeps

\* Nor does a replica that catches up.
LEMMA CatchUpKeeps ==
  ASSUME DashIInv, NEW i \in Incident, CatchUp(i)
  PROVE  DashIInv'
<1>1. UNCHANGED <<table, faults, board, cards, polling, loads, drawer, details, posts, succeeded>>
  BY DEF CatchUp, Propagate, pageVars
<1>2. replica' = [replica EXCEPT ![i] = table[i]] BY DEF CatchUp, Propagate
<1>3. StoreTypeOK' /\ FaultsTypeOK'
  BY <1>1, <1>2, DecisionFacts DEF StoreTypeOK, FaultsTypeOK
<1>4. UndecidedIsBlank' /\ AnswersAreDecisions' /\ ReportsAreDecisions'
  BY <1>1, DecisionFacts
  DEF UndecidedIsBlank, AnswersAreDecisions, ReportsAreDecisions, Decided
<1>. QED BY <1>1, <1>3, <1>4, DecisionFacts, DeciderKeeps

LEMMA DashSteps == DashIInv /\ [DashNext]_vars => DashIInv'
<1>. SUFFICES ASSUME DashIInv, [DashNext]_vars PROVE DashIInv' OBVIOUS
<1>1. CASE UNCHANGED vars
  <2>1. UndecidedIsBlank' /\ AnswersAreDecisions' /\ ReportsAreDecisions'
    BY <1>1, DecisionFacts
    DEF vars, storeVars, pageVars, UndecidedIsBlank, AnswersAreDecisions, ReportsAreDecisions, Decided
  <2>2. StoreTypeOK' /\ FaultsTypeOK'
    BY <1>1, DecisionFacts DEF vars, storeVars, StoreTypeOK, FaultsTypeOK
  <2>. QED BY <1>1, <2>1, <2>2, DecisionFacts, DeciderKeeps DEF vars, pageVars
<1>. QED
  BY <1>1, HandlersKeep, ActKeeps, ActFailedKeeps, ActedKeeps, DecideKeeps, OthersKeep,
     CatchUpKeeps
  DEF DashNext

\* Whatever is clicked, whatever arrives late and whatever others do to the table,
\* drawers, timer and decisions fit together and with the table.
THEOREM DashInvariant == DashSpec => []DashIInv
BY DashStarts, DashSteps, PTL DEF DashSpec

-----------------------------------------------------------------------------
(* What it gives *)

\* "One drawer at a time": in every order of clicks, late answers and timers
\* the drawers and the scrim agree, and the card selected is the one shown.
THEOREM PageIsConsistent == DashSpec => []DashInv
<1>1. DashIInv => DashInv BY DEF DashIInv, DashInv
<1>. QED BY <1>1, DashInvariant, PTL

\* With auto-refresh on, no step but one that shows an error leaves the page
\* with neither a timer set nor a load under way (schedule), quick toggles of the
\* checkbox included.
THEOREM OnlyErrorsEndPolling == DashSpec => PollingGoesOn
<1>1. DashIInv' => ~ Unattended'
  <2>. SUFFICES ASSUME DashIInv' PROVE ~ Unattended' OBVIOUS
  <2>1. StillPolls' /\ IsFiniteSet(loads.lists)' /\ DashTypeOK' BY DEF DashIInv
  <2>2. loads'.sent \in Nat
    <3>1. loads' \in [sent : 0..MaxLoads, lists : SUBSET Lists] BY <2>1 DEF DashTypeOK
    <3>. QED BY <3>1, DashboardAssumption
  <2>3. Cardinality(loads'.lists) \in Nat BY <2>1, FS_CardinalityType
  <2>. QED BY <2>1, <2>2, <2>3 DEF Unattended, StillPolls, Loading
<1>2. DashIInv' => [Unattended' => Unattended \/ board' = "error"]_vars BY <1>1
<1>. QED BY <1>2, DashInvariant, PTL DEF PollingGoesOn

\* The page reports at most one decision per incident, and only the one on
\* record, whatever is pressed again and whatever answers are lost (act).
THEOREM ReportedIsDecided == DashSpec => []SuccessIsDecision
<1>1. DashIInv => SuccessIsDecision
  <2>. SUFFICES ASSUME DashIInv, NEW i \in Incident
                PROVE  /\ Len(succeeded[i]) <= 1
                       /\ succeeded[i] = <<"approve">> =>
                            table[i].approved_by = Operator /\ table[i].rejected_by = Nobody
                       /\ succeeded[i] = <<"reject">> =>
                            table[i].rejected_by = Operator /\ table[i].approved_by = Nobody
    BY DEF SuccessIsDecision
  <2>1. CASE succeeded[i] = <<>> BY <2>1
  <2>2. ASSUME NEW verb \in Verb, succeeded[i] = <<verb>>, Decided(i, verb)
        PROVE  /\ Len(succeeded[i]) <= 1
               /\ succeeded[i] = <<"approve">> =>
                    table[i].approved_by = Operator /\ table[i].rejected_by = Nobody
               /\ succeeded[i] = <<"reject">> =>
                    table[i].rejected_by = Operator /\ table[i].approved_by = Nobody
    BY <2>2 DEF Decided
  <2>. QED BY <2>1, <2>2 DEF DashIInv, ReportsAreDecisions
<1>. QED BY <1>1, DashInvariant, PTL
=============================================================================
