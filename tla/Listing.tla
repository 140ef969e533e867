------------------------------- MODULE Listing -------------------------------
(***************************************************************************)
(* GET /incidents: _dashboard_view over list_all and list_by_status.  The  *)
(* pipeline goes on writing while a listing is put together page by page.  *)
(*                                                                         *)
(* An incident is a number, its place in the order a scan visits the table *)
(* in; incidents are created in any order.  Of an item only its status     *)
(* matters here, and of an answer only which incidents it shows with which *)
(* statuses: that the newest come first is left out.                       *)
(*                                                                         *)
(* The scans are called without ConsistentRead, like get_item: every page  *)
(* may see any incident as a lagging copy has it, or not see it yet.       *)
(***************************************************************************)
EXTENDS IncidentStore, FiniteSets

CONSTANTS
  Filter,       \* the status lists clients ask for; Status stands for "all"
  Limit,        \* list_all's limit (500)
  FilterLimit   \* what one filtered scan examines: limit items (50), or fewer
                \* when 1 MB of the table holds fewer; it has no second page

ASSUME ListingAssumption ==
  /\ Incident \subseteq Nat \ {0}
  /\ IsFiniteSet(Incident)
  /\ Filter \subseteq SUBSET Status
  /\ Limit \in Nat \ {0}
  /\ FilterLimit \in Nat \ {0}

VARIABLES
  listing,   \* the request: its filter, how far it got, what it found
  steady     \* history: the incidents that matched all along, in every copy

vars == <<storeVars, faults, listing, steady>>

\* The order the statuses are declared, and scanned, in.
Enum == <<"NEW", "INVESTIGATING", "PENDING_APPROVAL", "APPROVED", "REJECTED",
          "EXECUTED", "ESCALATED", "INFORMATIONAL", "FAILED", "CLOSED">>

Before(s, t) == \E j, k \in 1..10 : j < k /\ Enum[j] = s /\ Enum[k] = t

Existing == {i \in Incident : table[i].status # "MISSING"}

\* What a page with older copies of those in old shows to exist.
InPage(old) == {i \in Incident : Copy(i, old).status # "MISSING"}

\* The incidents that match whichever copy is looked at.  One that is in
\* different statuses in different copies is, for a list that takes a scan per
\* status, in none of them for certain.
Matching(filter) ==
  {i \in Incident : /\ \A c \in Reads(i) : c.status \in filter
                    /\ filter # Status => \A c \in Reads(i) : c.status = table[i].status}

Summary == [id : Incident, status : Status]

Found == {r.id : r \in listing.items}

ListingInit ==
  /\ StoreInit
  /\ faults = 0
  /\ listing = [pc |-> "idle", filter |-> Status, wanted |-> {}, cursor |-> 0, items |-> {}]
  /\ steady = {}

-----------------------------------------------------------------------------
\* A client asks for everything or for some statuses.
Ask(filter) ==
  /\ listing.pc \in {"idle", "answered"}
  /\ filter # {}
  /\ listing' = [pc |-> IF filter = Status THEN "all" ELSE "status",
                 filter |-> filter, wanted |-> filter, cursor |-> 0, items |-> {}]
  /\ steady' = Matching(filter)
  /\ UNCHANGED <<storeVars, faults>>

\* _summarise
Read(i, old) == [id |-> i, status |-> Copy(i, old).status]

\* The part of the table behind LastEvaluatedKey, and of it the part up to last.
Rest(old) == {i \in InPage(old) : i > listing.cursor}

Page(old, last) == {Read(i, old) : i \in {j \in Rest(old) : j <= last}}

\* items[:limit]
Answer(items) ==
  \E kept \in SUBSET items :
     /\ IF Cardinality(items) <= Limit THEN kept = items ELSE Cardinality(kept) = Limit
     /\ listing' = [listing EXCEPT !.pc = "answered", !.items = kept]

\* Mutant: the key of the last page is not looked at.
AllPageOnce ==
  /\ listing.pc = "all"
  /\ \E old \in SUBSET Lagging :
       \/ Rest(old) = {} /\ Answer({})
       \/ \E last \in Rest(old) : Answer(Page(old, last))
  /\ UNCHANGED <<storeVars, faults, steady>>

\* Mutant: the page after starts with the last item of this one.
AllPageInclusive ==
  /\ listing.pc = "all"
  /\ \E old \in SUBSET Lagging :
       \/ Rest(old) = {} /\ Answer(listing.items)
       \/ \E last \in Rest(old) :
            LET items == listing.items \cup Page(old, last)
            IN \/ /\ Cardinality(items) < Limit
                  /\ listing' = [listing EXCEPT !.items = items, !.cursor = last - 1]
               \/ /\ Cardinality(items) >= Limit \/ \A j \in Rest(old) : j <= last
                  /\ Answer(items)
  /\ UNCHANGED <<storeVars, faults, steady>>

\* One page of list_all's scan.  It may end anywhere, and the last one may or
\* may not announce another.
AllPage ==
  /\ listing.pc = "all"
  /\ \E old \in SUBSET Lagging :
       \/ Rest(old) = {} /\ Answer(listing.items)
       \/ \E last \in Rest(old) :
            LET items == listing.items \cup Page(old, last)
            IN \/ /\ Cardinality(items) < Limit
                  /\ listing' = [listing EXCEPT !.items = items, !.cursor = last]
               \/ /\ Cardinality(items) >= Limit \/ \A j \in Rest(old) : j <= last
                  /\ Answer(items)
  /\ UNCHANGED <<storeVars, faults, steady>>

\* What one filtered scan examines: its Limit counts the items it looks at.
Examined(E, old) == /\ E \subseteq InPage(old)
                    /\ \A i \in E, j \in InPage(old) \ E : i < j
                    /\ Cardinality(E) <= FilterLimit
                    /\ E = InPage(old) \/ Cardinality(E) = FilterLimit

\* The status list is put in the order of the enum, whatever the client wrote.
NextWanted(s) == s \in listing.wanted /\ \A t \in listing.wanted \ {s} : Before(s, t)

\* list_by_status for the next status of the list.
StatusPage ==
  /\ listing.pc = "status"
  /\ \E s \in Status, old \in SUBSET Lagging, E \in SUBSET Incident :
       /\ NextWanted(s)
       /\ Examined(E, old)
       /\ listing' = [listing EXCEPT
                        !.pc = IF listing.wanted = {s} THEN "answered" ELSE "status",
                        !.wanted = @ \ {s},
                        !.items = @ \cup {Read(i, old) : i \in {j \in E : Copy(j, old).status = s}}]
  /\ UNCHANGED <<storeVars, faults, steady>>

\* Meanwhile the pipeline creates incidents and moves them along, and the
\* replica follows.
Others ==
  /\ \E i \in Incident :
       \/ table[i].status = "MISSING" /\ Create(i, "ok")
       \/ \E to \in Status : Transition(i, to, table[i], "ok")
       \/ Propagate(i) /\ UNCHANGED faults
  /\ UNCHANGED listing
  /\ steady' = steady \cap Matching(listing.filter)'

ListingNext == \/ \E filter \in Filter : Ask(filter)
               \/ AllPage
               \/ StatusPage
               \/ Others

ListingSpec == ListingInit /\ [][ListingNext]_vars

-----------------------------------------------------------------------------
\* Types.
ListingTypeOK ==
  /\ StoreTypeOK
  /\ FaultsTypeOK
  /\ listing \in [pc : {"idle", "all", "status", "answered"}, filter : SUBSET Status,
                  wanted : SUBSET Status, cursor : Nat, items : SUBSET Summary]
  /\ steady \subseteq Incident

\* What one filtered scan does not get to: incidents with FilterLimit others
\* before them.
BeyondScan(i) == Cardinality({j \in Existing : j < i}) >= FilterLimit

\* What a listing examined and what is left to examine cover the table: nobody
\* is lost between two pages, and an incident that moves from one wanted status
\* to another moves ahead of the scans, because the enum lists every status
\* before those that may follow it.
Coverage ==
  /\ \A i \in Incident : replica[i].status # "MISSING" => i \in Existing
  /\ steady \subseteq Matching(listing.filter)
  /\ Found \subseteq Existing
  /\ listing.pc = "idle" => listing.items = {}
  /\ listing.pc = "all" =>
       /\ listing.filter = Status
       /\ \A r \in listing.items : r.id <= listing.cursor
       /\ \A i \in steady : i > listing.cursor \/ i \in Found
  /\ listing.pc = "status" =>
       /\ listing.filter # Status
       /\ listing.wanted # {}
       /\ listing.wanted \subseteq listing.filter
       /\ listing.wanted = listing.filter => listing.items = {}
       /\ \A s \in listing.wanted, t \in listing.filter : Before(s, t) => t \in listing.wanted
       /\ \A i \in steady :
            i \in Found \/ table[i].status \in listing.wanted \/ BeyondScan(i)

\* Who is left out of an answer although it matched, in every copy, all the
\* while the answer was put together?  Of the board's list, an incident only if
\* the table has outgrown the limit and the answer is full ("a table larger than
\* the scan limit does not silently drop incidents", _dashboard_view); of a
\* status list, only one that the scan's Limit, which "caps items EXAMINED"
\* (list_all), did not get to.
NobodyIsMissed ==
  listing.pc = "answered" =>
    \A i \in steady \ Found :
      IF listing.filter = Status
        THEN Cardinality(listing.items) = Limit /\ Cardinality(Existing) > Limit
        ELSE BeyondScan(i)

\* No incident is listed twice by the board's query or by that of a single
\* status, whatever moves meanwhile, so the counts count incidents.  (A list of
\* statuses may show one in two of them.)
ListedOnce ==
  listing.filter = Status \/ Cardinality(listing.filter) = 1 =>
     \A q, r \in listing.items : q.id = r.id => q = r

ListingInv == ListingTypeOK /\ Coverage
=============================================================================
