---------------------------- MODULE ListingProofs ----------------------------
(***************************************************************************)
(* What a listing promises, proved for every table, every limit, every     *)
(* list of statuses, every page boundary and however far any copy lags:    *)
(* ListedOnce and NobodyIsMissed follow from Coverage, an invariant of the *)
(* scan in progress.                                                       *)
(***************************************************************************)
EXTENDS Listing, FiniteSetTheorems, TLAPS

IInv == ListingInv /\ NobodyIsMissed /\ ListedOnce

-----------------------------------------------------------------------------
(* The rest of the pipeline *)

\* The statuses are few.
LEMMA StatusFinite == IsFiniteSet(Status)
<1> DEFINE f == [k \in 1..10 |-> Enum[k]]
<1>1. \A k \in 1..10 : f[k] \in Status BY DEF Enum, Status
<1>2. \A t \in Status : \E k \in 1..10 : f[k] = t
  <2>1. /\ f[1] = "NEW" /\ f[2] = "INVESTIGATING" /\ f[3] = "PENDING_APPROVAL"
        /\ f[4] = "APPROVED" /\ f[5] = "REJECTED" /\ f[6] = "EXECUTED"
        /\ f[7] = "ESCALATED" /\ f[8] = "INFORMATIONAL" /\ f[9] = "FAILED"
        /\ f[10] = "CLOSED"
        BY DEF Enum
  <2>. HIDE DEF f
  <2>. QED BY <2>1 DEF Status
<1>3. f \in Surjection(1..10, Status) BY <1>1, <1>2 DEF Surjection
<1>4. IsFiniteSet(1..10)
  <2>1. 1 \in Int /\ 10 \in Int OBVIOUS
  <2>. QED BY <2>1, FS_Interval, Zenon
<1>. HIDE DEF f
<1>. QED BY <1>3, <1>4, FS_Surjection

\* Every transition leads to a status declared later.
LEMMA TransitionsAscend ==
  ASSUME NEW s, NEW t, <<s, t>> \in ALLOWED_TRANSITIONS
  PROVE  s \in Status /\ t \in Status /\ Before(s, t)
BY DEF ALLOWED_TRANSITIONS, Before, Enum, Status

\* What the others do to the table while a listing runs.
LEMMA OthersMove ==
  ASSUME ListingTypeOK, Others
  PROVE  /\ StoreTypeOK' /\ FaultsTypeOK'
         /\ listing' = listing
         /\ steady' = steady \cap Matching(listing.filter)'
         /\ \A i \in Incident :
              \/ table'[i].status = table[i].status
              \/ table[i].status = "MISSING"
              \/ <<table[i].status, table'[i].status>> \in ALLOWED_TRANSITIONS
         /\ \A i \in Incident : replica'[i] = replica[i] \/ replica'[i] = table[i]
<1>1. PICK i \in Incident : \/ table[i].status = "MISSING" /\ Create(i, "ok")
                            \/ \E to \in Status : Transition(i, to, table[i], "ok")
                            \/ Propagate(i) /\ UNCHANGED faults
      BY DEF Others
<1>2. table \in [Incident -> Item] /\ replica \in [Incident -> Item]
      BY DEF ListingTypeOK, StoreTypeOK
<1>3. CASE table[i].status = "MISSING" /\ Create(i, "ok")
  <2>1. table' = [table EXCEPT ![i] = NewItem] /\ replica' = replica /\ faults' = faults
        BY <1>3 DEF Create, NoFault
  <2>2. NewItem \in Item BY DEF NewItem, Missing, Item, Status, NoResult, Result
  <2>. QED BY <1>2, <1>3, <2>1, <2>2 DEF Others, ListingTypeOK, StoreTypeOK, FaultsTypeOK
<1>4. CASE \E to \in Status : Transition(i, to, table[i], "ok")
  <2>1. PICK to \in Status : Transition(i, to, table[i], "ok") BY <1>4
  <2>2. Move(i, to, table[i]) /\ replica' = replica /\ faults' = faults
        BY <2>1 DEF Transition, NoFault
  <2>3. [table[i] EXCEPT !.status = to] \in Item BY <1>2 DEF Item
  <2>4. table' = [table EXCEPT ![i] = [table[i] EXCEPT !.status = to]]
        BY <2>2 DEF Move
  <2>5. <<table[i].status, to>> \in ALLOWED_TRANSITIONS BY <2>2 DEF Move, LegalFrom
  <2>6. table'[i].status = to BY <1>2, <2>4, <2>3 DEF Item
  <2>. QED BY <1>2, <2>2, <2>3, <2>4, <2>5, <2>6
           DEF Others, ListingTypeOK, StoreTypeOK, FaultsTypeOK
<1>5. CASE Propagate(i) /\ UNCHANGED faults
  <2>1. /\ replica' = [replica EXCEPT ![i] = table[i]]
        /\ table' = table /\ faults' = faults
        BY <1>5 DEF Propagate
  <2>. QED BY <1>2, <2>1 DEF Others, ListingTypeOK, StoreTypeOK, FaultsTypeOK
<1>. QED BY <1>1, <1>3, <1>4, <1>5

\* Whoever is in the table stays there.
LEMMA StaysInTable ==
  ASSUME ListingTypeOK, Others, NEW i \in Incident, table[i].status # "MISSING"
  PROVE  table'[i].status # "MISSING"
<1>1. \A s, t : <<s, t>> \in ALLOWED_TRANSITIONS => t # "MISSING"
      BY TransitionsAscend DEF Status
<1>. QED BY OthersMove, <1>1

\* What a page sees of an incident is one of the copies a read may bring, and
\* so an incident that matches is in every page with a status it matches by.
LEMMA CopyIsRead ==
  ASSUME NEW old \in SUBSET Lagging, NEW i \in Incident
  PROVE  Copy(i, old) \in Reads(i)
BY DEF Copy, Lagging, Reads

LEMMA MatchingIsSeen ==
  ASSUME NEW filter \in SUBSET Status, NEW i \in Matching(filter),
         NEW old \in SUBSET Lagging
  PROVE  /\ i \in Existing /\ i \in InPage(old)
         /\ filter # Status => Copy(i, old).status = table[i].status
         /\ table[i].status \in filter
<1>1. i \in Incident /\ table[i] \in Reads(i) BY DEF Matching, Reads
<1>2. Copy(i, old) \in Reads(i) BY <1>1, CopyIsRead
<1>3. Copy(i, old).status \in Status /\ table[i].status \in Status
      BY <1>1, <1>2 DEF Matching
<1>. QED BY <1>1, <1>2, <1>3 DEF Matching, Existing, InPage, Status

\* A page sees only what exists.
LEMMA PageExists ==
  ASSUME Coverage, NEW old \in SUBSET Lagging
  PROVE  InPage(old) \subseteq Existing
BY DEF Coverage, InPage, Existing, Copy

\* The table only grows, and it is finite.
LEMMA ExistingFinite ==
  IsFiniteSet(Existing) /\ Cardinality(Existing) \in Nat
BY ListingAssumption, FS_Subset, FS_CardinalityType DEF Existing

LEMMA ExistingGrows ==
  ASSUME ListingTypeOK, Others
  PROVE  /\ Existing \subseteq Existing'
         /\ Cardinality(Existing') \in Nat
         /\ Cardinality(Existing) <= Cardinality(Existing')
<1>3. Existing \subseteq Existing' BY StaysInTable DEF Existing
<1>4. IsFiniteSet(Existing') BY ListingAssumption, FS_Subset DEF Existing
<1>. QED BY <1>3, <1>4, FS_Subset, FS_CardinalityType

\* Nobody comes back within reach of a scan that did not get that far.
LEMMA BeyondStays ==
  ASSUME ListingTypeOK, Others, NEW i \in Incident, BeyondScan(i)
  PROVE  BeyondScan(i)'
<1> DEFINE before == {j \in Existing : j < i}
           after  == {j \in Existing' : j < i}
<1>1. before \subseteq after BY ExistingGrows
<1>2. IsFiniteSet(after) BY ListingAssumption, FS_Subset DEF Existing
<1>3. /\ IsFiniteSet(before) /\ Cardinality(before) \in Nat /\ Cardinality(after) \in Nat
      /\ Cardinality(before) <= Cardinality(after)
      BY <1>1, <1>2, FS_Subset, FS_CardinalityType
<1>4. Cardinality(before) >= FilterLimit BY DEF BeyondScan
<1>5. Cardinality(after) >= FilterLimit
  <2>. HIDE DEF before, after
  <2>. QED BY <1>3, <1>4, ListingAssumption
<1>. QED BY <1>5 DEF BeyondScan
-----------------------------------------------------------------------------
(* Counting *)

\* Records of distinct existing incidents are at most as many as these, and as
\* many only when every one of these is among them.
LEMMA Counting ==
  ASSUME NEW items \in SUBSET Summary,
         \A q, r \in items : q.id = r.id => q = r,
         \A r \in items : r.id \in Existing
  PROVE  /\ Cardinality(items) \in Nat
         /\ Cardinality(items) <= Cardinality(Existing)
         /\ Cardinality(items) = Cardinality(Existing) =>
              \A i \in Existing : \E r \in items : r.id = i
<1> DEFINE id == [r \in items |-> r.id]
<1>1. id \in Injection(items, Existing)
  <2>1. id \in [items -> Existing] OBVIOUS
  <2>2. \A q, r \in items : id[q] = id[r] => q = r OBVIOUS
  <2>. QED BY <2>1, <2>2 DEF Injection, IsInjective
<1>2. IsFiniteSet(items) /\ Cardinality(items) <= Cardinality(Existing)
      /\ (Cardinality(items) = Cardinality(Existing) <=> id \in Surjection(items, Existing))
      BY <1>1, ExistingFinite, FS_Injection
<1>3. id \in Surjection(items, Existing) => \A i \in Existing : \E r \in items : r.id = i
      BY DEF Surjection
<1>. QED BY <1>2, <1>3, FS_CardinalityType

\* Cutting the answer to the limit loses nobody while the table is within it,
\* and leaves a full answer.
LEMMA AnswerKeeps ==
  ASSUME ListingTypeOK, NEW items \in SUBSET Summary,
         \A q, r \in items : q.id = r.id => q = r,
         \A r \in items : r.id \in Existing,
         Answer(items)
  PROVE  /\ listing'.pc = "answered" /\ listing'.filter = listing.filter
         /\ listing' \in [pc : {"idle", "all", "status", "answered"},
                          filter : SUBSET Status, wanted : SUBSET Status,
                          cursor : Nat, items : SUBSET Summary]
         /\ listing'.items \subseteq items
         /\ Cardinality(listing'.items) = Limit \/ listing'.items = items
         /\ Cardinality(Existing) <= Limit => listing'.items = items
<1>1. PICK kept \in SUBSET items :
         /\ IF Cardinality(items) <= Limit THEN kept = items ELSE Cardinality(kept) = Limit
         /\ listing' = [listing EXCEPT !.pc = "answered", !.items = kept]
      BY DEF Answer
<1>2. Cardinality(Existing) <= Limit => kept = items
      BY <1>1, Counting, ExistingFinite, ListingAssumption
<1>3. /\ listing'.pc = "answered" /\ listing'.filter = listing.filter
      /\ listing'.items = kept
      /\ listing' \in [pc : {"idle", "all", "status", "answered"},
                       filter : SUBSET Status, wanted : SUBSET Status,
                       cursor : Nat, items : SUBSET Summary]
      BY <1>1 DEF ListingTypeOK
<1>4. Cardinality(kept) = Limit \/ kept = items BY <1>1
<1>. QED BY <1>2, <1>3, <1>4

-----------------------------------------------------------------------------
(* One lemma per action *)

LEMMA AskKeeps ==
  ASSUME IInv, NEW filter \in Filter, Ask(filter)
  PROVE  IInv'
<1>1. listing'.items = {} /\ listing'.filter = filter /\ listing'.wanted = filter
      /\ listing'.pc = (IF filter = Status THEN "all" ELSE "status")
      /\ listing'.cursor = 0 /\ steady' = Matching(filter)
      BY DEF Ask
<1>2. /\ table' = table /\ replica' = replica /\ faults' = faults
      /\ Matching(filter)' = Matching(filter) /\ Existing' = Existing
      BY DEF Ask, storeVars, Matching, Existing, Reads
<1>3. filter \in SUBSET Status /\ filter # {} BY ListingAssumption DEF Ask
<1>4. ListingTypeOK'
      BY <1>2, <1>3 DEF Ask, IInv, ListingInv, ListingTypeOK, StoreTypeOK, FaultsTypeOK, Matching
<1>5. Coverage'
  <2>1. Found' = {} BY <1>1 DEF Found
  <2>2. steady' \subseteq Matching(listing.filter)' BY <1>1, <1>2
  <2>3. \A i \in steady' : i > 0 BY <1>1, ListingAssumption DEF Matching
  <2>4. \A i \in steady' : table'[i].status \in listing'.wanted
        BY <1>1, <1>2 DEF Matching, Reads
  <2>5. \A i \in Incident : replica'[i].status # "MISSING" => i \in Existing'
        BY <1>2 DEF IInv, ListingInv, Coverage
  <2>. QED BY <1>1, <1>3, <2>1, <2>2, <2>3, <2>4, <2>5 DEF Coverage
<1>6. NobodyIsMissed' /\ ListedOnce' BY <1>1 DEF NobodyIsMissed, ListedOnce
<1>. QED BY <1>4, <1>5, <1>6 DEF IInv, ListingInv

LEMMA OthersKeep ==
  ASSUME IInv, Others
  PROVE  IInv'
<1>. USE DEF IInv, ListingInv
<1>1. listing' = listing /\ steady' \subseteq steady /\ Found' = Found
      BY OthersMove DEF Found
<1>2. ListingTypeOK' BY OthersMove, <1>1 DEF ListingTypeOK
<1>3. Coverage'
  <2>1. steady' \subseteq Matching(listing.filter)'
        BY OthersMove, <1>1
  <2>2. Found' \subseteq Existing' BY <1>1, ExistingGrows DEF Coverage
  <2>3. ASSUME listing.pc = "status", NEW i \in steady'
        PROVE  i \in Found \/ table'[i].status \in listing.wanted \/ BeyondScan(i)'
    <3>1. i \in steady /\ i \in Incident BY <1>1, <2>3 DEF ListingTypeOK
    <3>2. CASE i \in Found BY <3>2
    <3>3. CASE BeyondScan(i) BY <3>1, <3>3, BeyondStays
    <3>4. CASE table[i].status \in listing.wanted
      <4>1. table[i].status # "MISSING" BY <3>4, <2>3 DEF ListingTypeOK, Status
      <4>2. table'[i].status \in listing.filter
            BY <2>3, OthersMove DEF Matching, Reads
      <4>. QED BY <4>1, <4>2, <3>1, <3>4, <2>3, OthersMove, TransitionsAscend DEF Coverage
    <3>. QED BY <3>1, <3>2, <3>3, <3>4, <2>3 DEF Coverage
  <2>4. ASSUME NEW i \in Incident, replica'[i].status # "MISSING"
        PROVE  i \in Existing'
    <3>1. table[i].status # "MISSING" BY <2>4, OthersMove DEF Coverage, Existing
    <3>. QED BY <3>1, StaysInTable DEF Existing
  <2>. QED BY <1>1, <2>1, <2>2, <2>3, <2>4 DEF Coverage
<1>4. NobodyIsMissed'
  <2>1. ASSUME listing'.pc = "answered", NEW i \in steady', i \notin Found'
        PROVE  IF listing'.filter = Status
                 THEN Cardinality(listing'.items) = Limit /\ Cardinality(Existing') > Limit
                 ELSE BeyondScan(i)'
    <3>1. i \in steady \ Found /\ i \in Incident BY <1>1, <2>1 DEF ListingTypeOK
    <3>2. CASE listing.filter = Status
          BY <1>1, <2>1, <3>1, <3>2, ExistingGrows, ExistingFinite, ListingAssumption
             DEF NobodyIsMissed
    <3>3. CASE listing.filter # Status
          BY <1>1, <2>1, <3>1, <3>3, BeyondStays DEF NobodyIsMissed
    <3>. QED BY <1>1, <3>2, <3>3
  <2>. QED BY <2>1 DEF NobodyIsMissed
<1>5. ListedOnce' BY <1>1 DEF ListedOnce
<1>. QED BY <1>2, <1>3, <1>4, <1>5

\* The case that matters: a page of the unfiltered scan.
LEMMA AllPageKeeps ==
  ASSUME IInv, AllPage
  PROVE  IInv'
<1>. USE DEF IInv, ListingInv
<1>1. /\ listing.pc = "all" /\ listing.filter = Status
      /\ table' = table /\ replica' = replica /\ faults' = faults /\ steady' = steady
      BY DEF AllPage, storeVars, Coverage
<1>2. ListingTypeOK BY DEF ListingTypeOK
<1>3. \A q, r \in listing.items : q.id = r.id => q = r BY <1>1 DEF ListedOnce
<1>4. \A r \in listing.items : r.id \in Existing /\ r.id <= listing.cursor
      BY <1>1 DEF Coverage, Found
<1>5. /\ Existing' = Existing /\ Matching(Status)' = Matching(Status)
      /\ steady \subseteq Matching(Status)
      BY <1>1 DEF Existing, Matching, Reads, Coverage
<1>6. PICK old \in SUBSET Lagging :
        \/ Rest(old) = {} /\ Answer(listing.items)
        \/ \E last \in Rest(old) :
             LET items == listing.items \cup Page(old, last)
             IN \/ /\ Cardinality(items) < Limit
                   /\ listing' = [listing EXCEPT !.items = items, !.cursor = last]
                \/ /\ Cardinality(items) >= Limit \/ \A j \in Rest(old) : j <= last
                   /\ Answer(items)
      BY DEF AllPage
<1>7. InPage(old) \subseteq Existing BY PageExists
<1>8. steady \subseteq InPage(old) /\ steady \subseteq Existing
      BY <1>5, MatchingIsSeen
<1>9. ASSUME NEW items \in SUBSET Summary,
             \A q, r \in items : q.id = r.id => q = r,
             \A r \in items : r.id \in Existing,
             steady \subseteq {r.id : r \in items} \/ Cardinality(items) >= Limit,
             Answer(items)
      PROVE  IInv'
  <2>1. /\ listing'.pc = "answered" /\ listing'.filter = Status
        /\ listing'.items \subseteq items
        /\ Cardinality(listing'.items) = Limit \/ listing'.items = items
        /\ Cardinality(Existing) <= Limit => listing'.items = items
        BY <1>1, <1>2, <1>9, AnswerKeeps
  <2>2. ListingTypeOK' BY <1>1, <1>2, <1>9, AnswerKeeps DEF ListingTypeOK, StoreTypeOK, FaultsTypeOK
  <2>3. Coverage' BY <1>1, <1>5, <1>9, <2>1 DEF Coverage, Found
  <2>4. ASSUME NEW i \in steady, i \notin Found'
        PROVE  Cardinality(listing'.items) = Limit /\ Cardinality(Existing) > Limit
    <3>1. ASSUME listing'.items = items
          PROVE  Cardinality(items) >= Limit
          BY <1>9, <2>4, <3>1 DEF Found
    <3>2. /\ Cardinality(items) \in Nat
          /\ Cardinality(items) <= Cardinality(Existing)
          /\ Cardinality(items) = Cardinality(Existing) =>
               \A j \in Existing : \E r \in items : r.id = j
          BY <1>9, Counting
    <3>3. ~ (Cardinality(Existing) <= Limit)
      <4>1. SUFFICES ASSUME Cardinality(Existing) <= Limit PROVE FALSE OBVIOUS
      <4>2. listing'.items = items BY <2>1, <4>1
      <4>3. Cardinality(items) = Cardinality(Existing)
            BY <3>1, <3>2, <4>1, <4>2, ExistingFinite, ListingAssumption
      <4>4. PICK r \in items : r.id = i BY <1>8, <2>4, <3>2, <4>3
      <4>. QED BY <2>4, <4>2, <4>4 DEF Found
    <3>4. Cardinality(Existing) > Limit BY <3>3, ExistingFinite, ListingAssumption
    <3>5. \E kept \in SUBSET items :
            /\ IF Cardinality(items) <= Limit THEN kept = items ELSE Cardinality(kept) = Limit
            /\ listing'.items = kept
          BY <1>2, <1>9 DEF Answer, ListingTypeOK
    <3>6. Cardinality(listing'.items) = Limit
          BY <3>1, <3>2, <3>5, ListingAssumption
    <3>. QED BY <3>4, <3>6
  <2>5. NobodyIsMissed' BY <1>1, <1>5, <2>1, <2>4 DEF NobodyIsMissed
  <2>6. ListedOnce' BY <1>9, <2>1 DEF ListedOnce
  <2>. QED BY <2>2, <2>3, <2>5, <2>6
<1>10. CASE Rest(old) = {} /\ Answer(listing.items)
  <2>1. listing.items \in SUBSET Summary BY DEF ListingTypeOK
  <2>2. steady \subseteq {r.id : r \in listing.items}
        BY <1>1, <1>8, <1>10 DEF Coverage, Rest, Found
  <2>. QED BY <1>3, <1>4, <1>9, <1>10, <2>1, <2>2
<1>11. ASSUME NEW last \in Rest(old)
       PROVE  LET items == listing.items \cup Page(old, last)
              IN /\ items \in SUBSET Summary
                 /\ \A q, r \in items : q.id = r.id => q = r
                 /\ \A r \in items : r.id \in Existing /\ r.id <= last
                 /\ \A i \in steady : i > last \/ i \in {r.id : r \in items}
  <2> DEFINE page == Page(old, last)
             items == listing.items \cup page
  <2>1. last \in Nat /\ last > listing.cursor /\ listing.cursor \in Nat
        BY ListingAssumption, <1>2 DEF Rest, InPage, ListingTypeOK
  <2>2. \A r \in page : /\ r \in Summary /\ r.id \in Existing
                        /\ r.id > listing.cursor /\ r.id <= last
                        /\ r = Read(r.id, old)
    <3>1. SUFFICES ASSUME NEW j \in Rest(old), j <= last
                   PROVE  /\ Read(j, old) \in Summary /\ Read(j, old).id = j
                          /\ j \in Existing /\ j > listing.cursor
          BY DEF Page
    <3>2. j \in InPage(old) /\ j > listing.cursor /\ j \in Incident BY DEF Rest, InPage
    <3>3. Copy(j, old) \in Item /\ Copy(j, old).status # "MISSING"
          BY <1>2, <3>2 DEF Copy, InPage, ListingTypeOK, StoreTypeOK
    <3>4. Copy(j, old).status \in Status BY <3>3 DEF Item
    <3>. QED BY <1>7, <3>2, <3>4 DEF Read, Summary
  <2>3. items \in SUBSET Summary BY <2>2 DEF ListingTypeOK
  <2>4. \A r \in items : r.id \in Nat BY <1>4, <2>2, ListingAssumption DEF Existing
  <2>. HIDE DEF page
  <2>5. \A q, r \in items : q.id = r.id => q = r
        BY <1>3, <1>4, <2>1, <2>2, <2>4
  <2>6. \A r \in items : r.id \in Existing /\ r.id <= last
        BY <1>4, <2>1, <2>2, <2>4
  <2>7. ASSUME NEW i \in steady PROVE i > last \/ i \in {r.id : r \in items}
    <3>1. i \in InPage(old) /\ i \in Nat
          BY <1>8, ListingAssumption DEF InPage
    <3>2. CASE i \in Found BY <3>2 DEF Found
    <3>3. CASE i > listing.cursor /\ i <= last
      <4>1. Read(i, old) \in page /\ Read(i, old).id = i
            BY <3>1, <3>3 DEF Rest, Read, Page, page
      <4>. QED BY <4>1
    <3>. QED BY <1>1, <2>1, <3>1, <3>2, <3>3 DEF Coverage
  <2>. QED BY <2>3, <2>5, <2>6, <2>7 DEF page
<1>12. ASSUME NEW last \in Rest(old),
              LET items == listing.items \cup Page(old, last)
              IN \/ /\ Cardinality(items) < Limit
                    /\ listing' = [listing EXCEPT !.items = items, !.cursor = last]
                 \/ /\ Cardinality(items) >= Limit \/ \A j \in Rest(old) : j <= last
                    /\ Answer(items)
       PROVE  IInv'
  <2> DEFINE items == listing.items \cup Page(old, last)
  <2>1. /\ items \in SUBSET Summary
        /\ \A q, r \in items : q.id = r.id => q = r
        /\ \A r \in items : r.id \in Existing /\ r.id <= last
        /\ \A i \in steady : i > last \/ i \in {r.id : r \in items}
        BY <1>11
  <2>2. last \in Nat /\ \A i \in InPage(old) : i \in Nat BY ListingAssumption DEF Rest, InPage
  <2>3. \/ listing' = [listing EXCEPT !.items = items, !.cursor = last]
        \/ /\ Cardinality(items) >= Limit \/ \A j \in Rest(old) : j <= last
           /\ Answer(items)
        BY <1>12
  <2>. HIDE DEF items
  <2>4. CASE listing' = [listing EXCEPT !.items = items, !.cursor = last]
    <3>1. ListingTypeOK'
          BY <1>1, <1>2, <2>1, <2>2, <2>4 DEF ListingTypeOK, StoreTypeOK, FaultsTypeOK
    <3>2. listing'.items = items /\ listing'.cursor = last /\ listing'.pc = "all"
          /\ listing'.filter = Status
          BY <1>1, <1>2, <2>4 DEF ListingTypeOK
    <3>3. Coverage' BY <1>1, <1>5, <2>1, <3>2 DEF Coverage, Found
    <3>4. NobodyIsMissed' /\ ListedOnce' BY <2>1, <3>2 DEF NobodyIsMissed, ListedOnce
    <3>. QED BY <3>1, <3>3, <3>4
  <2>5. CASE /\ Cardinality(items) >= Limit \/ \A j \in Rest(old) : j <= last
             /\ Answer(items)
    <3>1. CASE \A j \in Rest(old) : j <= last
      <4>1. \A i \in InPage(old) : i <= last
            BY <3>1, <1>2, <2>2 DEF Rest, ListingTypeOK
      <4>2. steady \subseteq {r.id : r \in items} BY <1>8, <2>1, <2>2, <4>1
      <4>. QED BY <1>9, <2>1, <2>5, <4>2
    <3>2. CASE Cardinality(items) >= Limit BY <1>9, <2>1, <2>5, <3>2
    <3>. QED BY <2>5, <3>1, <3>2
  <2>. QED BY <2>3, <2>4, <2>5
<1>. QED BY <1>6, <1>10, <1>12

\* One status of the list: an incident that was not in a status scanned so far
\* is in one still wanted, unless the scan did not get to it.
LEMMA StatusPageKeeps ==
  ASSUME IInv, StatusPage
  PROVE  IInv'
<1>. USE DEF IInv, ListingInv
<1>1. PICK s \in Status, old \in SUBSET Lagging, E \in SUBSET Incident :
        /\ NextWanted(s)
        /\ Examined(E, old)
        /\ listing' = [listing EXCEPT
                         !.pc = IF listing.wanted = {s} THEN "answered" ELSE "status",
                         !.wanted = @ \ {s},
                         !.items = @ \cup {Read(i, old) : i \in {j \in E : Copy(j, old).status = s}}]
      BY DEF StatusPage
<1>2. /\ listing.pc = "status" /\ listing.filter # Status
      /\ table' = table /\ replica' = replica /\ faults' = faults /\ steady' = steady
      BY DEF StatusPage, storeVars, Coverage
<1> DEFINE page == {Read(i, old) : i \in {j \in E : Copy(j, old).status = s}}
<1>3. /\ listing'.pc = (IF listing.wanted = {s} THEN "answered" ELSE "status")
      /\ listing'.wanted = listing.wanted \ {s}
      /\ listing'.items = listing.items \cup page
      /\ listing'.filter = listing.filter
      BY <1>1 DEF ListingTypeOK
<1>4. E \subseteq InPage(old) /\ InPage(old) \subseteq Existing
      BY <1>1, PageExists DEF Examined
<1>5. page \in SUBSET Summary /\ \A r \in page : r.id \in E /\ r = Read(r.id, old)
      BY <1>1 DEF Read, Summary
<1>. HIDE DEF page
<1>6. ListingTypeOK'
  <2>1. listing' \in [pc : {"idle", "all", "status", "answered"}, filter : SUBSET Status,
                      wanted : SUBSET Status, cursor : Nat, items : SUBSET Summary]
        BY <1>1, <1>5 DEF ListingTypeOK, page
  <2>. QED BY <1>2, <2>1 DEF ListingTypeOK, StoreTypeOK, FaultsTypeOK
<1>7. /\ Existing' = Existing
      /\ Matching(listing.filter)' = Matching(listing'.filter)
      /\ \A i : BeyondScan(i)' <=> BeyondScan(i)
      BY <1>2 DEF Existing, Matching, Reads, BeyondScan
<1>8. ASSUME NEW i \in Existing, i \in InPage(old), i \notin E
      PROVE  BeyondScan(i)
  <2> DEFINE before == {j \in Existing : j < i}
  <2>1. E \subseteq before BY <1>1, <1>4, <1>8 DEF Examined
  <2>2. IsFiniteSet(before) BY ExistingFinite, FS_Subset
  <2>3. Cardinality(E) <= Cardinality(before) /\ Cardinality(before) \in Nat
        BY <2>1, <2>2, FS_Subset, FS_CardinalityType
  <2>4. Cardinality(E) = FilterLimit BY <1>1, <1>8 DEF Examined
  <2>. HIDE DEF before
  <2>5. Cardinality(before) >= FilterLimit BY <2>3, <2>4, ListingAssumption
  <2>. QED BY <2>5 DEF before, BeyondScan
<1>9. ASSUME NEW i \in steady
      PROVE  i \in Found' \/ table[i].status \in listing'.wanted \/ BeyondScan(i)
  <2>1. CASE i \in Found BY <1>3, <2>1 DEF Found
  <2>2. CASE table[i].status = s
    <3>1. listing.filter \in SUBSET Status /\ i \in Matching(listing.filter)
          BY DEF ListingTypeOK, Coverage
    <3>2. i \in Existing /\ i \in InPage(old) /\ Copy(i, old).status = s
          BY <1>2, <2>2, <3>1, MatchingIsSeen
    <3>3. CASE i \in E
      <4>1. Read(i, old) \in page /\ Read(i, old).id = i BY <3>2, <3>3 DEF page, Read
      <4>. QED BY <1>3, <4>1 DEF Found
    <3>4. CASE i \notin E BY <1>8, <3>2, <3>4
    <3>. QED BY <3>3, <3>4
  <2>3. CASE table[i].status \in listing.wanted /\ table[i].status # s
        BY <1>3, <2>3
  <2>. QED BY <1>2, <1>9, <2>1, <2>2, <2>3 DEF Coverage
<1>10. Coverage'
  <2>1. Found' \subseteq Existing'
        BY <1>3, <1>4, <1>5, <1>7 DEF Coverage, Found
  <2>2. ASSUME listing'.pc = "status"
        PROVE  /\ listing'.wanted # {}
               /\ listing'.wanted # listing'.filter
               /\ listing'.wanted \subseteq listing'.filter
               /\ \A r \in listing'.wanted, t \in listing'.filter :
                    Before(r, t) => t \in listing'.wanted
    <3>1. listing.wanted # {s} BY <1>3, <2>2
    <3>2. s \in listing.wanted BY <1>1 DEF NextWanted
    <3>3. \A r \in listing.wanted \ {s} : Before(s, r) BY <1>1 DEF NextWanted
    <3>4. \A r \in Status : ~(Before(r, s) /\ Before(s, r)) BY DEF Before, Enum, Status
    <3>5. listing.wanted \subseteq Status BY DEF ListingTypeOK
    <3>6. ~ Before(s, s) BY <3>4
    <3>7. \A r \in listing.wanted \ {s} : ~ Before(r, s) BY <3>3, <3>4, <3>5
    <3>. QED BY <1>2, <1>3, <3>1, <3>2, <3>7 DEF Coverage
  <2>3. steady' \subseteq Matching(listing.filter)'
        BY <1>2, <1>3, <1>7 DEF Coverage
  <2>4. \A i \in Incident : replica'[i].status # "MISSING" => i \in Existing'
        BY <1>2, <1>7 DEF Coverage
  <2>5. listing'.pc \in {"status", "answered"} BY <1>3
  <2>6. \A i \in steady' :
           i \in Found' \/ table'[i].status \in listing'.wanted \/ BeyondScan(i)'
        BY <1>2, <1>7, <1>9
  <2>. QED BY <1>2, <1>3, <2>1, <2>2, <2>3, <2>4, <2>5, <2>6 DEF Coverage
<1>12. NobodyIsMissed'
  <2>1. listing'.pc = "answered" => listing'.wanted = {}
        BY <1>3
  <2>. QED BY <1>2, <1>3, <1>7, <1>9, <2>1 DEF NobodyIsMissed
<1>11. ListedOnce'
  <2>1. ASSUME Cardinality(listing.filter) = 1
        PROVE  listing.items = {}
    <3>1. PICK f : listing.filter = {f}
      <4>1. listing.filter \in SUBSET Status BY DEF ListingTypeOK
      <4>2. IsFiniteSet(listing.filter) BY <4>1, StatusFinite, FS_Subset
      <4>. QED BY <2>1, <4>2, FS_Singleton
    <3>. QED BY <1>2, <3>1 DEF Coverage
  <2>2. listing.filter # Status BY <1>2 DEF Coverage
  <2>. QED BY <1>3, <1>5, <2>1, <2>2 DEF ListedOnce
<1>. QED BY <1>6, <1>10, <1>11, <1>12

-----------------------------------------------------------------------------
(* The theorems *)

LEMMA InitHolds ==
  ASSUME ListingInit
  PROVE  IInv
<1>1. ListingTypeOK
  <2>1. StoreTypeOK
        BY DEF ListingInit, StoreInit, StoreTypeOK, Item, Missing, Result, NoResult
  <2>. QED BY <2>1, FaultsAssumption DEF ListingInit, ListingTypeOK, FaultsTypeOK
<1>2. Coverage BY DEF ListingInit, Coverage, Found, StoreInit, Missing, Existing
<1>3. NobodyIsMissed /\ ListedOnce BY DEF ListingInit, NobodyIsMissed, ListedOnce
<1>. QED BY <1>1, <1>2, <1>3 DEF IInv, ListingInv

LEMMA ListingInductive == ListingSpec => []IInv
<1>1. ASSUME IInv, [ListingNext]_vars PROVE IInv'
  <2>1. ASSUME NEW filter \in Filter, Ask(filter) PROVE IInv' BY <1>1, <2>1, AskKeeps
  <2>2. CASE AllPage BY <1>1, <2>2, AllPageKeeps
  <2>3. CASE StatusPage BY <1>1, <2>3, StatusPageKeeps
  <2>4. CASE Others BY <1>1, <2>4, OthersKeep
  <2>5. CASE UNCHANGED vars
        BY <1>1, <2>5 DEF vars, storeVars, IInv, ListingInv, ListingTypeOK, StoreTypeOK,
           FaultsTypeOK, Coverage, Found, Existing, Matching, Reads, BeyondScan,
           NobodyIsMissed, ListedOnce
  <2>. QED BY <1>1, <2>1, <2>2, <2>3, <2>4, <2>5 DEF ListingNext
<1>. QED BY InitHolds, <1>1, PTL DEF ListingSpec

\* What the scan has behind it and what it has before it cover the table, for
\* every page size, every order of the others' moves and every lag of a page.
THEOREM ListingCovers == ListingSpec => []ListingInv
BY ListingInductive, PTL DEF IInv

\* A listing shows every incident that matched, in every copy a scan may read,
\* while it was put together: the board's unless it is full, a status list's
\* unless the scan's limit kept it from getting there.
THEOREM ListingMissesNobody == ListingSpec => []NobodyIsMissed
BY ListingInductive, PTL DEF IInv

\* The board's list, and that of a single status, show an incident once, even
\* from pages that lag.
THEOREM ListingShowsOnce == ListingSpec => []ListedOnce
BY ListingInductive, PTL DEF IInv
=============================================================================
