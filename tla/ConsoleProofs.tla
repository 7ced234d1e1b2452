---------------------------- MODULE ConsoleProofs ----------------------------
(***************************************************************************)
(* What holds of the console's job list and of its search for every value  *)
(* of the constants.                                                       *)
(***************************************************************************)
EXTENDS ConsoleProperties, JobStoreProofs, Induction, FiniteSetTheorems

-------------------------------------------------------------------------------
(* Pages and totals.                                                       *)

Entry == [id : Job, status : Status, favorite : BOOLEAN, filename : Name]
Count == 0..Cardinality(Job)

LEMMA Sizes ==
  ASSUME IsFiniteSet(Job), NEW S \in SUBSET Job
  PROVE  IsFiniteSet(S) /\ Cardinality(S) \in Count
<1>1. Cardinality(Job) \in Nat
  BY FS_CardinalityType
<1>2. IsFiniteSet(S) /\ Cardinality(S) <= Cardinality(Job)
  BY FS_Subset
<1>3. Cardinality(S) \in Nat
  BY <1>2, FS_CardinalityType
<1> QED
  BY <1>1, <1>2, <1>3 DEF Count

LEMMA MatchesAreJobs == ASSUME NEW p PROVE Matches(p) \in SUBSET Job
BY DEF Matches

\* A total and a queue depth are numbers of jobs.
LEMMA Counts ==
  ASSUME ConsoleAssumption, NEW p
  PROVE  Total(p) \in Count /\ QueueDepth \in Count
<1>1. Matches(p) \in SUBSET Job /\ Queued \in SUBSET Job
  BY MatchesAreJobs DEF Queued
<1> QED
  BY <1>1, Sizes DEF Total, QueueDepth, ConsoleAssumption

LEMMA LargerOfTwo ==
  ASSUME NEW a \in Int, NEW b \in Int
  PROVE  Max({a, b}) = IF a >= b THEN a ELSE b
<1> DEFINE m == IF a >= b THEN a ELSE b
<1>1. m \in {a, b} /\ \A y \in {a, b} : m >= y
  OBVIOUS
<1>2. \A x \in {a, b} : (\A y \in {a, b} : x >= y) => x = m
  OBVIOUS
<1> HIDE DEF m
<1>3. Max({a, b}) = m
  BY <1>1, <1>2, Zenon DEF Max
<1> QED
  BY <1>3 DEF m

LEMMA SmallerOfTwo ==
  ASSUME NEW a \in Int, NEW b \in Int
  PROVE  Min({a, b}) = IF a <= b THEN a ELSE b
<1> DEFINE m == IF a <= b THEN a ELSE b
<1>1. m \in {a, b} /\ \A y \in {a, b} : m <= y
  OBVIOUS
<1>2. \A x \in {a, b} : (\A y \in {a, b} : x <= y) => x = m
  OBVIOUS
<1> HIDE DEF m
<1>3. Min({a, b}) = m
  BY <1>1, <1>2, Zenon DEF Min
<1> QED
  BY <1>3 DEF m

\* Whatever the limit and the offset, a page lists jobs.
LEMMA PagesListJobs ==
  ASSUME ConsoleAssumption, NEW p, p.offset \in Int, p.limit \in Int, NEW rows \in Pages(p)
  PROVE  rows \in Seq(Job)
<1>1. PICK s \in Orders(p) : rows = SubSeq(s, Offset(p) + 1, Min({Len(s), Offset(p) + Limit(p)}))
  BY Zenon DEF Pages
<1>2. Matches(p) \in SUBSET Job
  BY MatchesAreJobs
<1>3. s \in [1..Cardinality(Matches(p)) -> Matches(p)]
  BY <1>1, Zenon DEF Orders, SetToSeqs
<1>4. Cardinality(Matches(p)) \in Nat
  BY <1>2, Sizes, FS_CardinalityType DEF ConsoleAssumption
<1>5. s \in Seq(Job)
  BY <1>2, <1>3, <1>4
<1> DEFINE o == Offset(p)
           l == Limit(p)
           e == Min({Len(s), o + l})
<1>6. o \in Nat
  BY LargerOfTwo DEF Offset
<1>7. l \in Nat
  <2> DEFINE atLeast == Max({1, p.limit})
  <2>1. atLeast \in Nat
    BY LargerOfTwo
  <2>2. l = Min({200, atLeast})
    BY Zenon DEF Limit
  <2> HIDE DEF atLeast, l
  <2> QED
    BY <2>1, <2>2, SmallerOfTwo
<1> HIDE DEF o, l
<1>8. e \in Nat /\ e <= Len(s)
  <2>1. Len(s) \in Nat /\ o + l \in Nat
    BY <1>5, <1>6, <1>7
  <2> QED
    BY <2>1, SmallerOfTwo
<1> HIDE DEF e
<1>9. rows = SubSeq(s, o + 1, e)
  BY <1>1, Zenon DEF o, l, e
<1>10. SubSeq(s, o + 1, e) \in Seq(Job)
  <2>1. \A i \in (o + 1)..e : s[i] \in Job
    BY <1>5, <1>6, <1>8
  <2> QED
    BY <2>1, <1>6, <1>8, SubSeqProperties
<1> QED
  BY <1>9, <1>10

LEMMA ViewsAreEntries ==
  ASSUME StoreTypeOK, NEW rows \in Seq(Job)
  PROVE  Views(rows) \in Seq(Entry)
<1>1. ASSUME NEW j \in Job PROVE View(j) \in Entry
  <2>1. jobs[j] \in Row
    BY DEF StoreTypeOK
  <2>2. /\ jobs[j].status \in Status /\ jobs[j].favorite \in BOOLEAN
        /\ jobs[j].filename \in Name
    BY <2>1, Zenon DEF Row
  <2> QED
    BY <2>2, Zenon DEF View, Entry
<1> HIDE DEF Views
<1>2. Views(rows) = [i \in 1..Len(rows) |-> View(rows[i])]
  BY DEF Views
<1>3. Len(rows) \in Nat /\ \A i \in 1..Len(rows) : rows[i] \in Job
  OBVIOUS
<1>4. Views(rows) \in [1..Len(rows) -> Entry]
  BY <1>1, <1>2, <1>3, Zenon
<1> QED
  BY <1>3, <1>4

-------------------------------------------------------------------------------
(* The inductive invariant.                                                *)

\* A refresh on its way, with what it has been answered so far.
Answer == [at : {"sent", "paged", "counted"}, for : Filters, page : Seq(Entry),
           total : Count \cup {Null}, depth : Count \cup {Null}]

Write == [kind : {"patch", "delete"}, id : Job, name : Name \cup {Null},
          star : BOOLEAN \cup {Null}, at : {"sent", "answered"}]

ShownOK ==
  /\ page \in Seq(Entry) /\ total \in Count /\ queueDepth \in Count
  /\ online \in BOOLEAN /\ loaded \in BOOLEAN

\* Every page turned took a click.
FiltersOK ==
  /\ filters \in Filters /\ moves \in 0..MaxMoves
  /\ \E n \in 0..moves : filters.offset = PageSize * n

\* Every loop stopped took a click as well.
LoopOK == loop \in 0..moves

\* A refresh whose total has been read has one to show.
RequestsOK ==
  /\ requests \in [Slot -> Answer \cup {Idle}]
  /\ \A r \in Slot : requests[r].at = "counted" => requests[r].total \in Count

WritesOK == writes \subseteq Write

\* Nothing has been sent of an edit that is still open.
EditOK ==
  /\ edit \in [editing : Job \cup {Null}, draft : Name \cup {<<>>}]
  /\ patched \in {0, 1}
  /\ edit.editing # Null => patched = 0

ConsoleInv ==
  /\ StoreTypeOK /\ ShownOK /\ FiltersOK /\ LoopOK /\ RequestsOK /\ WritesOK /\ EditOK
  /\ debounce \in BOOLEAN

LEMMA NumbersOfClicks ==
  ASSUME ConsoleAssumption, NEW n \in 0..MaxMoves
  PROVE  PageSize * n \in {PageSize * k : k \in 0..MaxMoves} /\ PageSize * n \in Nat
<1>1. \A k \in Nat : PageSize * k \in Nat
  BY DEF ConsoleAssumption
<1>2. n \in Nat
  BY DEF ConsoleAssumption
<1> QED
  BY <1>1, <1>2

\* The page a filter asks for begins at a number and has a size.
LEMMA FiltersAreNumbers ==
  ASSUME ConsoleAssumption, NEW f \in Filters
  PROVE  f.offset \in Nat /\ f.limit = PageSize /\ f.offset \in Int /\ f.limit \in Int
<1>1. f.offset \in {PageSize * k : k \in 0..MaxMoves} /\ f.limit = PageSize
  BY Zenon DEF Filters
<1>2. PICK k \in 0..MaxMoves : f.offset = PageSize * k
  BY <1>1
<1>3. PageSize * k \in Nat
  BY NumbersOfClicks
<1> QED
  BY <1>1, <1>2, <1>3 DEF ConsoleAssumption

LEMMA Untouched ==
  ASSUME ConsoleInv
  PROVE  /\ UNCHANGED jobs => StoreTypeOK'
         /\ UNCHANGED shown => ShownOK'
         /\ UNCHANGED filters /\ (Move \/ UNCHANGED moves) => FiltersOK'
         /\ UNCHANGED loop /\ (Move \/ UNCHANGED moves) => LoopOK'
         /\ UNCHANGED requests => RequestsOK'
         /\ UNCHANGED writes => WritesOK'
         /\ UNCHANGED <<edit, patched>> => EditOK'
         /\ UNCHANGED debounce => debounce' \in BOOLEAN
<1>1. UNCHANGED jobs => StoreTypeOK'
  BY Zenon DEF ConsoleInv, StoreTypeOK
<1>2. UNCHANGED shown => ShownOK'
  BY Zenon DEF ConsoleInv, ShownOK, shown
<1>3. ASSUME UNCHANGED filters, Move \/ UNCHANGED moves PROVE FiltersOK'
  <2>1. /\ filters \in Filters /\ moves \in 0..MaxMoves
        /\ \E n \in 0..moves : filters.offset = PageSize * n
    BY Zenon DEF ConsoleInv, FiltersOK
  <2>2. moves' \in 0..MaxMoves /\ 0..moves \subseteq 0..moves'
    BY <1>3, <2>1, ConsoleAssumption DEF Move, ConsoleAssumption
  <2> QED
    BY <1>3, <2>1, <2>2, Zenon DEF FiltersOK
<1>4. UNCHANGED requests => RequestsOK'
  BY Zenon DEF ConsoleInv, RequestsOK
<1>5. UNCHANGED writes => WritesOK'
  BY Zenon DEF ConsoleInv, WritesOK
<1>6. UNCHANGED <<edit, patched>> => EditOK'
  BY Zenon DEF ConsoleInv, EditOK
<1>7. UNCHANGED debounce => debounce' \in BOOLEAN
  BY Zenon DEF ConsoleInv
<1>8. ASSUME UNCHANGED loop, Move \/ UNCHANGED moves PROVE LoopOK'
  BY <1>8, ConsoleAssumption DEF ConsoleInv, LoopOK, FiltersOK, Move, ConsoleAssumption
<1> QED
  BY <1>1, <1>2, <1>3, <1>4, <1>5, <1>6, <1>7, <1>8, Zenon

LEMMA ConsoleStart == ASSUME ConsoleAssumption, StoreAssumption, JobListAssumption, ConsoleInit PROVE ConsoleInv
<1>1. StoreTypeOK
  BY Zenon DEF ConsoleInit, StoreTypeOK, ConsoleAssumption
<1>2. 0 \in Count /\ moves \in 0..MaxMoves /\ 0 \in 0..moves /\ PageSize * 0 = 0
  <2>1. Cardinality(Job) \in Nat
    BY FS_CardinalityType DEF ConsoleAssumption
  <2> QED
    BY <2>1 DEF ConsoleInit, ConsoleAssumption, Count
<1>3. <<>> \in Seq(Entry)
  OBVIOUS
<1>4. ShownOK
  BY <1>2, <1>3, Zenon DEF ConsoleInit, ShownOK
<1>5. FirstFilters \in Filters /\ FirstFilters.offset = 0
  <2>1. 0 \in {PageSize * n : n \in 0..MaxMoves}
    BY <1>2 DEF ConsoleInit
  <2>2. /\ <<>> \in Query /\ "newest" \in Sort
    BY DEF JobListAssumption, ConsoleAssumption
  <2> QED
    BY <2>1, <2>2, Zenon DEF FirstFilters, Filters
<1>6. FiltersOK
  BY <1>2, <1>5, Zenon DEF ConsoleInit, FiltersOK
<1>7. RequestsOK
  <2>1. Asked(filters) \in Answer /\ Asked(filters).at # "counted"
    <3>1. "sent" # "counted" /\ filters \in Filters
      BY <1>5 DEF ConsoleInit
    <3> QED
      BY <1>3, <3>1, Zenon DEF Asked, Answer
  <2>2. Idle.at # "counted"
    BY DEF Idle
  <2> HIDE DEF Asked
  <2> QED
    BY <2>1, <2>2, Zenon DEF ConsoleInit, RequestsOK
<1>8. WritesOK
  BY DEF ConsoleInit, WritesOK
<1>9. EditOK
  <2>1. (CHOOSE n \in Name : TRUE) \in Name
    BY Zenon DEF StoreAssumption
  <2> QED
    BY <2>1, Zenon DEF ConsoleInit, EditOK, NoEdit
<1>10. LoopOK
  BY <1>2, Zenon DEF ConsoleInit, LoopOK
<1> QED
  BY <1>1, <1>4, <1>6, <1>7, <1>8, <1>9, <1>10, Zenon DEF ConsoleInv, ConsoleInit

-------------------------------------------------------------------------------
(* The refreshes.                                                          *)

LEMMA OnItsWay ==
  ASSUME RequestsOK, NEW r \in Slot, requests[r].at # "idle" \/ requests[r] # Idle
  PROVE  requests[r] \in Answer
<1>1. Idle.at = "idle"
  BY DEF Idle
<1> QED
  BY <1>1, Zenon DEF RequestsOK

LEMMA OneRequest ==
  ASSUME RequestsOK, NEW r \in Slot, NEW a \in Answer \cup {Idle},
         a.at = "counted" => a.total \in Count,
         requests' = [requests EXCEPT ![r] = a]
  PROVE  RequestsOK'
<1>1. requests' \in [Slot -> Answer \cup {Idle}]
  BY Zenon DEF RequestsOK
<1>2. \A q \in Slot : requests'[q] = IF q = r THEN a ELSE requests[q]
  BY Zenon DEF RequestsOK
<1> QED
  BY <1>1, <1>2, Zenon DEF RequestsOK

LEMMA AskedIsAnswer ==
  ASSUME NEW f \in Filters
  PROVE  Asked(f) \in Answer /\ Asked(f).at # "counted"
<1>1. "sent" # "counted" /\ <<>> \in Seq(Entry)
  OBVIOUS
<1> QED
  BY <1>1, Zenon DEF Asked, Answer

LEMMA RefreshOK ==
  ASSUME ConsoleInv, NEW r \in Slot, Refresh(r)
  PROVE  RequestsOK'
<1>1. filters \in Filters
  BY Zenon DEF ConsoleInv, FiltersOK
<1> HIDE DEF Asked
<1> QED
  BY <1>1, AskedIsAnswer, OneRequest, Zenon DEF Refresh, ConsoleInv

LEMMA ReadPageOK ==
  ASSUME ConsoleAssumption, ConsoleInv, NEW r \in Slot, ReadPage(r)
  PROVE  RequestsOK'
<1>1. RequestsOK /\ StoreTypeOK
  BY Zenon DEF ConsoleInv
<1>2. requests[r] \in Answer /\ requests \in [Slot -> Answer \cup {Idle}]
  BY <1>1, OnItsWay DEF ReadPage, RequestsOK
<1>3. requests[r].for \in Filters
  BY <1>2, Zenon DEF Answer
<1>4. PICK rows \in Pages(requests[r].for) :
        requests' = [requests EXCEPT ![r].at = "paged", ![r].page = Views(rows)]
  BY Zenon DEF ReadPage
<1>5. Views(rows) \in Seq(Entry)
  BY <1>1, <1>3, FiltersAreNumbers, PagesListJobs, ViewsAreEntries, Zenon
<1> DEFINE v == Views(rows)
           a == [requests[r] EXCEPT !.at = "paged", !.page = v]
<1> HIDE DEF v
<1>6. requests' = [requests EXCEPT ![r] = a]
  BY <1>2, <1>4 DEF v
<1>7. a \in Answer /\ a.at = "paged"
  BY <1>2, <1>5, Zenon DEF Answer, v
<1> HIDE DEF a
<1>8. a.at # "counted"
  BY <1>7
<1> QED
  BY <1>1, <1>6, <1>7, <1>8, OneRequest, Zenon

LEMMA ReadTotalOK ==
  ASSUME ConsoleAssumption, ConsoleInv, NEW r \in Slot, ReadTotal(r)
  PROVE  RequestsOK'
<1>1. RequestsOK
  BY Zenon DEF ConsoleInv
<1>2. requests[r] \in Answer /\ requests \in [Slot -> Answer \cup {Idle}]
  BY <1>1, OnItsWay DEF ReadTotal, RequestsOK
<1> DEFINE t == Total(requests[r].for)
           a == [requests[r] EXCEPT !.at = "counted", !.total = t]
<1>3. t \in Count
  BY Counts
<1> HIDE DEF t
<1>4. requests' = [requests EXCEPT ![r] = a]
  BY <1>2 DEF ReadTotal, t
<1>5. a \in Answer /\ a.total = t
  BY <1>2, <1>3, Zenon DEF Answer
<1> HIDE DEF a
<1> QED
  BY <1>1, <1>3, <1>4, <1>5, OneRequest, Zenon

LEMMA ReadHealthOK ==
  ASSUME ConsoleAssumption, ConsoleInv, NEW r \in Slot, ReadHealth(r)
  PROVE  RequestsOK'
<1>1. RequestsOK
  BY Zenon DEF ConsoleInv
<1>2. requests[r] \in Answer /\ requests \in [Slot -> Answer \cup {Idle}]
  BY <1>1, OnItsWay DEF ReadHealth, RequestsOK
<1> DEFINE d == QueueDepth
           a == [requests[r] EXCEPT !.depth = d]
<1>3. d \in Count
  BY Counts
<1> HIDE DEF d
<1>4. requests' = [requests EXCEPT ![r] = a]
  BY <1>2 DEF ReadHealth, d
<1>5. a \in Answer /\ a.at = requests[r].at /\ a.total = requests[r].total
  BY <1>2, <1>3, Zenon DEF Answer
<1>6. requests[r].at = "counted" => requests[r].total \in Count
  BY <1>1, Zenon DEF RequestsOK
<1> HIDE DEF a
<1> QED
  BY <1>1, <1>4, <1>5, <1>6, OneRequest, Zenon

\* What a refresh shows is what it was answered.
LEMMA TakeAnswerOK ==
  ASSUME ConsoleAssumption, ConsoleInv, NEW r \in Slot,
         NEW searched \in BOOLEAN, NEW healthy \in BOOLEAN, TakeAnswer(r, searched, healthy)
  PROVE  ShownOK' /\ RequestsOK'
<1>1. RequestsOK /\ ShownOK
  BY Zenon DEF ConsoleInv
<1>2. requests[r] \in Answer /\ requests[r] # Idle
  BY <1>1, OnItsWay, Zenon DEF TakeAnswer
<1>3. requests' = [requests EXCEPT ![r] = Idle]
  BY Zenon DEF TakeAnswer
<1>4. RequestsOK'
  <2>1. Idle.at # "counted"
    BY DEF Idle
  <2> QED
    BY <1>1, <1>3, <2>1, OneRequest, Zenon
<1>5. page' \in Seq(Entry) /\ total' \in Count
  <2>1. CASE searched
    <3>1. page' = requests[r].page /\ total' = requests[r].total /\ requests[r].at = "counted"
      BY <2>1, Zenon DEF TakeAnswer
    <3> QED
      BY <1>1, <1>2, <3>1, Zenon DEF Answer, RequestsOK
  <2>2. CASE ~searched
    BY <1>1, <2>2, Zenon DEF TakeAnswer, ShownOK
  <2> QED
    BY <2>1, <2>2
<1>6. queueDepth' \in Count
  <2>1. CASE healthy
    BY <1>2, <2>1, Zenon DEF TakeAnswer, Answer
  <2>2. CASE ~healthy
    BY <1>1, <2>2, Zenon DEF TakeAnswer, ShownOK
  <2> QED
    BY <2>1, <2>2
<1>7. online' \in BOOLEAN /\ loaded' \in BOOLEAN
  BY Zenon DEF TakeAnswer
<1> QED
  BY <1>4, <1>5, <1>6, <1>7, Zenon DEF ShownOK

-------------------------------------------------------------------------------
(* The toolbar and the pager.                                              *)

\* Filters that a click has set.
LEMMA Clicked ==
  ASSUME ConsoleAssumption, FiltersOK, Move, NEW o, filters' = [filters EXCEPT !.offset = o],
         NEW n \in 0..(moves + 1), o = PageSize * n
  PROVE  FiltersOK'
<1>1. moves' = moves + 1 /\ moves' \in 0..MaxMoves /\ n \in 0..moves' /\ n \in 0..MaxMoves
  BY DEF Move, FiltersOK, ConsoleAssumption
<1>2. o \in {PageSize * k : k \in 0..MaxMoves}
  BY <1>1, NumbersOfClicks, Zenon
<1>3. filters \in Filters
  BY Zenon DEF FiltersOK
<1>4. filters' \in Filters /\ filters'.offset = o
  BY <1>2, <1>3, Zenon DEF Filters
<1> QED
  BY <1>1, <1>4, Zenon DEF FiltersOK

LEMMA NarrowOK ==
  ASSUME ConsoleAssumption, FiltersOK, Narrow
  PROVE  FiltersOK'
<1>1. PICK q \in Query, s \in Sort, fav \in BOOLEAN :
        SetFilters([filters EXCEPT !.q = q, !.sort = s, !.favorite = fav, !.offset = 0])
  BY Zenon DEF Narrow
<1>2. filters \in Filters
  BY Zenon DEF FiltersOK
<1>3. moves' \in 0..MaxMoves /\ 0 \in 0..moves' /\ 0 \in 0..MaxMoves /\ PageSize * 0 = 0
  BY <1>1 DEF SetFilters, Move, FiltersOK, ConsoleAssumption
<1>4. 0 \in {PageSize * k : k \in 0..MaxMoves}
  BY <1>3
<1>5. filters' = [filters EXCEPT !.q = q, !.sort = s, !.favorite = fav, !.offset = 0]
  BY <1>1, Zenon DEF SetFilters
<1>6. filters' \in Filters /\ filters'.offset = 0
  BY <1>2, <1>4, <1>5, Zenon DEF Filters
<1> QED
  BY <1>3, <1>6, Zenon DEF FiltersOK

\* Page numbers: back from any but the first, and on.
LEMMA PagesAway ==
  ASSUME ConsoleAssumption, NEW n \in Nat
  PROVE  /\ PageSize * n # 0 => n - 1 \in Nat /\ Max({0, PageSize * n - PageSize}) = PageSize * (n - 1)
         /\ PageSize * n + PageSize = PageSize * (n + 1)
<1>1. PageSize \in Nat /\ PageSize > 0
  BY DEF ConsoleAssumption
<1>2. PageSize * n + PageSize = PageSize * (n + 1)
  BY <1>1
<1>3. ASSUME PageSize * n # 0
      PROVE  n - 1 \in Nat /\ Max({0, PageSize * n - PageSize}) = PageSize * (n - 1)
  <2>1. n # 0 /\ n - 1 \in Nat
    BY <1>1, <1>3
  <2>2. PageSize * n - PageSize = PageSize * (n - 1)
    BY <1>1, <2>1
  <2>3. PageSize * (n - 1) \in Nat
    BY <1>1, <2>1
  <2> DEFINE o == PageSize * (n - 1)
  <2>4. o \in Nat /\ o \in Int
    BY <2>3
  <2> HIDE DEF o
  <2>5. Max({0, o}) = o
    BY <2>4, LargerOfTwo
  <2> QED
    BY <2>1, <2>2, <2>5 DEF o
<1> QED
  BY <1>2, <1>3

LEMMA PagerOK ==
  ASSUME ConsoleAssumption, FiltersOK, PrevPage \/ NextPage
  PROVE  FiltersOK'
<1>1. PICK n \in 0..moves : filters.offset = PageSize * n
  BY Zenon DEF FiltersOK
<1>2. /\ n \in Nat /\ n + 1 \in 0..(moves + 1) /\ moves \in Nat
      /\ n - 1 \in Nat => n - 1 \in 0..(moves + 1)
  BY <1>1 DEF FiltersOK, ConsoleAssumption
<1>3. CASE PrevPage
  <2>1. /\ Move /\ filters.offset # 0
        /\ filters' = [filters EXCEPT !.offset = Max({0, filters.offset - PageSize})]
    BY <1>3, Zenon DEF PrevPage, SetFilters
  <2>2. n - 1 \in Nat /\ Max({0, filters.offset - PageSize}) = PageSize * (n - 1)
    BY <1>1, <1>2, <2>1, PagesAway
  <2> QED
    BY <1>2, <2>1, <2>2, Clicked, Zenon
<1>4. CASE NextPage
  <2>1. /\ Move
        /\ filters' = [filters EXCEPT !.offset = filters.offset + PageSize]
    BY <1>4, Zenon DEF NextPage, SetFilters
  <2>2. filters.offset + PageSize = PageSize * (n + 1)
    BY <1>1, <1>2, PagesAway
  <2> QED
    BY <1>2, <2>1, <2>2, Clicked, Zenon
<1> QED
  BY <1>3, <1>4

\* A change of the filters stops the loop and starts another, with a refresh.
LEMMA NewLoopOK ==
  ASSUME ConsoleAssumption, ConsoleInv, NEW f, SetFilters(f), FiltersOK'
  PROVE  LoopOK' /\ RequestsOK'
<1>1. /\ Move /\ filters' = f /\ loop' = loop + 1
      /\ requests' = [requests EXCEPT ![loop'] = Asked(f)]
  BY Zenon DEF SetFilters
<1>2. loop \in 0..moves /\ moves \in 0..MaxMoves /\ RequestsOK
  BY Zenon DEF ConsoleInv, LoopOK, FiltersOK
<1>3. loop' \in 0..moves' /\ loop' \in 0..MaxMoves
  BY <1>1, <1>2 DEF Move, ConsoleAssumption
<1>4. loop' \in Slot
  BY <1>3, Zenon DEF Slot
<1>5. f \in Filters
  BY <1>1, Zenon DEF FiltersOK
<1> HIDE DEF Asked
<1>6. RequestsOK'
  BY <1>1, <1>2, <1>4, <1>5, AskedIsAnswer, OneRequest, Zenon
<1> QED
  BY <1>3, <1>6, Zenon DEF LoopOK

-------------------------------------------------------------------------------
(* The rows.                                                               *)

LEMMA EntryShown ==
  ASSUME ShownOK, NEW i \in DOMAIN page
  PROVE  /\ page[i] \in Entry /\ page[i].id \in Job
         /\ page[i].favorite \in BOOLEAN /\ page[i].filename \in Name
<1>1. page[i] \in Entry
  BY DEF ShownOK
<1> QED
  BY <1>1, Zenon DEF Entry

LEMMA ToggleFavoriteOK ==
  ASSUME ConsoleInv, NEW i \in DOMAIN page, ToggleFavorite(i)
  PROVE  ShownOK' /\ WritesOK'
<1>1. ShownOK /\ WritesOK
  BY Zenon DEF ConsoleInv
<1>2. page[i] \in Entry /\ page[i].id \in Job /\ page[i].favorite \in BOOLEAN
  BY <1>1, EntryShown
<1> DEFINE e == [page[i] EXCEPT !.favorite = ~page[i].favorite]
           w == Patch(page[i].id, Null, ~page[i].favorite)
<1>3. e \in Entry
  BY <1>2, Zenon DEF Entry
<1>4. w \in Write
  BY <1>2, Zenon DEF Patch, Write
<1>5. page \in Seq(Entry)
  BY <1>1, Zenon DEF ShownOK
<1>6. page' = [page EXCEPT ![i] = e] /\ writes' = writes \cup {w}
  BY <1>5, Zenon DEF ToggleFavorite
<1> HIDE DEF e, w
<1>7. page' \in Seq(Entry)
  BY <1>3, <1>5, <1>6
<1>8. WritesOK'
  BY <1>1, <1>4, <1>6, Zenon DEF WritesOK
<1>9. UNCHANGED <<total, queueDepth, online, loaded>>
  BY Zenon DEF ToggleFavorite
<1> QED
  BY <1>1, <1>7, <1>8, <1>9, Zenon DEF ShownOK

LEMMA RemoveJobOK ==
  ASSUME ConsoleInv, NEW i \in DOMAIN page, RemoveJob(i)
  PROVE  WritesOK'
<1>1. ShownOK /\ WritesOK
  BY Zenon DEF ConsoleInv
<1>2. page[i].id \in Job
  BY <1>1, EntryShown
<1>3. Deletion(page[i].id) \in Write
  BY <1>2, Zenon DEF Deletion, Write
<1> QED
  BY <1>1, <1>3, Zenon DEF RemoveJob, WritesOK

LEMMA StartEditOK ==
  ASSUME ConsoleInv, NEW i \in DOMAIN page, StartEdit(i)
  PROVE  EditOK'
<1>1. page[i].id \in Job
  BY EntryShown DEF ConsoleInv
<1>2. PICK draft \in Name \cup {<<>>} : edit' = [editing |-> page[i].id, draft |-> draft]
  BY Zenon DEF StartEdit
<1>3. patched' = 0
  BY Zenon DEF StartEdit
<1>4. edit' \in [editing : Job \cup {Null}, draft : Name \cup {<<>>}]
  BY <1>1, <1>2, Zenon
<1>5. patched' \in {0, 1}
  BY <1>3
<1> QED
  BY <1>3, <1>4, <1>5, Zenon DEF EditOK

\* Saving closes the edit of its row, and sends the draft if that is another
\* name.
LEMMA SaveNameCloses ==
  ASSUME NEW row, NEW e, e \in [editing : Job \cup {Null}, sent : {<<>>}, draft : Name \cup {<<>>}],
         e.editing = row.id
  PROVE  LET saved == SaveName(row, e)
         IN  /\ saved.editing = Null
             /\ \/ saved.sent = <<>>
                \/ e.draft \in Name /\ saved.sent = <<Patch(row.id, e.draft, Null)>>
<1>1. CASE e.draft \in {<<>>, row.filename}
  <2>1. SaveName(row, e) = [e EXCEPT !.editing = Null]
    BY <1>1 DEF SaveName
  <2> QED
    BY <2>1
<1>2. CASE e.draft \notin {<<>>, row.filename}
  <2> DEFINE w == Patch(row.id, e.draft, Null)
  <2>1. SaveName(row, e) = [e EXCEPT !.editing = Null, !.sent = Append(e.sent, w)]
    BY <1>2, Zenon DEF SaveName
  <2>2. e.sent = <<>> /\ e.draft \in Name
    BY <1>2
  <2> HIDE DEF w
  <2>3. Append(e.sent, w) = <<w>>
    BY <2>2
  <2> QED
    BY <2>1, <2>2, <2>3 DEF w
<1> QED
  BY <1>1, <1>2

\* However an edit ends, it is over, and one PATCH at most has been sent of it.
LEMMA EndEditOK ==
  ASSUME StoreAssumption, ConsoleInv, NEW i \in DOMAIN page,
         NEW key \in {"Enter", "Escape", "blur"}, EndEdit(i, key)
  PROVE  WritesOK' /\ EditOK'
<1>1. EditOK /\ WritesOK /\ ShownOK
  BY Zenon DEF ConsoleInv
<1> DEFINE row  == page[i]
           e    == [editing |-> edit.editing, sent |-> <<>>,
                    draft |-> IF key = "Escape" THEN row.filename ELSE edit.draft]
           once == SaveName(row, e)
           done == IF key = "blur" THEN once ELSE SaveName(row, once)
<1>2. row.id \in Job /\ row.filename \in Name
  BY <1>1, EntryShown
<1>3. /\ edit.editing = row.id
      /\ edit' = IF done.editing = Null THEN NoEdit
                 ELSE [editing |-> done.editing, draft |-> done.draft]
      /\ writes' = writes \cup Range(done.sent)
      /\ patched' = patched + Len(done.sent)
  BY Zenon DEF EndEdit
<1>4. edit \in [editing : Job \cup {Null}, draft : Name \cup {<<>>}]
  BY <1>1, Zenon DEF EditOK
<1>5. e \in [editing : Job \cup {Null}, sent : {<<>>}, draft : Name \cup {<<>>}]
  BY <1>2, <1>4, Zenon
<1>6. e.editing = row.id
  BY <1>3
<1> DEFINE w == Patch(row.id, e.draft, Null)
<1>7. /\ once.editing = Null
      /\ once.sent = <<>> \/ (e.draft \in Name /\ once.sent = <<w>>)
  BY <1>5, <1>6, SaveNameCloses, Zenon
<1>8. row.id # Null
  BY <1>2 DEF StoreAssumption
<1> HIDE DEF e, once
<1>9. SaveName(row, once) = once
  BY <1>7, <1>8, Zenon DEF SaveName
<1>10. done = once
  BY <1>9, Zenon
<1>11. w \in Write \/ once.sent = <<>>
  BY <1>2, <1>7, Zenon DEF Patch, Write
<1>12. EditOK /\ patched = 0
  BY <1>1, <1>3, <1>8, Zenon DEF EditOK
<1> HIDE DEF done, w, row
<1>13. edit' = NoEdit /\ writes' = writes \cup Range(once.sent) /\ patched' = Len(once.sent)
  <2>1. edit' = NoEdit /\ writes' = writes \cup Range(once.sent)
    BY <1>3, <1>7, <1>10, Zenon
  <2>2. once.sent = <<>> \/ once.sent = <<w>>
    BY <1>7, Zenon
  <2>3. Len(once.sent) \in Nat
    BY <2>2
  <2> QED
    BY <1>3, <1>10, <1>12, <2>1, <2>3
<1>14. patched' \in {0, 1}
  <2>1. once.sent = <<>> \/ once.sent = <<w>>
    BY <1>7, Zenon
  <2> QED
    BY <1>13, <2>1
<1>15. WritesOK'
  <2>1. Range(once.sent) \subseteq {w} \/ once.sent = <<>>
    <3>1. CASE once.sent = <<w>>
      BY <3>1 DEF Range
    <3> QED
      BY <1>7, <3>1, Zenon
  <2>2. once.sent = <<>> => Range(once.sent) = {}
    BY DEF Range
  <2> QED
    BY <1>1, <1>11, <1>13, <2>1, <2>2, Zenon DEF WritesOK
<1>16. EditOK'
  <2>1. (CHOOSE n \in Name : TRUE) \in Name
    BY Zenon DEF StoreAssumption
  <2>2. NoEdit.editing = Null /\ NoEdit \in [editing : Job \cup {Null}, draft : Name \cup {<<>>}]
    BY <2>1, Zenon DEF NoEdit
  <2> QED
    BY <1>13, <1>14, <2>2, Zenon DEF EditOK
<1> QED
  BY <1>15, <1>16

\* patch_job and delete_job leave the table well typed.
LEMMA WriteReachesOK ==
  ASSUME StoreAssumption, ConsoleInv, NEW w \in writes, WriteReaches(w)
  PROVE  StoreTypeOK' /\ WritesOK'
<1>1. StoreTypeOK /\ WritesOK
  BY Zenon DEF ConsoleInv
<1>2. w \in Write
  BY <1>1 DEF WritesOK
<1>3. /\ w.id \in Job /\ w.name \in Name \cup {Null} /\ w.star \in BOOLEAN \cup {Null}
      /\ [w EXCEPT !.at = "answered"] \in Write
  BY <1>2, Zenon DEF Write
<1>4. WritesOK'
  BY <1>1, <1>3, Zenon DEF WriteReaches, WritesOK
<1>5. SetNameAndStar(w.id, w.name, w.star) \/ Delete(w.id) \/ UNCHANGED jobs
  BY Zenon DEF WriteReaches
<1>6. CASE SetNameAndStar(w.id, w.name, w.star)
  BY <1>1, <1>3, <1>4, <1>6, AnyPatchEffect, Zenon
<1>7. CASE Delete(w.id)
  BY <1>1, <1>3, <1>4, <1>7, DeleteEffect, Zenon
<1>8. CASE UNCHANGED jobs
  BY <1>1, <1>4, <1>8, Zenon DEF StoreTypeOK
<1> QED
  BY <1>5, <1>6, <1>7, <1>8

LEMMA WriteEndsOK ==
  ASSUME ConsoleInv, NEW w \in writes, WriteAnswered(w) \/ WriteLost(w)
  PROVE  WritesOK'
BY Zenon DEF ConsoleInv, WritesOK, WriteAnswered, WriteLost

LEMMA OthersOK ==
  ASSUME StoreAssumption, StoreTypeOK, Others
  PROVE  StoreTypeOK'
<1>1. PICK j \in Job :
        \/ \E name \in Name, t \in Instants : Insert(j, name, t)
        \/ ClaimNext(j)
        \/ Is(j, "running") /\ (SetDone(j, Stem) \/ SetFailed(j))
        \/ \E name \in Name, star \in Star : SetNameAndStar(j, name, star)
        \/ Delete(j)
  BY Zenon DEF Others
<1>2. ASSUME NEW name \in Name, NEW t \in Instants, Insert(j, name, t) PROVE StoreTypeOK'
  BY <1>2, InsertEffect, Zenon
<1>3. CASE ClaimNext(j)
  BY <1>3, ClaimEffect, Zenon
<1>4. CASE SetDone(j, Stem)
  <2>1. Stem \in SUBSET Stem
    OBVIOUS
  <2> QED
    BY <1>4, <2>1, DoneEffect, Zenon
<1>5. CASE SetFailed(j)
  BY <1>5, FailedEffect, Zenon
<1>6. ASSUME NEW name \in Name, NEW star \in Star, SetNameAndStar(j, name, star) PROVE StoreTypeOK'
  <2>1. name \in Name \cup {Null} /\ star \in Star \cup {Null}
    OBVIOUS
  <2> QED
    BY <1>6, <2>1, PatchEffect, Zenon
<1>7. CASE Delete(j)
  BY <1>7, DeleteEffect, Zenon
<1> QED
  BY <1>1, <1>2, <1>3, <1>4, <1>5, <1>6, <1>7, Zenon

-------------------------------------------------------------------------------

LEMMA RefreshingStep ==
  ASSUME ConsoleAssumption, ConsoleInv, NEW r \in Slot,
         ReadPage(r) \/ ReadTotal(r) \/ ReadHealth(r) \/ Answered(r) \/ Failed(r)
  PROVE  ConsoleInv'
<1>1. CASE ReadPage(r)
  <2>1. RequestsOK'
    BY <1>1, ReadPageOK
  <2> QED
    BY <1>1, <2>1, Untouched, Zenon DEF ReadPage, ConsoleInv
<1>2. CASE ReadTotal(r)
  <2>1. RequestsOK'
    BY <1>2, ReadTotalOK
  <2> QED
    BY <1>2, <2>1, Untouched, Zenon DEF ReadTotal, ConsoleInv
<1>3. CASE ReadHealth(r)
  <2>1. RequestsOK'
    BY <1>3, ReadHealthOK
  <2> QED
    BY <1>3, <2>1, Untouched, Zenon DEF ReadHealth, ConsoleInv
<1>4. ASSUME NEW searched \in BOOLEAN, NEW healthy \in BOOLEAN,
             TakeAnswer(r, searched, healthy), Move \/ UNCHANGED moves
      PROVE  ConsoleInv'
  <2>1. ShownOK' /\ RequestsOK'
    BY <1>4, TakeAnswerOK
  <2> QED
    BY <1>4, <2>1, Untouched, Zenon DEF TakeAnswer, ConsoleInv
<1>5. CASE Answered(r)
  BY <1>4, <1>5, Zenon DEF Answered
<1>6. CASE Failed(r)
  BY <1>4, <1>6, Zenon DEF Failed
<1> QED
  BY <1>1, <1>2, <1>3, <1>5, <1>6

LEMMA RowStep ==
  ASSUME StoreAssumption, ConsoleInv, NEW i \in DOMAIN page,
         \/ ToggleFavorite(i) \/ RemoveJob(i) \/ StartEdit(i)
         \/ \E key \in {"Enter", "Escape", "blur"} : EndEdit(i, key)
  PROVE  ConsoleInv'
<1>1. CASE ToggleFavorite(i)
  <2>1. ShownOK' /\ WritesOK'
    BY <1>1, ToggleFavoriteOK
  <2> QED
    BY <1>1, <2>1, Untouched, Zenon DEF ToggleFavorite, ConsoleInv
<1>2. CASE RemoveJob(i)
  <2>1. WritesOK'
    BY <1>2, RemoveJobOK
  <2> QED
    BY <1>2, <2>1, Untouched, Zenon DEF RemoveJob, ConsoleInv
<1>3. CASE StartEdit(i)
  <2>1. EditOK'
    BY <1>3, StartEditOK
  <2> QED
    BY <1>3, <2>1, Untouched, Zenon DEF StartEdit, ConsoleInv
<1>4. ASSUME NEW key \in {"Enter", "Escape", "blur"}, EndEdit(i, key) PROVE ConsoleInv'
  <2>1. WritesOK' /\ EditOK'
    BY <1>4, EndEditOK
  <2>2. UNCHANGED <<jobs, shown, filters, debounce, loop, requests, moves>>
    BY <1>4, Zenon DEF EndEdit
  <2> QED
    BY <2>1, <2>2, Untouched, Zenon DEF ConsoleInv
<1> QED
  BY <1>1, <1>2, <1>3, <1>4

LEMMA WriteStep ==
  ASSUME StoreAssumption, ConsoleInv, NEW w \in writes,
         WriteReaches(w) \/ WriteAnswered(w) \/ WriteLost(w)
  PROVE  ConsoleInv'
<1>1. CASE WriteReaches(w)
  <2>1. StoreTypeOK' /\ WritesOK'
    BY <1>1, WriteReachesOK
  <2> QED
    BY <1>1, <2>1, Untouched, Zenon DEF WriteReaches, ConsoleInv
<1>2. CASE WriteAnswered(w)
  <2>1. WritesOK'
    BY <1>2, WriteEndsOK
  <2>2. RequestsOK'
    <3>1. Extra \in Slot /\ Refresh(Extra)
      BY <1>2, Zenon DEF WriteAnswered, Slot
    <3> QED
      BY <3>1, RefreshOK
  <2> QED
    BY <1>2, <2>1, <2>2, Untouched, Zenon DEF WriteAnswered, ConsoleInv
<1>3. CASE WriteLost(w)
  <2>1. WritesOK'
    BY <1>3, WriteEndsOK
  <2> QED
    BY <1>3, <2>1, Untouched, Zenon DEF WriteLost, ConsoleInv
<1> QED
  BY <1>1, <1>2, <1>3

LEMMA ConsoleStep ==
  ASSUME StoreAssumption, ConsoleAssumption, ConsoleInv, [ConsoleNext]_vars
  PROVE  ConsoleInv'
<1>1. CASE PollAgain
  <2>1. RequestsOK'
    <3>1. loop \in Slot
      BY DEF ConsoleInv, LoopOK, FiltersOK, ConsoleAssumption, Slot
    <3> QED
      BY <1>1, <3>1, RefreshOK, Zenon DEF PollAgain
  <2> QED
    BY <1>1, <2>1, Untouched, Zenon DEF PollAgain, ConsoleInv
<1>2. CASE Debounced
  <2>1. RequestsOK'
    <3>1. Extra \in Slot /\ Refresh(Extra)
      BY <1>2, Zenon DEF Debounced, Slot
    <3> QED
      BY <3>1, RefreshOK
  <2>2. debounce' \in BOOLEAN
    BY <1>2 DEF Debounced
  <2> QED
    BY <1>2, <2>1, <2>2, Untouched, Zenon DEF Debounced, ConsoleInv
<1>3. CASE Narrow \/ PrevPage \/ NextPage
  <2>1. FiltersOK'
    BY <1>3, NarrowOK, PagerOK DEF ConsoleInv
  <2>2. PICK f : SetFilters(f)
    BY <1>3, Zenon DEF Narrow, PrevPage, NextPage
  <2>3. LoopOK' /\ RequestsOK'
    BY <2>1, <2>2, NewLoopOK
  <2>4. debounce' = TRUE /\ UNCHANGED <<jobs, shown, writes, edit, patched>>
    BY <2>2, Zenon DEF SetFilters
  <2>5. debounce' \in BOOLEAN
    BY <2>4
  <2> QED
    BY <2>1, <2>3, <2>4, <2>5, Untouched, Zenon DEF ConsoleInv
<1>4. CASE Others
  <2>1. StoreTypeOK'
    BY <1>4, OthersOK DEF ConsoleInv
  <2> QED
    BY <1>4, <2>1, Untouched, Zenon DEF Others, ConsoleInv
<1>5. CASE UNCHANGED vars
  <2>1. UNCHANGED <<jobs, shown, filters, debounce, loop, requests, writes, edit, patched, moves>>
    BY <1>5, Zenon DEF vars
  <2> QED
    BY <2>1, Untouched, Zenon DEF ConsoleInv
<1> QED
  BY <1>1, <1>2, <1>3, <1>4, <1>5, RefreshingStep, RowStep, WriteStep, Zenon DEF ConsoleNext

\* What the list shows, what it has on its way and what is being edited stay
\* as the code takes them to be, whatever order the answers come in.
THEOREM ConsoleInvariance == ConsoleSpec => []ConsoleInv
<1>1. ConsoleInit => ConsoleInv
  BY ConsoleStart, ConsoleAssumption, StoreAssumption, JobListAssumption
<1>2. ConsoleInv /\ [ConsoleNext]_vars => ConsoleInv'
  BY ConsoleStep, ConsoleAssumption, StoreAssumption
<1> QED
  BY <1>1, <1>2, PTL DEF ConsoleSpec

\* The pager never leaves the pages there are, an answer is taken only when it
\* is complete, and every row shown and every write sent is of a job.
THEOREM ConsoleTypes == ConsoleSpec => []ConsoleTypeOK
<1>1. ConsoleInv => ConsoleTypeOK
  <2> SUFFICES ASSUME ConsoleInv PROVE ConsoleTypeOK
    OBVIOUS
  <2>1. /\ StoreTypeOK /\ ShownOK /\ FiltersOK /\ LoopOK
        /\ RequestsOK /\ WritesOK /\ EditOK /\ debounce \in BOOLEAN
    BY Zenon DEF ConsoleInv
  <2>2. \A i \in DOMAIN page : page[i].id \in Job
    BY <2>1, EntryShown
  <2>3. \A r \in Slot : requests[r].at \in {"idle", "sent", "paged", "counted"}
    <3> TAKE r \in Slot
    <3>1. requests[r] \in Answer \/ requests[r].at = "idle"
      BY <2>1, OnItsWay
    <3> QED
      BY <3>1 DEF Answer
  <2>4. \A w \in writes : w.id \in Job /\ w.at \in {"sent", "answered"}
    BY <2>1, Zenon DEF WritesOK, Write
  <2>5. edit.editing \in Job \cup {Null} /\ edit.draft \in Name \cup {<<>>}
    BY <2>1, Zenon DEF EditOK
  <2> QED
    BY <2>1, <2>2, <2>3, <2>4, <2>5, Zenon DEF ConsoleTypeOK, ShownOK, FiltersOK, LoopOK, Count
<1> QED
  BY <1>1, ConsoleInvariance, PTL

\* However an edit ends, one PATCH at most has been sent of it.
THEOREM EditsSendOnce == ConsoleSpec => []EditSendsOnce
<1>1. ConsoleInv => EditSendsOnce
  BY DEF ConsoleInv, EditOK, EditSendsOnce
<1> QED
  BY <1>1, ConsoleInvariance, PTL

-------------------------------------------------------------------------------
(* The search: what the escaping makes of a term.                          *)

\* The characters of names and of escaped terms.
Symbols == Range(Char) \cup {Wild, AnyOne, Escape}
Text    == Seq(Symbols)

LEMMA SpecialCharacters ==
  /\ Wild \in Symbols /\ AnyOne \in Symbols /\ Escape \in Symbols
  /\ Wild # AnyOne /\ Wild # Escape /\ AnyOne # Escape
<1>1. Wild \in Symbols /\ AnyOne \in Symbols /\ Escape \in Symbols
  BY Zenon DEF Symbols
<1>2. Wild # AnyOne /\ Wild # Escape /\ AnyOne # Escape
  BY DEF Wild, AnyOne, Escape
<1> QED
  BY <1>1, <1>2

OneLonger(s, x) == [i \in 1..(Len(s) + 1) |-> IF i = Len(s) + 1 THEN x ELSE s[i]]

LEMMA OneMore ==
  ASSUME NEW A, NEW s \in Seq(A), NEW x \in A
  PROVE  Append(s, x) = OneLonger(s, x) /\ Append(s, x) = s \o <<x>>
<1> DEFINE t == Append(s, x)
           f == [i \in 1..(Len(s) + 1) |-> IF i = Len(s) + 1 THEN x ELSE s[i]]
<1>1. t \in Seq(A) /\ Len(t) = Len(s) + 1 /\ Len(s) \in Nat
  OBVIOUS
<1>2. \A i \in 1..(Len(s) + 1) : t[i] = f[i]
  OBVIOUS
<1>3. DOMAIN t = 1..(Len(s) + 1) /\ t = [i \in DOMAIN t |-> t[i]]
  <2> HIDE DEF t
  <2>1. DOMAIN t = 1..(Len(s) + 1)
    BY <1>1
  <2>2. t \in [1..Len(t) -> A]
    BY <1>1, LenProperties, Zenon
  <2> QED
    BY <2>1, <2>2, Zenon
<1>4. f = [i \in 1..(Len(s) + 1) |-> f[i]]
  BY Zenon
<1>5. t = f
  <2> HIDE DEF t, f
  <2> QED
    BY <1>2, <1>3, <1>4, Zenon
<1>6. t = s \o <<x>>
  OBVIOUS
<1> QED
  BY <1>5, <1>6, Zenon DEF OneLonger

LEMMA TwoMore ==
  ASSUME NEW A, NEW s \in Seq(A), NEW x \in A, NEW y \in A
  PROVE  Append(Append(s, x), y) = s \o <<x, y>>
OBVIOUS

LEMMA ReplacedType ==
  ASSUME NEW s \in Text, NEW c \in Symbols
  PROVE  Replaced(s, c) \in Text
<1> DEFINE parts == [i \in DOMAIN s |-> IF s[i] = c THEN <<Escape, c>> ELSE <<s[i]>>]
<1>1. parts \in Seq(Seq(Symbols))
  <2>1. DOMAIN s = 1..Len(s) /\ Len(s) \in Nat /\ \A i \in 1..Len(s) : s[i] \in Symbols
    BY DEF Text
  <2>2. \A i \in 1..Len(s) : parts[i] \in Seq(Symbols)
    BY <2>1, SpecialCharacters
  <2>3. parts \in [1..Len(s) -> Seq(Symbols)]
    BY <2>1, <2>2, Zenon
  <2> HIDE DEF parts
  <2> QED
    BY <2>1, <2>3
<1> QED
  BY <1>1, FlattenedType DEF Replaced, Text

\* s with one more character, of which c is escaped.
Extended(s, x, c) == IF x = c THEN Append(Append(s, Escape), c) ELSE Append(s, x)

LEMMA ReplacedByOne ==
  ASSUME NEW s \in Text, NEW x \in Symbols, NEW c \in Symbols
  PROVE  Replaced(Append(s, x), c) = Extended(Replaced(s, c), x, c)
<1> DEFINE part(y) == IF y = c THEN <<Escape, c>> ELSE <<y>>
           parts  == [i \in DOMAIN s |-> part(s[i])]
           longer == [i \in DOMAIN Append(s, x) |-> part(Append(s, x)[i])]
<1>1. /\ Len(s) \in Nat /\ DOMAIN s = 1..Len(s) /\ \A i \in 1..Len(s) : s[i] \in Symbols
      /\ DOMAIN Append(s, x) = 1..(Len(s) + 1)
      /\ \A i \in 1..(Len(s) + 1) : Append(s, x)[i] = IF i = Len(s) + 1 THEN x ELSE s[i]
  BY DEF Text
<1>2. ASSUME NEW y \in Symbols PROVE part(y) \in Seq(Symbols)
  BY SpecialCharacters
<1>3. Replaced(s, c) = FlattenSeq(parts) /\ Replaced(Append(s, x), c) = FlattenSeq(longer)
  BY Zenon DEF Replaced
<1> HIDE DEF part
<1>4. parts \in [1..Len(s) -> Seq(Symbols)]
  BY <1>1, <1>2, Zenon
<1>5. /\ parts \in Seq(Seq(Symbols)) /\ Len(parts) = Len(s)
      /\ \A i \in 1..Len(s) : parts[i] = part(s[i])
  <2>1. \A i \in 1..Len(s) : parts[i] = part(s[i])
    BY <1>1, Zenon
  <2> HIDE DEF parts
  <2> QED
    BY <1>1, <1>4, <2>1
<1>6. longer = [i \in 1..(Len(s) + 1) |-> IF i = Len(s) + 1 THEN part(x) ELSE part(s[i])]
  BY <1>1
<1>7. longer = Append(parts, part(x))
  <2> DEFINE n == Len(s)
             p == part(x)
             g == [i \in 1..(n + 1) |-> IF i = n + 1 THEN p ELSE parts[i]]
  <2>1. p \in Seq(Symbols)
    BY <1>2
  <2>2. \A i \in 1..(n + 1) : i # n + 1 => parts[i] = part(s[i])
    BY <1>1, <1>5
  <2> HIDE DEF p, n, longer, parts
  <2>3. longer = g
    BY <1>6, <2>2, Zenon DEF p, n
  <2>4. Append(parts, p) = g
    <3> DEFINE A == Seq(Symbols)
    <3>1. parts \in Seq(A) /\ p \in A /\ Len(parts) = n
      BY <1>5, <2>1 DEF n
    <3> HIDE DEF A
    <3>2. Append(parts, p) = OneLonger(parts, p)
      BY <3>1, OneMore, Zenon
    <3> QED
      BY <3>1, <3>2, Zenon DEF OneLonger
  <2> QED
    BY <2>3, <2>4, Zenon DEF p
<1> HIDE DEF parts, longer
<1>8. Replaced(Append(s, x), c) = Replaced(s, c) \o part(x)
  <2>1. part(x) \in Seq(Symbols)
    BY <1>2
  <2> QED
    BY <1>3, <1>5, <1>7, <2>1, FlattenAppend, Zenon
<1> DEFINE r == Replaced(s, c)
<1>9. r \in Seq(Symbols)
  BY ReplacedType DEF Text
<1> HIDE DEF r
<1>10. r \o <<Escape, c>> = Append(Append(r, Escape), c) /\ r \o <<x>> = Append(r, x)
  BY <1>9, SpecialCharacters, OneMore, TwoMore
<1>11. part(x) = IF x = c THEN <<Escape, c>> ELSE <<x>>
  BY DEF part
<1> QED
  BY <1>8, <1>10, <1>11, Zenon DEF r, Extended

\* What one character of the term becomes.
Piece(c) == IF c \in {Wild, AnyOne, Escape} THEN <<Escape, c>> ELSE <<c>>

Kept(s, x, y, c) ==
  Replaced(Append(Append(s, x), y), c) = Append(Append(Replaced(s, c), x), y)

\* The three replacements, one after the other, escape what has to be escaped
\* once.
LEMMA EscapedByOne ==
  ASSUME NEW s \in Text, NEW x \in Symbols
  PROVE  /\ Escaped(s) \in Text
         /\ Escaped(Append(s, x)) = Escaped(s) \o Piece(x)
<1> DEFINE a == Replaced(s, Escape)
           b == Replaced(a, Wild)
           e == Replaced(b, AnyOne)
<1>1. a \in Text /\ b \in Text /\ e \in Text
  BY ReplacedType, SpecialCharacters, Zenon
<1>2. Escaped(s) = e
  BY Zenon DEF Escaped
<1>3. ASSUME NEW y \in Symbols PROVE Append(a, y) \in Text /\ Append(b, y) \in Text
  BY <1>1 DEF Text
<1> DEFINE a1 == Replaced(Append(s, x), Escape)
           b1 == Replaced(a1, Wild)
           e1 == Replaced(b1, AnyOne)
<1>4. Escaped(Append(s, x)) = e1
  BY Zenon DEF Escaped
<1>5. a1 = Extended(a, x, Escape)
  BY SpecialCharacters, ReplacedByOne, Zenon
<1>6. ASSUME NEW u \in Text, NEW y \in Symbols, NEW z \in Symbols,
             NEW c \in Symbols, y # c, z # c
      PROVE  Kept(u, y, z, c)
  <2>1. Append(u, y) \in Text
    BY DEF Text
  <2>2. Replaced(Append(u, y), c) = Append(Replaced(u, c), y)
    BY <1>6, ReplacedByOne, Zenon DEF Extended
  <2>3. Replaced(Append(Append(u, y), z), c) = Append(Replaced(Append(u, y), c), z)
    BY <1>6, <2>1, ReplacedByOne, Zenon DEF Extended
  <2> QED
    BY <2>2, <2>3, Zenon DEF Kept
<1>10. ASSUME NEW u \in Text
       PROVE  /\ Kept(u, Escape, Escape, Wild)
              /\ Kept(u, Escape, Escape, AnyOne)
              /\ Kept(u, Escape, Wild, AnyOne)
  BY <1>6, SpecialCharacters
<1>7. /\ Replaced(Append(a, x), Wild) = Extended(b, x, Wild)
      /\ Replaced(Append(b, x), AnyOne) = Extended(e, x, AnyOne)
  BY <1>1, SpecialCharacters, ReplacedByOne, Zenon
<1>8. e1 = IF x \in {Wild, AnyOne, Escape} THEN Append(Append(e, Escape), x) ELSE Append(e, x)
  <2>1. CASE x = Escape
    <3>1. a1 = Append(Append(a, Escape), x)
      BY <1>5, <2>1, Zenon DEF Extended
    <3>2. Replaced(Append(Append(a, Escape), x), Wild) = Append(Append(b, Escape), x)
      BY <1>1, <1>10, <2>1, Zenon DEF Kept
    <3>3. Replaced(Append(Append(b, Escape), x), AnyOne) = Append(Append(e, Escape), x)
      BY <1>1, <1>10, <2>1, Zenon DEF Kept
    <3>4. e1 = Append(Append(e, Escape), x)
      BY <3>1, <3>2, <3>3, Zenon
    <3> QED
      BY <2>1, <3>4, Zenon
  <2>2. CASE x = Wild
    <3>1. a1 = Append(a, x)
      BY <1>5, <2>2, SpecialCharacters, Zenon DEF Extended
    <3>2. b1 = Append(Append(b, Escape), x)
      BY <1>7, <2>2, <3>1, Zenon DEF Extended
    <3>3. Replaced(Append(Append(b, Escape), x), AnyOne) = Append(Append(e, Escape), x)
      BY <1>1, <1>10, <2>2, Zenon DEF Kept
    <3>4. e1 = Append(Append(e, Escape), x)
      BY <3>2, <3>3, Zenon
    <3> QED
      BY <2>2, <3>4, Zenon
  <2>3. CASE x \notin {Wild, Escape}
    <3>1. a1 = Append(a, x)
      BY <1>5, <2>3, Zenon DEF Extended
    <3>2. b1 = Append(b, x)
      BY <1>7, <2>3, <3>1, Zenon DEF Extended
    <3>3. e1 = Extended(e, x, AnyOne)
      BY <1>7, <3>2, Zenon
    <3> QED
      BY <2>3, <3>3, Zenon DEF Extended
  <2> QED
    BY <2>1, <2>2, <2>3
<1> HIDE DEF a, b, e, a1, b1, e1
<1>9. Append(Append(e, Escape), x) = e \o <<Escape, x>> /\ Append(e, x) = e \o <<x>>
  <2>1. e \in Seq(Symbols)
    BY <1>1 DEF Text
  <2> QED
    BY <2>1, SpecialCharacters, OneMore, TwoMore
<1> QED
  BY <1>1, <1>2, <1>4, <1>8, <1>9, Zenon DEF Piece

\* The term escaped up to each of its characters.
LEMMA EscapedStepByStep ==
  ASSUME NEW term \in Text
  PROVE  \E h \in [0..Len(term) -> Text] :
           /\ h[0] = <<>>
           /\ \A j \in 1..Len(term) : h[j] = h[j - 1] \o Piece(term[j])
           /\ Escaped(term) = h[Len(term)]
<1> DEFINE n == Len(term)
           h == [j \in 0..n |-> Escaped(SubSeq(term, 1, j))]
<1>1. n \in Nat /\ \A i \in 1..n : term[i] \in Symbols
  BY DEF Text
<1>2. ASSUME NEW j \in 0..n PROVE SubSeq(term, 1, j) \in Text
  <2>1. j \in Int /\ \A i \in 1..j : term[i] \in Symbols
    BY <1>1
  <2> QED
    BY <2>1, SubSeqProperties DEF Text
<1>3. \A s \in Text : Escaped(s) \in Text
  BY SpecialCharacters, EscapedByOne, Zenon
<1>4. h \in [0..n -> Text]
  BY <1>2, <1>3, Zenon
<1>5. h[0] = <<>>
  <2>1. SubSeq(term, 1, 0) = <<>>
    BY SubSeqEmpty
  <2>2. ASSUME NEW c PROVE Replaced(<<>>, c) = <<>>
    <3>1. [i \in DOMAIN <<>> |-> IF <<>>[i] = c THEN <<Escape, c>> ELSE <<<<>>[i]>>] = <<>>
      OBVIOUS
    <3>2. FlattenSeq(<<>>) = <<>>
      BY DEF FlattenSeq
    <3> QED
      BY <3>1, <3>2, Zenon DEF Replaced
  <2>3. Escaped(<<>>) = <<>>
    BY <2>2, Zenon DEF Escaped
  <2>4. 0 \in 0..n
    BY <1>1
  <2> QED
    BY <2>1, <2>3, <2>4, Zenon
<1>6. ASSUME NEW j \in 1..n PROVE h[j] = h[j - 1] \o Piece(term[j])
  <2>1. j \in 0..n /\ j - 1 \in 0..n /\ term[j] \in Symbols /\ 1 \in 1..Len(term) /\ j \in 1..Len(term)
    BY <1>1
  <2> DEFINE s == SubSeq(term, 1, j - 1)
             t == SubSeq(term, 1, j)
             x == term[j]
  <2>2. s \in Text
    BY <1>2, <2>1
  <2>3. t = s \o <<x>>
    BY <2>1, SubSeqRecursiveSecond DEF Text
  <2>4. h[j] = Escaped(t) /\ h[j - 1] = Escaped(s)
    BY <2>1, Zenon
  <2>5. x \in Symbols
    BY <2>1
  <2> HIDE DEF s, t, x
  <2>6. t = Append(s, x)
    BY <2>2, <2>3 DEF Text
  <2>7. Escaped(t) = Escaped(s) \o Piece(x)
    BY <2>2, <2>5, <2>6, EscapedByOne, Zenon
  <2> QED
    BY <2>4, <2>7, Zenon DEF x
<1>7. Escaped(term) = h[n]
  <2>1. n \in 0..n
    BY <1>1
  <2>2. SubSeq(term, 1, n) = term
    BY SubSeqFull DEF Text
  <2> QED
    BY <2>1, <2>2, Zenon
<1> QED
  BY <1>4, <1>5, <1>6, <1>7, Zenon

-------------------------------------------------------------------------------
(* The search: how LIKE reads a pattern.                                   *)

EscapesStep(pattern, e) ==
  [i \in 0..Len(pattern) |-> i # 0 /\ pattern[i] = Escape /\ ~e[i - 1]]

LEMMA EscapesExist ==
  ASSUME NEW pattern \in Text
  PROVE  \E e : e = EscapesStep(pattern, e)
<1> DEFINE n == Len(pattern)
           step == [i \in Nat |-> [b \in BOOLEAN |-> pattern[i] = Escape /\ ~b]]
<1>1. n \in Nat
  BY DEF Text
<1>2. step \in [Nat -> [BOOLEAN -> BOOLEAN]]
  BY Zenon
<1>3. PICK f \in [0..n -> BOOLEAN] : Recursive(n, FALSE, step, f)
  <2> HIDE DEF step, n
  <2>1. FALSE \in BOOLEAN
    OBVIOUS
  <2> QED
    BY <1>1, <1>2, <2>1, RecursiveFunction, Zenon
<1>4. \A i \in 0..n : i # 0 => i \in Nat /\ i - 1 \in 0..n
  BY <1>1
<1> DEFINE g == EscapesStep(pattern, f)
<1>5. \A i \in 0..n : f[i] = (IF i = 0 THEN FALSE ELSE step[i][f[i - 1]])
  BY <1>3, Zenon DEF Recursive
<1>6. \A i \in 0..n : g[i] = (i # 0 /\ pattern[i] = Escape /\ ~f[i - 1])
  BY Zenon DEF EscapesStep
<1>7. ASSUME NEW i \in 0..n PROVE f[i] = g[i]
  <2>1. CASE i = 0
    BY <1>5, <1>6, <2>1, Zenon
  <2>2. CASE i # 0
    <3>1. i \in Nat /\ f[i - 1] \in BOOLEAN
      BY <1>4, <2>2, Zenon
    <3>2. step[i][f[i - 1]] = (pattern[i] = Escape /\ ~f[i - 1])
      BY <3>1, Zenon
    <3>3. f[i] = step[i][f[i - 1]]
      BY <1>5, <2>2, Zenon
    <3>4. g[i] = (pattern[i] = Escape /\ ~f[i - 1])
      <4>1. g[i] = (i # 0 /\ pattern[i] = Escape /\ ~f[i - 1])
        BY <1>6, Zenon
      <4> HIDE DEF g
      <4> QED
        BY <2>2, <4>1, Zenon
    <3> HIDE DEF g, step
    <3> QED
      BY <3>2, <3>3, <3>4, Zenon
  <2> QED
    BY <2>1, <2>2
<1>8. f = [i \in 0..n |-> f[i]] /\ g = [i \in 0..n |-> g[i]]
  BY Zenon DEF EscapesStep
<1>9. f = g
  <2> HIDE DEF g
  <2> QED
    BY <1>7, <1>8, Zenon
<1> QED
  BY <1>9, Zenon

LEMMA EscapesRead ==
  ASSUME NEW pattern \in Text
  PROVE  /\ ~Escapes(pattern)[0]
         /\ \A i \in 1..Len(pattern) :
              Escapes(pattern)[i] <=> (pattern[i] = Escape /\ ~Escapes(pattern)[i - 1])
<1> DEFINE e == CHOOSE g : g = EscapesStep(pattern, g)
<1>1. Escapes(pattern) = e
  BY Zenon DEF Escapes, EscapesStep
<1>2. e = EscapesStep(pattern, e)
  BY EscapesExist, Zenon
<1> HIDE DEF e
<1>3. \A i \in 0..Len(pattern) : e[i] = (i # 0 /\ pattern[i] = Escape /\ ~e[i - 1])
  BY <1>2, Zenon DEF EscapesStep
<1>4. 0 \in 0..Len(pattern) /\ \A i \in 1..Len(pattern) : i \in 0..Len(pattern) /\ i # 0
  BY DEF Text
<1> QED
  BY <1>1, <1>3, <1>4, Zenon

LEMMA EndsInText ==
  ASSUME NEW text \in Text, NEW c, NEW escaped, NEW k \in 0..Len(text)
  PROVE  EndsOf(c, escaped, text, k) \in SUBSET (0..Len(text))
<1>1. Len(text) \in Nat
  BY DEF Text
<1>2. /\ k..Len(text) \in SUBSET (0..Len(text)) /\ {k} \in SUBSET (0..Len(text))
      /\ \A m \in {k + 1} : m <= Len(text) => m \in 0..Len(text)
  BY <1>1
<1>3. CASE c = Wild /\ ~escaped
  BY <1>2, <1>3, Zenon DEF EndsOf
<1>4. CASE c = Escape /\ ~escaped
  BY <1>2, <1>4, SpecialCharacters, Zenon DEF EndsOf
<1>5. CASE ~(c = Wild /\ ~escaped) /\ ~(c = Escape /\ ~escaped)
  BY <1>2, <1>5, Zenon DEF EndsOf
<1> QED
  BY <1>3, <1>4, <1>5

\* What is matched of the text after one more character of the pattern.
Matched(c, escaped, text, ends) == UNION {EndsOf(c, escaped, text, k) : k \in ends}

EndsStep(pattern, text, escapes, ends) ==
  [i \in 0..Len(pattern) |->
     IF i = 0 THEN {0} ELSE Matched(pattern[i], escapes[i - 1], text, ends[i - 1])]

LEMMA EndsExist ==
  ASSUME NEW pattern \in Text, NEW text \in Text, NEW escapes
  PROVE  \E ends : ends = EndsStep(pattern, text, escapes, ends)
<1> DEFINE n == Len(pattern)
           A == SUBSET (0..Len(text))
           step == [i \in Nat |-> [s \in A |-> Matched(pattern[i], escapes[i - 1], text, s)]]
<1>1. n \in Nat /\ {0} \in A
  BY DEF Text
<1>2. step \in [Nat -> [A -> A]]
  <2>1. ASSUME NEW c, NEW escaped, NEW s \in A PROVE Matched(c, escaped, text, s) \in A
    <3>1. \A k \in s : EndsOf(c, escaped, text, k) \in SUBSET (0..Len(text))
      BY EndsInText
    <3> QED
      BY <3>1 DEF Matched
  <2> HIDE DEF A
  <2> QED
    BY <2>1, Zenon
<1> HIDE DEF A
<1>3. PICK f \in [0..n -> A] : Recursive(n, {0}, step, f)
  <2> HIDE DEF step, n
  <2> QED
    BY <1>1, <1>2, RecursiveFunction, Zenon
<1>4. \A i \in 0..n : i # 0 => i \in Nat /\ i - 1 \in 0..n
  BY <1>1
<1> DEFINE g == EndsStep(pattern, text, escapes, f)
<1>5. \A i \in 0..n : f[i] = (IF i = 0 THEN {0} ELSE step[i][f[i - 1]])
  BY <1>3, Zenon DEF Recursive
<1>6. \A i \in 0..n :
        g[i] = IF i = 0 THEN {0} ELSE Matched(pattern[i], escapes[i - 1], text, f[i - 1])
  BY Zenon DEF EndsStep
<1>7. ASSUME NEW i \in 0..n PROVE f[i] = g[i]
  <2>1. CASE i = 0
    BY <1>5, <1>6, <2>1, Zenon
  <2>2. CASE i # 0
    <3>1. i \in Nat /\ f[i - 1] \in A
      BY <1>4, <2>2, Zenon
    <3>2. step[i][f[i - 1]] = Matched(pattern[i], escapes[i - 1], text, f[i - 1])
      BY <3>1, Zenon
    <3> QED
      BY <1>5, <1>6, <2>2, <3>2, Zenon
  <2> QED
    BY <2>1, <2>2
<1>8. f = [i \in 0..n |-> f[i]] /\ g = [i \in 0..n |-> g[i]]
  BY Zenon DEF EndsStep
<1>9. f = g
  <2> HIDE DEF g
  <2> QED
    BY <1>7, <1>8, Zenon
<1> QED
  BY <1>9, Zenon

\* The pattern is read once, from its beginning.
LEMMA LikeReads ==
  ASSUME NEW pattern \in Text, NEW text \in Text
  PROVE  \E m : /\ m[0] = {0}
                /\ \A i \in 1..Len(pattern) :
                     m[i] = Matched(pattern[i], Escapes(pattern)[i - 1], text, m[i - 1])
                /\ Like(pattern, text) <=>
                     (Len(text) \in m[Len(pattern)] /\ ~Escapes(pattern)[Len(pattern)])
<1> DEFINE escapes == Escapes(pattern)
           m == CHOOSE g : g = EndsStep(pattern, text, escapes, g)
<1> HIDE DEF escapes
<1>1. Like(pattern, text) <=> (Len(text) \in m[Len(pattern)] /\ ~escapes[Len(pattern)])
  BY Zenon DEF Like, EndsStep, Matched, escapes
<1>2. m = EndsStep(pattern, text, escapes, m)
  BY EndsExist, Zenon
<1> HIDE DEF m
<1>3. \A i \in 0..Len(pattern) :
        m[i] = IF i = 0 THEN {0} ELSE Matched(pattern[i], escapes[i - 1], text, m[i - 1])
  BY <1>2, Zenon DEF EndsStep
<1>4. 0 \in 0..Len(pattern) /\ \A i \in 1..Len(pattern) : i \in 0..Len(pattern) /\ i # 0
  BY DEF Text
<1>5. m[0] = {0} /\ \A i \in 1..Len(pattern) :
        m[i] = Matched(pattern[i], escapes[i - 1], text, m[i - 1])
  BY <1>3, <1>4, Zenon
<1> QED
  BY <1>1, <1>5, Zenon DEF escapes

\* What is matched after a wildcard for any number of characters.
Onwards(text, S) == UNION {k..Len(text) : k \in S}

LEMMA MatchedWild ==
  ASSUME NEW text, NEW escapes, NEW i, NEW S, ~escapes[i]
  PROVE  Matched(Wild, escapes[i], text, S) = Onwards(text, S)
<1>1. \A k : EndsOf(Wild, escapes[i], text, k) = k..Len(text)
  BY SpecialCharacters, Zenon DEF EndsOf
<1> QED
  BY <1>1 DEF Matched, Onwards

LEMMA MatchedEscape ==
  ASSUME NEW text, NEW escapes, NEW i, NEW S, ~escapes[i]
  PROVE  Matched(Escape, escapes[i], text, S) = S
<1>1. \A k : EndsOf(Escape, escapes[i], text, k) = {k}
  BY SpecialCharacters, Zenon DEF EndsOf
<1>2. ASSUME NEW x PROVE x \in Matched(Escape, escapes[i], text, S) <=> x \in S
  <2>1. x \in Matched(Escape, escapes[i], text, S) <=> \E k \in S : x \in {k}
    BY <1>1, Zenon DEF Matched
  <2> QED
    BY <2>1
<1> QED
  BY <1>2, Zenon

\* What is matched after a character that stands for itself.
Literally(c, text, S) == {e \in 1..Len(text) : e - 1 \in S /\ Lower(c) = Lower(text[e])}

LEMMA MatchedLiteral ==
  ASSUME NEW text \in Text, NEW escaped, NEW S \in SUBSET (0..Len(text)), NEW c,
         escaped \/ c \notin {Wild, AnyOne, Escape}
  PROVE  Matched(c, escaped, text, S) = Literally(c, text, S)
<1>1. ASSUME NEW k
      PROVE  EndsOf(c, escaped, text, k) =
               {e \in {k + 1} : e <= Len(text) /\ Lower(c) = Lower(text[e])}
  <2>1. CASE escaped
    BY <2>1, Zenon DEF EndsOf
  <2>2. CASE c \notin {Wild, AnyOne, Escape}
    BY <2>2, Zenon DEF EndsOf
  <2> QED
    BY <2>1, <2>2
<1>2. Len(text) \in Nat
  BY DEF Text
<1>3. ASSUME NEW e
      PROVE  e \in Matched(c, escaped, text, S) <=> e \in Literally(c, text, S)
  <2>1. e \in Matched(c, escaped, text, S) <=>
          \E k \in S : e = k + 1 /\ e <= Len(text) /\ Lower(c) = Lower(text[e])
    BY <1>1 DEF Matched
  <2>2. e \in Literally(c, text, S) <=>
          (e \in 1..Len(text) /\ e - 1 \in S /\ Lower(c) = Lower(text[e]))
    BY DEF Literally
  <2>3. ASSUME NEW k \in S, e = k + 1, e <= Len(text)
        PROVE  e \in 1..Len(text) /\ e - 1 \in S
    BY <1>2, <2>3
  <2>4. ASSUME e \in 1..Len(text)
        PROVE  e = (e - 1) + 1 /\ e <= Len(text)
    BY <1>2, <2>4
  <2> QED
    BY <2>1, <2>2, <2>3, <2>4, Zenon
<1> QED
  BY <1>3, Zenon

\* Where the text up to which the first j characters of the term are found ends.
FoundUpTo(text, term, j) ==
  {k \in j..Len(text) : \A i \in 1..j : Lower(text[k - j + i]) = Lower(term[i])}

LEMMA FoundByOne ==
  ASSUME NEW text \in Text, NEW term \in Text, NEW j \in Nat, j + 1 \in 1..Len(term)
  PROVE  Literally(term[j + 1], text, FoundUpTo(text, term, j)) = FoundUpTo(text, term, j + 1)
<1>1. Len(text) \in Nat /\ Len(term) \in Nat
  BY DEF Text
<1>2. ASSUME NEW e \in Literally(term[j + 1], text, FoundUpTo(text, term, j))
      PROVE  e \in FoundUpTo(text, term, j + 1)
  <2>1. /\ e \in 1..Len(text) /\ e - 1 \in j..Len(text)
        /\ Lower(term[j + 1]) = Lower(text[e])
        /\ \A i \in 1..j : Lower(text[(e - 1) - j + i]) = Lower(term[i])
    BY Zenon DEF Literally, FoundUpTo
  <2>2. e \in (j + 1)..Len(text)
    BY <1>1, <2>1
  <2>3. ASSUME NEW i \in 1..(j + 1) PROVE Lower(text[e - (j + 1) + i]) = Lower(term[i])
    <3>1. CASE i = j + 1
      <4>1. e - (j + 1) + i = e
        BY <2>1, <3>1
      <4> QED
        BY <2>1, <3>1, <4>1, Zenon
    <3>2. CASE i # j + 1
      <4>1. i \in 1..j /\ e - (j + 1) + i = (e - 1) - j + i
        BY <2>1, <3>2
      <4> QED
        BY <2>1, <4>1, Zenon
    <3> QED
      BY <3>1, <3>2
  <2> QED
    BY <2>2, <2>3, Zenon DEF FoundUpTo
<1>3. ASSUME NEW e \in FoundUpTo(text, term, j + 1)
      PROVE  e \in Literally(term[j + 1], text, FoundUpTo(text, term, j))
  <2>1. /\ e \in (j + 1)..Len(text)
        /\ \A i \in 1..(j + 1) : Lower(text[e - (j + 1) + i]) = Lower(term[i])
    BY Zenon DEF FoundUpTo
  <2>2. e \in 1..Len(text) /\ e - 1 \in j..Len(text)
    BY <1>1, <2>1
  <2>3. Lower(text[e]) = Lower(term[j + 1])
    <3>1. j + 1 \in 1..(j + 1) /\ e - (j + 1) + (j + 1) = e
      BY <2>2
    <3> QED
      BY <2>1, <3>1, Zenon
  <2>4. ASSUME NEW i \in 1..j PROVE Lower(text[(e - 1) - j + i]) = Lower(term[i])
    <3>1. i \in 1..(j + 1) /\ e - (j + 1) + i = (e - 1) - j + i
      BY <2>2
    <3> QED
      BY <2>1, <3>1, Zenon
  <2> QED
    BY <2>2, <2>3, <2>4, Zenon DEF Literally, FoundUpTo
<1> QED
  BY <1>2, <1>3, Zenon

LEMMA FoundIsContained ==
  ASSUME NEW text \in Text, NEW term \in Text
  PROVE  FoundUpTo(text, term, Len(term)) # {} <=> ContainsText(text, term)
<1> DEFINE n == Len(term)
<1>1. n \in Nat /\ Len(text) \in Nat /\ DOMAIN term = 1..n
  BY DEF Text
<1> HIDE DEF n
<1>2. ASSUME NEW k \in FoundUpTo(text, term, n) PROVE ContainsText(text, term)
  <2>1. k \in n..Len(text) /\ \A i \in 1..n : Lower(text[k - n + i]) = Lower(term[i])
    BY Zenon DEF FoundUpTo
  <2>2. k - n \in 0..(Len(text) - n)
    BY <1>1, <2>1
  <2> QED
    BY <1>1, <2>1, <2>2, Zenon DEF ContainsText, n
<1>3. ASSUME ContainsText(text, term) PROVE FoundUpTo(text, term, n) # {}
  <2>1. PICK k \in 0..(Len(text) - n) : \A i \in 1..n : Lower(text[k + i]) = Lower(term[i])
    BY <1>1, <1>3, Zenon DEF ContainsText, n
  <2>2. k + n \in n..Len(text) /\ (k + n) - n = k
    BY <1>1, <2>1
  <2>3. k + n \in FoundUpTo(text, term, n)
    BY <2>1, <2>2, Zenon DEF FoundUpTo
  <2> QED
    BY <2>3
<1> QED
  BY <1>2, <1>3 DEF n

LEMMA PieceIsText ==
  ASSUME NEW c \in Symbols
  PROVE  Piece(c) \in Text
<1>1. <<Escape, c>> \in Seq(Symbols) /\ <<c>> \in Seq(Symbols)
  BY SpecialCharacters
<1> QED
  BY <1>1, Zenon DEF Piece, Text

\* How the pattern between the two wildcards is made up: each character of the
\* term stands where the characters before it have left off.
LEMMA PatternParts ==
  ASSUME NEW term \in Text
  PROVE  LET e == Escaped(term)
             p == <<Wild>> \o e \o <<Wild>>
         IN  /\ e \in Text /\ p \in Text /\ Len(p) = Len(e) + 2
             /\ p[1] = Wild /\ p[Len(e) + 2] = Wild
             /\ \E h \in [0..Len(term) -> Text] :
                  /\ h[0] = <<>> /\ h[Len(term)] = e
                  /\ \A j \in 1..Len(term) :
                       /\ Len(h[j]) = Len(h[j - 1]) + Len(Piece(term[j]))
                       /\ Len(h[j]) <= Len(e)
                       /\ \A i \in 1..Len(Piece(term[j])) :
                            p[1 + Len(h[j - 1]) + i] = Piece(term[j])[i]
<1> DEFINE n == Len(term)
           e == Escaped(term)
           p == <<Wild>> \o e \o <<Wild>>
<1>1. n \in Nat /\ \A j \in 1..n : term[j] \in Symbols
  BY DEF Text
<1>2. PICK h \in [0..n -> Text] :
        /\ h[0] = <<>>
        /\ \A j \in 1..n : h[j] = h[j - 1] \o Piece(term[j])
        /\ e = h[n]
  BY EscapedStepByStep, Zenon
<1> HIDE DEF n, e, p
<1>3. e \in Text
  <2>1. n \in 0..n
    BY <1>1
  <2> QED
    BY <1>2, <2>1
<1>4. /\ p \in Text /\ Len(p) = Len(e) + 2 /\ p[1] = Wild /\ p[Len(e) + 2] = Wild
      /\ Len(e) \in Nat /\ \A i \in 1..Len(e) : p[1 + i] = e[i]
  <2>1. e \in Seq(Symbols) /\ Wild \in Symbols
    BY <1>3, SpecialCharacters DEF Text
  <2> DEFINE f == <<Wild>> \o e
  <2>2. f \in Seq(Symbols) /\ Len(f) = Len(e) + 1 /\ f[1] = Wild /\ Len(e) \in Nat
    BY <2>1
  <2>3. \A i \in 1..Len(e) : f[1 + i] = e[i]
    BY <2>1
  <2> HIDE DEF f
  <2> DEFINE g == f \o <<Wild>>
  <2>4. p = g
    BY DEF p, f
  <2>5. g \in Seq(Symbols) /\ Len(g) = Len(f) + 1 /\ g[Len(f) + 1] = Wild
    BY <2>1, <2>2
  <2>6. \A i \in 1..Len(f) : g[i] = f[i]
    BY <2>2
  <2> HIDE DEF g
  <2>7. \A i \in 1..Len(e) : 1 + i \in 1..Len(f)
    BY <2>2
  <2>8. 1 \in 1..Len(f) /\ Len(f) + 1 = Len(e) + 2
    BY <2>2
  <2>9. \A i \in 1..Len(e) : g[1 + i] = e[i]
    BY <2>3, <2>6, <2>7, Zenon
  <2>10. g[1] = Wild /\ g[Len(e) + 2] = Wild /\ Len(g) = Len(e) + 2
    BY <2>2, <2>5, <2>6, <2>8
  <2> QED
    BY <2>2, <2>4, <2>5, <2>9, <2>10, Zenon DEF Text
<1> DEFINE pieces == [j \in 1..n |-> Piece(term[j])]
<1>5. \A j \in 0..n : StartsAs(e, h[j])
  <2>1. pieces \in [1..n -> Text]
    BY <1>1, PieceIsText, Zenon
  <2>2. \A j \in 1..n : h[j] = h[j - 1] \o pieces[j]
    BY <1>2, Zenon
  <2> HIDE DEF pieces
  <2>3. \A j \in 0..n : StartsAs(h[n], h[j])
    BY <1>1, <1>2, <2>1, <2>2, FlattenedPrefix, Zenon DEF Text
  <2> QED
    BY <1>2, <2>3, Zenon
<1>6. ASSUME NEW j \in 1..n
      PROVE  /\ Len(h[j]) = Len(h[j - 1]) + Len(Piece(term[j]))
             /\ Len(h[j]) <= Len(e)
             /\ \A i \in 1..Len(Piece(term[j])) :
                  p[1 + Len(h[j - 1]) + i] = Piece(term[j])[i]
  <2> DEFINE a == h[j - 1]
             b == Piece(term[j])
             c == h[j]
  <2>1. j - 1 \in 0..n /\ j \in 0..n
    BY <1>1
  <2>2. a \in Seq(Symbols) /\ b \in Seq(Symbols) /\ c = a \o b
    <3>1. term[j] \in Symbols
      BY <1>1
    <3>2. b \in Text
      BY <3>1, PieceIsText, Zenon
    <3> QED
      BY <1>2, <2>1, <3>2, Zenon DEF Text
  <2>3. StartsAs(e, c)
    BY <1>5, <2>1
  <2> HIDE DEF a, b, c
  <2>4. Len(c) = Len(a) + Len(b) /\ Len(a) \in Nat /\ Len(b) \in Nat
    BY <2>2
  <2>5. \A i \in 1..Len(b) : c[Len(a) + i] = b[i]
    BY <2>2
  <2>6. Len(c) <= Len(e) /\ \A k \in 1..Len(c) : e[k] = c[k]
    BY <2>3, Zenon DEF StartsAs
  <2>7. ASSUME NEW i \in 1..Len(b) PROVE p[1 + Len(a) + i] = b[i]
    <3>1. Len(a) + i \in 1..Len(c) /\ Len(a) + i \in 1..Len(e) /\ 1 + (Len(a) + i) = 1 + Len(a) + i
      BY <1>4, <2>4, <2>6
    <3> DEFINE k == Len(a) + i
    <3>2. p[1 + k] = e[k] /\ e[k] = c[k] /\ c[k] = b[i]
      BY <1>4, <2>5, <2>6, <3>1, Zenon
    <3> QED
      BY <3>1, <3>2, Zenon
  <2> QED
    BY <2>4, <2>6, <2>7, Zenon DEF a, b, c
<1>7. \E g \in [0..n -> Text] :
        /\ g[0] = <<>> /\ g[n] = e
        /\ \A j \in 1..n :
             /\ Len(g[j]) = Len(g[j - 1]) + Len(Piece(term[j]))
             /\ Len(g[j]) <= Len(e)
             /\ \A i \in 1..Len(Piece(term[j])) :
                  p[1 + Len(g[j - 1]) + i] = Piece(term[j])[i]
  BY <1>2, <1>6, Zenon
<1> QED
  BY <1>3, <1>4, <1>7, Zenon DEF n, e, p

\* A search finds a name when the name contains the term as it was typed, in
\* either case, whatever characters the term is made of: none of them works as
\* a wildcard or as an escape, and no term is too long (push_filters of db.rs).
THEOREM TermsAreLiteral ==
  ASSUME NEW name \in Text, NEW term \in Text
  PROVE  Finds(term, name) <=> ContainsText(name, term)
<1>0. Len(name) \in Nat /\ Len(term) \in Nat
  BY DEF Text
<1>1. CASE term = <<>>
  <2>1. 0 \in 0..(Len(name) - Len(term)) /\ DOMAIN term = {}
    BY <1>0, <1>1
  <2>2. ContainsText(name, term)
    BY <2>1 DEF ContainsText
  <2> QED
    BY <1>1, <2>2 DEF Finds
<1>2. CASE term # <<>>
  <2> DEFINE n   == Len(term)
             e   == Escaped(term)
             p   == <<Wild>> \o e \o <<Wild>>
             esc == Escapes(p)
             found(j) == FoundUpTo(name, term, j)
  <2>1. /\ e \in Text /\ p \in Text /\ Len(p) = Len(e) + 2
        /\ p[1] = Wild /\ p[Len(e) + 2] = Wild
    BY PatternParts, Zenon
  <2>2. PICK h \in [0..n -> Text] :
          /\ h[0] = <<>> /\ h[n] = e
          /\ \A j \in 1..n :
               /\ Len(h[j]) = Len(h[j - 1]) + Len(Piece(term[j]))
               /\ Len(h[j]) <= Len(e)
               /\ \A i \in 1..Len(Piece(term[j])) :
                    p[1 + Len(h[j - 1]) + i] = Piece(term[j])[i]
    BY PatternParts, Zenon
  <2>3. Finds(term, name) <=> Like(p, name)
    BY <1>2, Zenon DEF Finds
  <2>4. /\ ~esc[0]
        /\ \A i \in 1..Len(p) : esc[i] <=> (p[i] = Escape /\ ~esc[i - 1])
    BY <2>1, EscapesRead, Zenon
  <2>5. PICK m : /\ m[0] = {0}
                 /\ \A i \in 1..Len(p) : m[i] = Matched(p[i], esc[i - 1], name, m[i - 1])
                 /\ Like(p, name) <=> (Len(name) \in m[Len(p)] /\ ~esc[Len(p)])
    BY <2>1, LikeReads, Zenon
  <2>6. Len(e) \in Nat /\ \A j \in 0..n : Len(h[j]) \in Nat
    BY <2>1, <2>2 DEF Text
  <2> DEFINE w(j) == 1 + Len(h[j])
             Q(j) == ~esc[w(j)] /\ m[w(j)] = found(j)
             S    == {j \in Nat : j \in 0..n => Q(j)}
  <2> HIDE DEF n, e, p, esc, found
  <2>7. Q(0)
    <3>1. 1 \in 1..Len(p) /\ 1 - 1 = 0 /\ w(0) = 1
      BY <2>1, <2>2, <2>6
    <3>2. ~esc[1]
      BY <2>1, <2>4, <3>1, SpecialCharacters, Zenon
    <3>3. m[1] = Matched(Wild, esc[0], name, {0})
      BY <2>1, <2>5, <3>1, Zenon
    <3>4. m[1] = Onwards(name, {0})
      <4>1. Matched(Wild, esc[0], name, {0}) = Onwards(name, {0})
        BY <2>4, MatchedWild, Zenon
      <4> QED
        BY <3>3, <4>1, Zenon
    <3>5. Onwards(name, {0}) = 0..Len(name)
      BY DEF Onwards
    <3>6. found(0) = 0..Len(name)
      BY DEF found, FoundUpTo
    <3> QED
      BY <3>1, <3>2, <3>4, <3>5, <3>6, Zenon
  <2>8. ASSUME NEW j \in Nat, Q(j), j + 1 \in 0..n PROVE Q(j + 1)
    <3> DEFINE c == term[j + 1]
               v == w(j)
    <3>1. j + 1 \in 1..n /\ j \in 0..n /\ (j + 1) - 1 = j /\ j + 1 \in 1..Len(term)
      BY <1>0, <2>8 DEF n
    <3>2. c \in Symbols
      BY <3>1 DEF Text
    <3>3. /\ w(j + 1) = v + Len(Piece(c)) /\ v \in Nat /\ v \in 1..Len(p)
          /\ v + Len(Piece(c)) <= Len(p)
          /\ \A i \in 1..Len(Piece(c)) : p[v + i] = Piece(c)[i]
      <4>1. /\ Len(h[j + 1]) = Len(h[j]) + Len(Piece(term[j + 1]))
            /\ Len(h[j + 1]) <= Len(e)
            /\ \A i \in 1..Len(Piece(term[j + 1])) :
                 p[1 + Len(h[j]) + i] = Piece(term[j + 1])[i]
        BY <2>2, <3>1, Zenon
      <4>2. Len(Piece(c)) \in Nat
        BY <3>2, PieceIsText DEF Text
      <4> QED
        BY <2>1, <2>6, <3>1, <4>1, <4>2
    <3>4. ~esc[v] /\ m[v] = found(j)
      BY <2>8
    <3> HIDE DEF w, Q
    <3>5. found(j) \in SUBSET (0..Len(name))
      BY <1>0 DEF found, FoundUpTo
    <3>6. Literally(c, name, found(j)) = found(j + 1)
      BY <3>1, FoundByOne DEF found
    <3> HIDE DEF c, v
    <3>7. CASE c \in {Wild, AnyOne, Escape}
      <4>1. Piece(c) = <<Escape, c>>
        BY <3>7, Zenon DEF Piece
      <4>2. Len(Piece(c)) = 2 /\ Piece(c)[1] = Escape /\ Piece(c)[2] = c
        BY <4>1
      <4>3. /\ p[v + 1] = Escape /\ p[v + 2] = c /\ w(j + 1) = v + 2
            /\ v + 1 \in 1..Len(p) /\ v + 2 \in 1..Len(p)
            /\ (v + 1) - 1 = v /\ (v + 2) - 1 = v + 1
        BY <3>3, <4>2
      <4>4. esc[v + 1] /\ ~esc[v + 2]
        BY <2>4, <3>4, <4>3, Zenon
      <4>5. m[v + 1] = Matched(Escape, esc[v], name, found(j))
        BY <2>5, <3>4, <4>3, Zenon
      <4>6. m[v + 1] = found(j)
        BY <3>4, <4>5, MatchedEscape, Zenon
      <4>7. m[v + 2] = Matched(c, esc[v + 1], name, found(j))
        BY <2>5, <4>3, <4>6, Zenon
      <4>8. m[v + 2] = Literally(c, name, found(j))
        BY <3>5, <4>4, <4>7, MatchedLiteral, Zenon
      <4> QED
        BY <3>6, <4>3, <4>4, <4>8, Zenon DEF Q
    <3>8. CASE c \notin {Wild, AnyOne, Escape}
      <4>1. Piece(c) = <<c>>
        BY <3>8, Zenon DEF Piece
      <4>2. Len(Piece(c)) = 1 /\ Piece(c)[1] = c
        BY <4>1
      <4>3. /\ p[v + 1] = c /\ w(j + 1) = v + 1
            /\ v + 1 \in 1..Len(p) /\ (v + 1) - 1 = v
        BY <3>3, <4>2
      <4>4. ~esc[v + 1]
        BY <2>4, <3>8, <4>3, Zenon
      <4>5. m[v + 1] = Matched(c, esc[v], name, found(j))
        BY <2>5, <3>4, <4>3, Zenon
      <4>6. m[v + 1] = Literally(c, name, found(j))
        BY <3>5, <3>8, <4>5, MatchedLiteral, Zenon
      <4> QED
        BY <3>6, <4>3, <4>4, <4>6, Zenon DEF Q
    <3> QED
      BY <3>7, <3>8
  <2>9. Q(n)
    <3> HIDE DEF Q
    <3>1. 0 \in S
      <4>1. 0 \in Nat
        OBVIOUS
      <4> QED
        BY <2>7, <4>1, Zenon
    <3>5. ASSUME NEW j \in Nat, j \in S PROVE j + 1 \in S
      <4>1. j + 1 \in Nat /\ (j + 1 \in 0..n => j \in 0..n)
        BY <1>0 DEF n
      <4>2. j + 1 \in 0..n => Q(j + 1)
        BY <2>8, <3>5, <4>1, Zenon
      <4> QED
        BY <4>1, <4>2, Zenon
    <3> HIDE DEF S
    <3>2. Nat \subseteq S
      BY <3>1, <3>5, NumbersFromZero, Zenon
    <3>3. n \in Nat /\ n \in 0..n
      BY <1>0 DEF n
    <3>4. n \in S
      BY <3>2, <3>3
    <3> QED
      BY <3>3, <3>4 DEF S
  <2>10. Len(name) \in m[Len(p)] /\ ~esc[Len(p)] <=> found(n) # {}
    <3> DEFINE v == w(n)
               l == Len(p)
    <3>1. l \in 1..Len(p) /\ l - 1 = v /\ p[l] = Wild
      <4>1. h[n] = e
        BY <2>2
      <4> QED
        BY <2>1, <2>6, <4>1
    <3>2. ~esc[v] /\ m[v] = found(n)
      BY <2>9
    <3> HIDE DEF v, l
    <3>3. ~esc[l]
      BY <2>4, <3>1, SpecialCharacters, Zenon
    <3>4. m[l] = Onwards(name, found(n))
      <4>1. m[l] = Matched(Wild, esc[v], name, found(n))
        BY <2>5, <3>1, <3>2, Zenon
      <4>2. Matched(Wild, esc[v], name, found(n)) = Onwards(name, found(n))
        BY <3>2, MatchedWild, Zenon
      <4> QED
        BY <4>1, <4>2, Zenon
    <3>5. \A k \in found(n) : k \in Nat /\ k <= Len(name)
      BY <1>0 DEF found, FoundUpTo, n
    <3>6. Len(name) \in Onwards(name, found(n)) <=> found(n) # {}
      BY <1>0, <3>5 DEF Onwards
    <3> QED
      BY <3>3, <3>4, <3>6, Zenon DEF l
  <2>11. found(n) # {} <=> ContainsText(name, term)
    BY FoundIsContained DEF found, n
  <2> QED
    BY <2>3, <2>5, <2>10, <2>11, Zenon
<1> QED
  BY <1>1, <1>2

\* Every row is found by what its name contains, in any state of the list.
THEOREM SearchesAreLiteral == ConsoleSpec => []SearchIsLiteral
<1>1. \A text \in Seq(Range(Char)) : text \in Text
  BY DEF Text, Symbols
<1>2. \A term \in ShortText : term \in Text
  <2>1. ASSUME NEW k \in 0..3, NEW term \in [1..k -> Range(Char)] PROVE term \in Text
    BY <1>1, <2>1
  <2> QED
    BY <2>1 DEF ShortText
<1>3. \A name \in Name : name \in Text
  BY <1>1, JobListAssumption DEF JobListAssumption
<1>4. Name \subseteq FoundAsTyped
  BY <1>2, <1>3, TermsAreLiteral, Zenon DEF FoundAsTyped
<1>5. ConsoleInv => SearchIsLiteral
  <2> SUFFICES ASSUME ConsoleInv, NEW j \in Job PROVE jobs[j].filename \in FoundAsTyped
    BY DEF SearchIsLiteral
  <2>1. jobs[j] \in Row
    BY DEF ConsoleInv, StoreTypeOK
  <2>2. jobs[j].filename \in Name
    BY <2>1, Zenon DEF Row
  <2> QED
    BY <1>4, <2>2
<1> QED
  BY <1>5, ConsoleInvariance, PTL
===============================================================================
