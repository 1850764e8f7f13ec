---- MODULE PapersScrape_proofs ----
(***************************************************************************)
(* Proofs about the module PapersScrape, for any papers, categories, pages *)
(* and slices, runs at once and failures: its type invariant, and that a   *)
(* window which the saved cursor has passed is complete.                   *)
(***************************************************************************)
EXTENDS PapersScrape, SequenceTheorems, FiniteSetTheorems, WellFoundedInduction, TLAPS

(***************************************************************************)
(* What the memory of a run is worth: a run holds what it has seen, and    *)
(* has seen of old papers what lies behind the place it asks for next.     *)
(***************************************************************************)

Rows == [Keys -> Days \cup {NoRow}]
OpenAlexRows == [OpenAlexKeys -> AnswerKinds \cup {NoRow}]

\* Papers that are shown and neither in bronze nor given up with their day.
Kept(x) == bronze[PaperKey(x)] # NoRow \/ bronze[RejectKey(x)] # NoRow
Lost == {x \in shown : ~Kept(x) /\ Submitted[x] \notin cutDays}

\* No cursor and no window is ahead of time.
TimeInv == cursor <= day /\ \A p \in Runs : loaded[p] <= day /\ windowEnd[p] <= day

\* A window begins where the one before it has ended, the first one anywhere.
FollowsOn(first, end) == end = 0 \/ first = end - 1

\* The saved cursor, and one that a failing run would put back, promise papers
\* that are kept, of days that are over.
CursorInv ==
  /\ TimeInv
  /\ \A x \in Lost : cursor <= Submitted[x] + 1
  /\ \A p \in running :
       /\ FollowsOn(windowStart[p], loaded[p])
       /\ \A x \in Lost : loaded[p] <= Submitted[x] + 1

\* What a run has seen is in bronze or in its buffer.
Held(p, x) == bronze[RowKey(x)] # NoRow \/ buffer[p][RowKey(x)] # NoRow
SeenInv == \A p \in running : \A x \in seen[p] : Held(p, x)

\* A run has been over a paper in a category when it has asked for its page.
Behind(p, i, x) ==
  \/ place[p] = Done
  \/ i < place[p].category
  \/ i = place[p].category /\ Submitted[x] < place[p].first
  \/ i = place[p].category /\ x \in Results(p) /\ Rank(x, Results(p)) < place[p].offset

\* The papers of a window that were shown before the run began.
Due(p, x) == windowStart[p] <= Submitted[x] /\ Submitted[x] + 1 < windowEnd[p]

Walked(p) ==
  \A x \in shown : \A i \in DOMAIN Categories :
    Due(p, x) /\ Categories[i] \in Lists[x] /\ Behind(p, i, x) => x \in seen[p]

WalkInv == \A p \in running : cut[p] \/ Walked(p)

Honest == CursorInv /\ SeenInv /\ WalkInv

(***************************************************************************)
(* Ranks in a list of results: there is one paper of each, and those of    *)
(* old papers stay when younger ones appear.                               *)
(***************************************************************************)

LEMMA Ordered ==
  /\ \A x \in Papers : x \in Nat /\ Submitted[x] \in Nat /\ ~Before(x, x)
  /\ \A x, y \in Papers : x = y \/ Before(x, y) \/ Before(y, x)
  /\ \A x, y, z \in Papers : Before(x, y) /\ Before(y, z) => Before(x, z)
<1>1. \A x \in Papers : x \in Nat /\ Submitted[x] \in Nat
  BY PapersAssumption
<1> QED BY <1>1 DEF Before

LEMMA LeastNumber ==
  ASSUME NEW S \in SUBSET Nat, S # {}
  PROVE  \E m \in S : \A x \in S : m <= x
<1> DEFINE R == OpToRel(<, Nat)
<1>1. IsWellFoundedOn(R, Nat)
  BY NatLessThanWellFounded
<1> HIDE DEF R
<1>2. PICK m \in S : \A y \in S : ~(<<y, m>> \in R)
  BY <1>1, WFMin
<1>3. ASSUME NEW x \in S PROVE m <= x
  <2>1. m \in Nat /\ x \in Nat
    OBVIOUS
  <2>2. x < m => <<x, m>> \in R
    BY <2>1 DEF R, OpToRel
  <2> QED BY <1>2, <2>1, <2>2
<1> QED BY <1>3

LEMMA FirstPaper ==
  ASSUME NEW S \in SUBSET Papers, S # {}
  PROVE  \E m \in S : \A x \in S : x = m \/ Before(m, x)
<1>1. PICK d \in {Submitted[x] : x \in S} : \A e \in {Submitted[x] : x \in S} : d <= e
  <2>1. {Submitted[x] : x \in S} \in SUBSET Nat /\ {Submitted[x] : x \in S} # {}
    BY Ordered
  <2> QED BY <2>1, LeastNumber
<1>2. PICK m \in {x \in S : Submitted[x] = d} : \A x \in {z \in S : Submitted[z] = d} : m <= x
  <2>1. {x \in S : Submitted[x] = d} \in SUBSET Nat /\ {x \in S : Submitted[x] = d} # {}
    BY <1>1, Ordered
  <2> QED BY <2>1, LeastNumber
<1>3. ASSUME NEW x \in S PROVE x = m \/ Before(m, x)
  <2>1. d \in Nat /\ d <= Submitted[x] /\ Submitted[m] = d /\ Submitted[x] \in Nat /\ x \in Nat /\ m \in Nat
    BY <1>1, <1>2, Ordered
  <2>2. Submitted[x] = d => m <= x
    BY <1>2
  <2> QED BY <2>1, <2>2 DEF Before
<1> QED BY <1>2, <1>3

LEMMA Ranks ==
  ASSUME NEW S \in SUBSET Papers, IsFiniteSet(S)
  PROVE  /\ \A x \in S : Rank(x, S) \in Nat /\ Rank(x, S) < Cardinality(S)
         /\ \A x, y \in S : Before(x, y) => Rank(x, S) < Rank(y, S)
<1> DEFINE Ahead(x) == {y \in S : Before(y, x)}
<1>1. Cardinality(S) \in Nat
  BY FS_CardinalityType
<1>2. ASSUME NEW x \in S
      PROVE  /\ IsFiniteSet(Ahead(x)) /\ Rank(x, S) = Cardinality(Ahead(x)) /\ Rank(x, S) \in Nat
             /\ Rank(x, S) < Cardinality(S)
  <2>1. Ahead(x) \in SUBSET S /\ x \notin Ahead(x)
    BY Ordered
  <2>2. IsFiniteSet(Ahead(x)) /\ Cardinality(Ahead(x)) <= Cardinality(S) /\ Cardinality(Ahead(x)) # Cardinality(S)
    BY <2>1, FS_Subset
  <2>3. Cardinality(Ahead(x)) \in Nat
    BY <2>2, FS_CardinalityType
  <2> QED BY <1>1, <2>2, <2>3 DEF Rank
<1>3. ASSUME NEW x \in S, NEW y \in S, Before(x, y)
      PROVE  Rank(x, S) < Rank(y, S)
  <2>1. Ahead(x) \in SUBSET Ahead(y) /\ x \in Ahead(y) /\ x \notin Ahead(x)
    BY <1>3, Ordered
  <2>2. Cardinality(Ahead(x)) <= Cardinality(Ahead(y)) /\ Cardinality(Ahead(x)) # Cardinality(Ahead(y))
    BY <1>2, <2>1, FS_Subset
  <2>3. Rank(x, S) = Cardinality(Ahead(x)) /\ Rank(y, S) = Cardinality(Ahead(y))
        /\ Rank(x, S) \in Nat /\ Rank(y, S) \in Nat
    BY <1>2
  <2> HIDE DEF Ahead
  <2> QED BY <2>2, <2>3
<1> QED BY <1>2, <1>3

\* As many results as there are ranks below a number, if there are that many.
LEMMA RankedBelow ==
  ASSUME NEW S \in SUBSET Papers, IsFiniteSet(S), NEW n \in Nat, n <= Cardinality(S)
  PROVE  Cardinality({x \in S : Rank(x, S) < n}) = n
<1> DEFINE Below(k) == {x \in S : Rank(x, S) < k}
           Odd == {k \in Nat : k <= Cardinality(S) /\ Cardinality(Below(k)) # k}
<1>1. Cardinality(S) \in Nat
  BY FS_CardinalityType
<1>2. SUFFICES ASSUME Odd # {} PROVE FALSE
  OBVIOUS
<1>3. PICK k \in Odd : \A j \in Odd : k <= j
  BY <1>2, LeastNumber
<1>4. k \in Nat /\ k <= Cardinality(S) /\ Cardinality(Below(k)) # k
  OBVIOUS
<1>5. k # 0
  <2>1. Below(0) = {}
    BY Ranks
  <2> QED BY <1>4, <2>1, FS_EmptySet
<1>6. k - 1 \in Nat /\ k - 1 < k /\ k - 1 < Cardinality(S)
  BY <1>1, <1>4, <1>5
<1>7. Cardinality(Below(k - 1)) = k - 1
  <2>1. k - 1 \notin Odd
    BY <1>3, <1>6
  <2> QED BY <1>1, <1>6, <2>1
<1>8. IsFiniteSet(Below(k - 1))
  <2>1. Below(k - 1) \in SUBSET S
    OBVIOUS
  <2> QED BY <2>1, FS_Subset
<1>9. S \ Below(k - 1) # {}
  <2>1. Below(k - 1) # S
    BY <1>1, <1>6, <1>7
  <2> QED BY <2>1
<1>10. PICK m \in S \ Below(k - 1) : \A x \in S \ Below(k - 1) : x = m \/ Before(m, x)
  <2>1. S \ Below(k - 1) \in SUBSET Papers
    OBVIOUS
  <2> QED BY <1>9, <2>1, FirstPaper
<1> HIDE DEF Odd
<1>11. {y \in S : Before(y, m)} = Below(k - 1)
  <2>1. ASSUME NEW y \in S, Before(y, m) PROVE y \in Below(k - 1)
    <3>1. y # m /\ ~Before(m, y)
      BY <2>1, Ordered
    <3> QED BY <1>10, <3>1
  <2>2. ASSUME NEW y \in Below(k - 1) PROVE Before(y, m)
    <3>1. y \in S /\ Rank(y, S) < k - 1 /\ ~(Rank(m, S) < k - 1) /\ m \in S
      BY <1>10
    <3>2. Rank(y, S) \in Nat /\ Rank(m, S) \in Nat
      BY <3>1, Ranks
    <3>3. Before(m, y) => Rank(m, S) < Rank(y, S)
      BY <3>1, Ranks
    <3>4. y # m /\ ~Before(m, y)
      BY <1>6, <3>1, <3>2, <3>3
    <3> QED BY <3>1, <3>4, Ordered
  <2> QED BY <2>1, <2>2
<1>12. Rank(m, S) = k - 1
  BY <1>7, <1>11 DEF Rank
<1>13. Below(k) = Below(k - 1) \cup {m}
  <2>1. ASSUME NEW x \in Below(k), x \notin Below(k - 1) PROVE x = m
    <3>1. x \in S /\ Rank(x, S) < k /\ ~(Rank(x, S) < k - 1) /\ Rank(x, S) \in Nat
      BY <2>1, Ranks
    <3>2. Rank(x, S) = k - 1
      BY <1>4, <3>1
    <3>3. Before(m, x) => Rank(m, S) < Rank(x, S)
      BY <1>10, <3>1, Ranks
    <3> QED BY <1>6, <1>10, <1>12, <2>1, <3>1, <3>2, <3>3
  <2>2. Below(k - 1) \subseteq Below(k)
    <3>1. ASSUME NEW x \in S, Rank(x, S) < k - 1 PROVE Rank(x, S) < k
      BY <1>4, <3>1, Ranks
    <3> QED BY <3>1
  <2>3. m \in Below(k)
    BY <1>4, <1>6, <1>10, <1>12
  <2> QED BY <2>1, <2>2, <2>3
<1>14. Cardinality(Below(k)) = k
  <2>1. m \notin Below(k - 1)
    BY <1>10
  <2> HIDE DEF Below
  <2>2. Cardinality(Below(k)) = Cardinality(Below(k - 1)) + 1
    BY <1>8, <1>13, <2>1, FS_AddElement
  <2> QED BY <1>4, <1>6, <1>7, <2>2
<1> QED BY <1>4, <1>14

\* A page is short only at the end of the results.
LEMMA ShortPage ==
  ASSUME NEW S \in SUBSET Papers, IsFiniteSet(S), NEW offset \in Nat,
         \/ Cardinality(PageOf(S, offset)) < PageSize
         \/ offset + PageSize >= Cardinality(S)
  PROVE  \A x \in S : Rank(x, S) >= offset => x \in PageOf(S, offset)
<1> DEFINE Below(k) == {x \in S : Rank(x, S) < k}
<1>1. Cardinality(S) \in Nat /\ PageSize \in Nat
  BY FS_CardinalityType, PapersAssumption
<1>2. \A x \in S : Rank(x, S) \in Nat /\ Rank(x, S) < Cardinality(S)
  BY Ranks
<1>3. \A x \in S : x \in PageOf(S, offset) <=> offset <= Rank(x, S) /\ Rank(x, S) < offset + PageSize
  BY <1>1, <1>2 DEF PageOf
<1>4. CASE offset + PageSize >= Cardinality(S)
  BY <1>1, <1>2, <1>3, <1>4
<1>5. CASE ~(offset + PageSize >= Cardinality(S)) /\ Cardinality(PageOf(S, offset)) < PageSize
  <2>1. offset \in Nat /\ offset + PageSize \in Nat /\ offset <= Cardinality(S) /\ offset + PageSize <= Cardinality(S)
    BY <1>1, <1>5
  <2>2. Cardinality(Below(offset)) = offset /\ Cardinality(Below(offset + PageSize)) = offset + PageSize
    BY <2>1, RankedBelow
  <2>3. PageOf(S, offset) = Below(offset + PageSize) \ Below(offset)
    <3>1. PageOf(S, offset) \subseteq S
      BY DEF PageOf
    <3>2. \A x \in S : x \in Below(offset + PageSize) \ Below(offset)
                        <=> offset <= Rank(x, S) /\ Rank(x, S) < offset + PageSize
      BY <1>1, <1>2
    <3> QED BY <1>3, <3>1, <3>2
  <2>4. Below(offset) \in SUBSET Below(offset + PageSize)
    BY <1>1, <1>2
  <2>5. IsFiniteSet(Below(offset + PageSize)) /\ IsFiniteSet(Below(offset))
    <3>1. Below(offset + PageSize) \in SUBSET S /\ Below(offset) \in SUBSET S
      OBVIOUS
    <3> QED BY <3>1, FS_Subset
  <2> HIDE DEF Below
  <2>6. Cardinality(PageOf(S, offset)) = PageSize
    <3>1. Below(offset + PageSize) \cap Below(offset) = Below(offset)
      BY <2>4
    <3>2. Cardinality(PageOf(S, offset)) = Cardinality(Below(offset + PageSize)) - Cardinality(Below(offset))
      BY <2>3, <2>5, <3>1, FS_Difference
    <3> QED BY <1>1, <2>2, <3>2
  <2> QED BY <1>1, <1>5, <2>6
<1> QED BY <1>4, <1>5

\* A paper that comes after another does not change the rank of that one.
LEMMA SameRank ==
  ASSUME NEW S, NEW T, NEW x, \A y : Before(y, x) => (y \in S <=> y \in T)
  PROVE  Rank(x, S) = Rank(x, T)
<1>1. {y \in S : Before(y, x)} = {y \in T : Before(y, x)}
  OBVIOUS
<1> QED BY <1>1 DEF Rank

(***************************************************************************)
(* Types.                                                                  *)
(***************************************************************************)

RunnerOK ==
  /\ bronze \in Rows /\ cursor \in 0..LastDay /\ running \subseteq Runs
  /\ loaded \in [Runs -> 0..LastDay] /\ buffer \in [Runs -> Rows]

WorldOK ==
  /\ day \in Days /\ shown \subseteq Papers /\ IsFiniteSet(shown)
  /\ started \in 0..MaxRuns /\ failures \in 0..MaxFailures /\ cutDays \subseteq 0..LastDay

ArxivOK ==
  /\ windowStart \in [Runs -> 0..LastDay] /\ windowEnd \in [Runs -> 0..LastDay]
  /\ limit \in [Runs -> Limits \cup {0}] /\ seen \in [Runs -> SUBSET Papers]
  /\ place \in [Runs -> Places] /\ cut \in [Runs -> BOOLEAN]

InWindow(p) == place[p] = Done \/ place[p].first \in windowStart[p]..windowEnd[p]

OpenAlexOK == works \in OpenAlexRows /\ found \in [OpenAlexRuns -> OpenAlexRows] /\ queue \subseteq Papers

Typed == RunnerOK /\ WorldOK /\ ArxivOK /\ (\A p \in running : InWindow(p)) /\ OpenAlexOK

LEMMA TypedIs == Typed => TypeOK
BY DEF Typed, TypeOK, RunnerOK, WorldOK, ArxivOK, InWindow, OpenAlexOK, Rows, OpenAlexRows

LEMMA Constants ==
  /\ LastDay \in Nat /\ LastDay >= 1 /\ ShownLag \in Nat /\ MaxRuns \in Nat /\ MaxFailures \in Nat
  /\ PageSize \in Nat /\ SliceDays \in Nat /\ SliceDays >= 1
  /\ Len(Categories) \in Nat /\ Len(Categories) >= 1 /\ DOMAIN Categories = 1..Len(Categories)
  /\ Done \in Places
  /\ EmptyBuffer \in Rows
<1>1. LastDay \in Nat /\ LastDay >= 1 /\ ShownLag \in Nat /\ MaxRuns \in Nat /\ MaxFailures \in Nat
      /\ PageSize \in Nat /\ SliceDays \in Nat /\ SliceDays >= 1
  BY PapersAssumption
<1>2. Len(Categories) \in Nat /\ Len(Categories) >= 1 /\ DOMAIN Categories = 1..Len(Categories)
  <2>1. Categories \in Seq(STRING) /\ Categories # <<>>
    BY PapersAssumption
  <2> QED BY <2>1, EmptySeq, LenProperties
<1>3. Done \in Places
  BY <1>1, <1>2 DEF Done, Places
<1> QED BY <1>1, <1>2, <1>3 DEF EmptyBuffer, Rows

LEMMA MergedRows ==
  ASSUME NEW old \in Rows, NEW new \in Rows
  PROVE  /\ Merged(old, new) \in Rows
         /\ \A k \in Keys : Merged(old, new)[k] = IF new[k] # NoRow THEN new[k] ELSE old[k]
BY DEF Merged, Rows

LEMMA Loaded ==
  ASSUME NEW p \in Runs, RunnerOK, Load(p)
  PROVE  /\ RunnerOK' /\ p \notin running /\ running' = running \cup {p}
         /\ UNCHANGED <<bronze, cursor, buffer>>
         /\ loaded'[p] = cursor /\ \A q \in Runs \ {p} : loaded'[q] = loaded[q]
BY DEF RunnerOK, Load

LEMMA Yielded ==
  ASSUME NEW p \in Runs, NEW rows \in Rows, RunnerOK, Yield(p, rows)
  PROVE  /\ RunnerOK' /\ p \in running /\ UNCHANGED <<bronze, cursor, running, loaded>>
         /\ \A q \in Runs \ {p} : buffer'[q] = buffer[q]
         /\ \A k \in Keys : buffer'[p][k] = IF rows[k] # NoRow THEN rows[k] ELSE buffer[p][k]
<1>1. buffer' = [buffer EXCEPT ![p] = Merged(buffer[p], rows)] /\ buffer \in [Runs -> Rows]
  BY DEF Yield, RunnerOK
<1>2. Merged(buffer[p], rows) \in Rows
      /\ \A k \in Keys : Merged(buffer[p], rows)[k] = IF rows[k] # NoRow THEN rows[k] ELSE buffer[p][k]
  BY <1>1, MergedRows
<1>3. buffer' \in [Runs -> Rows] /\ buffer'[p] = Merged(buffer[p], rows)
      /\ \A q \in Runs \ {p} : buffer'[q] = buffer[q]
  BY <1>1, <1>2
<1> QED BY <1>2, <1>3 DEF Yield, RunnerOK

LEMMA Flushed ==
  ASSUME NEW p \in Runs, NEW t, RunnerOK, Flush(p, t)
  PROVE  /\ RunnerOK' /\ p \in running /\ UNCHANGED <<cursor, running, loaded>>
         /\ \A q \in Runs \ {p} : buffer'[q] = buffer[q]
         /\ \A k \in Keys : /\ bronze[k] # NoRow => bronze'[k] # NoRow
                            /\ buffer[p][k] # NoRow => bronze'[k] # NoRow \/ buffer'[p][k] # NoRow
<1> DEFINE rest == [k \in Keys |-> IF TableOf[k] = t THEN NoRow ELSE buffer[p][k]]
           mine == OfTable(buffer[p], t)
<1>1. bronze \in Rows /\ buffer \in [Runs -> Rows] /\ buffer[p] \in Rows
  BY DEF RunnerOK
<1>2. mine \in Rows /\ \A k \in Keys : mine[k] = IF TableOf[k] = t THEN buffer[p][k] ELSE NoRow
  BY <1>1 DEF OfTable, Rows
<1>3. rest \in Rows /\ \A k \in Keys : rest[k] = IF TableOf[k] = t THEN NoRow ELSE buffer[p][k]
  BY <1>1 DEF Rows
<1>4. bronze' = Merged(bronze, mine) /\ buffer' = [buffer EXCEPT ![p] = rest]
  BY DEF Flush
<1> HIDE DEF rest, mine
<1>5. bronze' \in Rows /\ \A k \in Keys : bronze'[k] = IF mine[k] # NoRow THEN mine[k] ELSE bronze[k]
  BY <1>1, <1>2, <1>4, MergedRows
<1>6. buffer' \in [Runs -> Rows] /\ buffer'[p] = rest /\ \A q \in Runs \ {p} : buffer'[q] = buffer[q]
  BY <1>1, <1>3, <1>4
<1> QED BY <1>2, <1>3, <1>5, <1>6 DEF Flush, RunnerOK

LEMMA Gone ==
  ASSUME NEW p \in Runs, RunnerOK, Leave(p), cursor' \in 0..LastDay
  PROVE  /\ RunnerOK' /\ p \in running /\ running' = running \ {p} /\ bronze' = bronze
         /\ \A q \in Runs \ {p} : loaded'[q] = loaded[q] /\ buffer'[q] = buffer[q]
         /\ loaded'[p] = 0
<1>1. NoCursor = 0 /\ NoCursor \in 0..LastDay /\ EmptyBuffer \in Rows
  BY Constants, PaperKeysAssumption
<1> QED BY <1>1 DEF RunnerOK, Leave

LEMMA PaperRowsAre ==
  ASSUME NEW fresh, NEW revised, bronze \in Rows, day \in Days
  PROVE  /\ PaperRows(fresh, revised) \in Rows
         /\ \A x \in fresh : RowKey(x) \in Keys => PaperRows(fresh, revised)[RowKey(x)] # NoRow
<1>1. NoRow \notin Days
  BY PaperKeysAssumption
<1> HIDE DEF Days
<1>2. \A k \in Keys : bronze[k] \in Days \cup {NoRow}
  BY DEF Rows
<1>3. \A k \in Keys : PaperRows(fresh, revised)[k] \in Days \cup {NoRow}
  BY <1>2 DEF PaperRows
<1>4. PaperRows(fresh, revised) \in Rows
  BY <1>3 DEF PaperRows, Rows
<1>5. ASSUME NEW x \in fresh, RowKey(x) \in Keys PROVE PaperRows(fresh, revised)[RowKey(x)] # NoRow
  BY <1>1, <1>5 DEF PaperRows
<1> QED BY <1>4, <1>5

LEMMA KeyOfRow ==
  ASSUME NEW x \in Papers
  PROVE  /\ RowKey(x) \in Keys /\ PaperKey(x) \in Keys /\ RejectKey(x) \in Keys
         /\ RowKey(x) = PaperKey(x) \/ RowKey(x) = RejectKey(x)
BY PaperKeysAssumption DEF RowKey

\* The next place lies in the window, or the walk is over.
LEMMA NextPlaceIs ==
  ASSUME Typed, NEW p \in running, place[p] # Done, NEW entries, NEW total
  PROVE  LET next == NextPlace(p, entries, total) IN
         /\ next \in Places
         /\ next = Done \/ next.first \in windowStart[p]..windowEnd[p]
<1>1. p \in Runs /\ place[p] \in Places /\ windowStart[p] \in 0..LastDay /\ windowEnd[p] \in 0..LastDay
      /\ place[p].first \in windowStart[p]..windowEnd[p]
  BY DEF Typed, RunnerOK, ArxivOK, InWindow
<1>2. place[p].category \in 0..Len(Categories) /\ place[p].first \in 0..LastDay /\ place[p].offset \in Nat
      /\ place[p] = [category |-> place[p].category, first |-> place[p].first, offset |-> place[p].offset]
  BY <1>1 DEF Places
<1>3. place[p].offset + PageSize \in Nat
  BY <1>2, Constants
<1> DEFINE stay == [place[p] EXCEPT !.offset = place[p].offset + PageSize]
           after == SliceEnd(p, place[p].first) + 1
           slice == [place[p] EXCEPT !.first = after, !.offset = 0]
           turn == [category |-> place[p].category + 1, first |-> windowStart[p], offset |-> 0]
<1>4. stay \in Places /\ stay.first = place[p].first
  BY <1>2, <1>3 DEF Places
<1>5. after \in Nat /\ windowStart[p] <= after
  BY <1>1, Constants DEF SliceEnd
<1>6. after <= windowEnd[p] => slice \in Places /\ slice.first \in windowStart[p]..windowEnd[p]
  <2>1. SUFFICES ASSUME after <= windowEnd[p]
                 PROVE  slice \in Places /\ slice.first \in windowStart[p]..windowEnd[p]
    OBVIOUS
  <2>2. after \in windowStart[p]..windowEnd[p] /\ after \in 0..LastDay
    BY <1>1, <1>5, <2>1, Constants
  <2> HIDE DEF after
  <2> QED BY <1>2, <2>2 DEF Places
<1>7. place[p].category < Len(Categories) => turn \in Places /\ turn.first \in windowStart[p]..windowEnd[p]
  BY <1>1, <1>2, Constants DEF Places
<1>8. NextPlace(p, entries, total) = stay \/ NextPlace(p, entries, total) = Done
      \/ (after <= windowEnd[p] /\ NextPlace(p, entries, total) = slice)
      \/ (place[p].category < Len(Categories) /\ NextPlace(p, entries, total) = turn)
  BY DEF NextPlace, NextSlice
<1> HIDE DEF stay, slice, turn, after
<1> QED BY <1>1, <1>4, <1>6, <1>7, <1>8, Constants

LEMMA TypedInit == Init => Typed
<1> SUFFICES ASSUME Init PROVE Typed
  OBVIOUS
<1>1. NoCursor = 0
  BY PaperKeysAssumption
<1>2. RunnerOK /\ running = {}
  BY <1>1, Constants DEF Init, RunnerInit, RunnerOK
<1>3. WorldOK
  BY Constants, FS_EmptySet DEF Init, WorldOK, Days
<1>4. ArxivOK
  BY Constants DEF Init, ArxivOK
<1>5. OpenAlexOK
  BY DEF Init, OpenAlexOK, OpenAlex!RunnerInit, OpenAlex!EmptyBuffer, OpenAlexRows
<1> QED BY <1>2, <1>3, <1>4, <1>5 DEF Typed

\* What the steps do to the memory of the runs.
LEMMA BegunIs ==
  ASSUME Typed, cursor <= day, NEW p \in Runs, NEW lim \in Limits, Begin(p, lim)
  PROVE  /\ ArxivOK' /\ place'[p].offset = 0 /\ place'[p].category = 1
         /\ place'[p].first = windowStart'[p]
         /\ FollowsOn(windowStart'[p], cursor) /\ windowEnd'[p] = day /\ seen'[p] = {}
         /\ place'[p].first \in windowStart'[p]..windowEnd'[p]
         /\ \A q \in Runs \ {p} :
              /\ windowStart'[q] = windowStart[q] /\ windowEnd'[q] = windowEnd[q] /\ seen'[q] = seen[q]
              /\ place'[q] = place[q] /\ cut'[q] = cut[q]
<1>1. cursor \in 0..LastDay /\ day \in 1..LastDay
  BY DEF Typed, RunnerOK, WorldOK, Days
<1>2. /\ StartOfWindow(cursor) \in 0..LastDay /\ StartOfWindow(cursor) <= day
      /\ FollowsOn(StartOfWindow(cursor), cursor)
  BY <1>1, Constants, PaperKeysAssumption, PapersAssumption DEF StartOfWindow, Since, FollowsOn
<1> DEFINE first == [category |-> 1, first |-> StartOfWindow(cursor), offset |-> 0]
<1>3. first \in Places
  BY <1>2, Constants DEF Places
<1>4. /\ windowStart' = [windowStart EXCEPT ![p] = StartOfWindow(cursor)]
      /\ windowEnd' = [windowEnd EXCEPT ![p] = day]
      /\ limit' = [limit EXCEPT ![p] = lim]
      /\ seen' = [seen EXCEPT ![p] = {}]
      /\ place' = [place EXCEPT ![p] = first]
      /\ cut' = [cut EXCEPT ![p] = FALSE]
  BY DEF Begin
<1>5. place'[p] = first
  BY <1>4 DEF Typed, ArxivOK
<1>6. first.offset = 0 /\ first.category = 1 /\ first.first = StartOfWindow(cursor)
  OBVIOUS
<1> HIDE DEF first
<1>7. windowStart \in [Runs -> 0..LastDay] /\ windowEnd \in [Runs -> 0..LastDay]
      /\ limit \in [Runs -> Limits \cup {0}] /\ seen \in [Runs -> SUBSET Papers]
      /\ place \in [Runs -> Places] /\ cut \in [Runs -> BOOLEAN]
  BY DEF Typed, ArxivOK
<1>8. windowStart'[p] = StartOfWindow(cursor) /\ windowEnd'[p] = day /\ seen'[p] = {}
  BY <1>4, <1>7
<1>9. StartOfWindow(cursor) \in StartOfWindow(cursor)..day
  BY <1>1, <1>2
<1>10. ArxivOK'
  <2>1. day \in 0..LastDay
    BY <1>1
  <2>2. windowStart' \in [Runs -> 0..LastDay] /\ windowEnd' \in [Runs -> 0..LastDay]
    BY <1>2, <1>4, <1>7, <2>1
  <2>3. limit' \in [Runs -> Limits \cup {0}] /\ seen' \in [Runs -> SUBSET Papers]
    BY <1>4, <1>7
  <2>4. place' \in [Runs -> Places] /\ cut' \in [Runs -> BOOLEAN]
    BY <1>3, <1>4, <1>7
  <2> QED BY <2>2, <2>3, <2>4 DEF ArxivOK
<1>11. ASSUME NEW q \in Runs \ {p}
       PROVE  /\ windowStart'[q] = windowStart[q] /\ windowEnd'[q] = windowEnd[q] /\ seen'[q] = seen[q]
              /\ place'[q] = place[q] /\ cut'[q] = cut[q]
  BY <1>4, <1>7
<1> QED BY <1>2, <1>5, <1>6, <1>8, <1>9, <1>10, <1>11

LEMMA TakenIs ==
  ASSUME Typed, NEW p \in Runs, NEW entries \in SUBSET Papers, NEW total, TakePage(p, entries, total),
         cut' = cut \/ cut' = [cut EXCEPT ![p] = TRUE]
  PROVE  /\ RunnerOK' /\ ArxivOK' /\ p \in running /\ place[p] # Done
         /\ UNCHANGED <<bronze, cursor, running, loaded, windowStart, windowEnd>>
         /\ place'[p] = NextPlace(p, entries, total) /\ InWindow(p)'
         /\ seen'[p] = seen[p] \cup entries
         /\ \A x \in seen'[p] \ seen[p] : buffer'[p][RowKey(x)] # NoRow
         /\ \A k \in Keys : buffer[p][k] # NoRow => buffer'[p][k] # NoRow
         /\ \A q \in Runs \ {p} :
              buffer'[q] = buffer[q] /\ seen'[q] = seen[q] /\ place'[q] = place[q] /\ cut'[q] = cut[q]
<1>1. place[p] # Done /\ \E revised \in SUBSET (entries \cap Revisable) : Yield(p, PaperRows(entries \ seen[p], revised))
  BY DEF TakePage
<1> PICK revised \in SUBSET (entries \cap Revisable) : Yield(p, PaperRows(entries \ seen[p], revised))
  BY <1>1
<1> DEFINE fresh == PaperRows(entries \ seen[p], revised)
<1>2. fresh \in Rows /\ \A x \in entries \ seen[p] : fresh[RowKey(x)] # NoRow
  <2>1. bronze \in Rows /\ day \in Days
    BY DEF Typed, RunnerOK, WorldOK
  <2> QED BY <2>1, PaperRowsAre, KeyOfRow
<1>3. RunnerOK /\ Yield(p, fresh)
  BY DEF Typed
<1> HIDE DEF fresh
<1>4. /\ RunnerOK' /\ p \in running /\ UNCHANGED <<bronze, cursor, running, loaded>>
      /\ \A q \in Runs \ {p} : buffer'[q] = buffer[q]
      /\ \A k \in Keys : buffer'[p][k] = IF fresh[k] # NoRow THEN fresh[k] ELSE buffer[p][k]
  BY <1>2, <1>3, Yielded
<1>5. /\ NextPlace(p, entries, total) \in Places
      /\ NextPlace(p, entries, total) = Done
         \/ NextPlace(p, entries, total).first \in windowStart[p]..windowEnd[p]
  BY <1>1, <1>4, NextPlaceIs
<1>6. /\ seen' = [seen EXCEPT ![p] = seen[p] \cup entries]
      /\ place' = [place EXCEPT ![p] = NextPlace(p, entries, total)]
      /\ UNCHANGED <<windowStart, windowEnd, limit>>
  BY DEF TakePage
<1>7. windowStart \in [Runs -> 0..LastDay] /\ windowEnd \in [Runs -> 0..LastDay]
      /\ limit \in [Runs -> Limits \cup {0}] /\ seen \in [Runs -> SUBSET Papers]
      /\ place \in [Runs -> Places] /\ cut \in [Runs -> BOOLEAN]
  BY DEF Typed, ArxivOK
<1>8. /\ place'[p] = NextPlace(p, entries, total) /\ seen'[p] = seen[p] \cup entries
      /\ \A q \in Runs \ {p} : seen'[q] = seen[q] /\ place'[q] = place[q] /\ cut'[q] = cut[q]
      /\ seen' \in [Runs -> SUBSET Papers] /\ place' \in [Runs -> Places] /\ cut' \in [Runs -> BOOLEAN]
  BY <1>5, <1>6, <1>7
<1>9. ArxivOK'
  BY <1>6, <1>7, <1>8 DEF ArxivOK
<1>10. InWindow(p)'
  BY <1>5, <1>6, <1>8 DEF InWindow
<1>11. \A x \in seen'[p] \ seen[p] : buffer'[p][RowKey(x)] # NoRow
  <2> SUFFICES ASSUME NEW x \in seen'[p] \ seen[p] PROVE buffer'[p][RowKey(x)] # NoRow
    OBVIOUS
  <2>1. x \in entries \ seen[p] /\ RowKey(x) \in Keys
    BY <1>8, KeyOfRow
  <2> QED BY <1>2, <1>4, <2>1
<1>12. \A k \in Keys : buffer[p][k] # NoRow => buffer'[p][k] # NoRow
  BY <1>4
<1> QED BY <1>1, <1>4, <1>6, <1>8, <1>9, <1>10, <1>11, <1>12

LEMMA ForgottenIs ==
  ASSUME ArxivOK, NEW p \in Runs, Forget(p)
  PROVE  /\ ArxivOK' /\ windowEnd'[p] = 0
         /\ \A q \in Runs \ {p} :
              /\ windowStart'[q] = windowStart[q] /\ windowEnd'[q] = windowEnd[q] /\ seen'[q] = seen[q]
              /\ place'[q] = place[q] /\ cut'[q] = cut[q]
BY Constants DEF ArxivOK, Forget

LEMMA OpenAlexTyped ==
  ASSUME OpenAlexOK, NEW o \in OpenAlexRuns, EnrichingStep(o) \/ FailEnriching(o)
  PROVE  OpenAlexOK'
<1>1. works \in OpenAlexRows /\ found \in [OpenAlexRuns -> OpenAlexRows] /\ queue \subseteq Papers
  BY DEF OpenAlexOK
<1>2. ASSUME NEW some \in SUBSET Pending, StartEnriching(o, some) PROVE OpenAlexOK'
  BY <1>1, <1>2 DEF StartEnriching, OpenAlex!Load, OpenAlexOK, Pending
<1>3. ASSUME NEW x \in Papers, NEW said \in Answers[x], Enrich(o, x, said) PROVE OpenAlexOK'
  <2>1. WorkRows(x, said) \in OpenAlexRows
    <3>1. said \in AnswerKinds
      BY PapersAssumption
    <3> HIDE DEF AnswerKinds
    <3> QED BY <3>1 DEF WorkRows, OpenAlexRows
  <2>2. found' = [found EXCEPT ![o] = OpenAlex!Merged(found[o], WorkRows(x, said))] /\ works' = works
        /\ queue' \subseteq queue
    BY <1>3 DEF Enrich, OpenAlex!Yield
  <2>3. OpenAlex!Merged(found[o], WorkRows(x, said)) \in OpenAlexRows
    BY <1>1, <2>1 DEF OpenAlex!Merged, OpenAlexRows
  <2> QED BY <1>1, <2>2, <2>3 DEF OpenAlexOK
<1>4. ASSUME NEW t \in OpenAlexTables, FlushWorks(o, t) PROVE OpenAlexOK'
  <2> DEFINE mine == OpenAlex!OfTable(found[o], t)
             tables == [j \in OpenAlexKeys |-> IF j \in WorkKeys THEN "works" ELSE "rejects"]
             rest == [k \in OpenAlexKeys |-> IF tables[k] = t THEN NoRow ELSE found[o][k]]
  <2>1. works' = OpenAlex!Merged(works, mine) /\ found' = [found EXCEPT ![o] = rest] /\ queue' = queue
    BY <1>4 DEF FlushWorks, OpenAlex!Flush
  <2> HIDE DEF tables
  <2>2. mine \in OpenAlexRows
    BY <1>1 DEF OpenAlex!OfTable, OpenAlexRows
  <2>3. rest \in OpenAlexRows
    BY <1>1 DEF OpenAlexRows
  <2> HIDE DEF mine, rest
  <2>4. OpenAlex!Merged(works, mine) \in OpenAlexRows
    BY <1>1, <2>2 DEF OpenAlex!Merged, OpenAlexRows
  <2> QED BY <1>1, <2>1, <2>3, <2>4 DEF OpenAlexOK
<1>5. OpenAlex!EmptyBuffer \in OpenAlexRows
  BY DEF OpenAlex!EmptyBuffer, OpenAlexRows
<1>6. CASE SaveEnriched(o)
  BY <1>1, <1>5, <1>6 DEF SaveEnriched, OpenAlex!Save, OpenAlex!Leave, OpenAlexOK
<1>7. CASE FailEnriching(o)
  BY <1>1, <1>5, <1>7 DEF FailEnriching, OpenAlex!RunFails, OpenAlex!RunCrashes, OpenAlex!Leave, OpenAlexOK
<1> QED BY <1>2, <1>3, <1>4, <1>6, <1>7 DEF EnrichingStep

LEMMA TypedStep == Typed /\ TimeInv /\ [Next]_vars => Typed'
<1> SUFFICES ASSUME Typed, TimeInv, [Next]_vars PROVE Typed'
  OBVIOUS
<1>1. /\ RunnerOK /\ WorldOK /\ ArxivOK /\ OpenAlexOK /\ \A p \in running : InWindow(p)
      /\ running \subseteq Runs
  BY DEF Typed, RunnerOK
<1>2. CASE UNCHANGED vars
  BY <1>1, <1>2 DEF vars, runnerVars, arxivVars, openalexVars, Typed, RunnerOK, WorldOK, ArxivOK, OpenAlexOK,
     InWindow
<1>3. CASE NextDay
  <2>1. WorldOK'
    BY <1>1, <1>3, Constants DEF NextDay, WorldOK, Days
  <2> QED BY <1>1, <1>3, <2>1 DEF NextDay, runnerVars, arxivVars, openalexVars, Typed, RunnerOK, ArxivOK,
          OpenAlexOK, InWindow
<1>4. ASSUME NEW x \in Papers, Show(x) PROVE Typed'
  <2>1. WorldOK'
    BY <1>1, <1>4, FS_AddElement DEF Show, WorldOK
  <2> QED BY <1>1, <1>4, <2>1 DEF Show, runnerVars, arxivVars, openalexVars, Typed, RunnerOK, ArxivOK,
          OpenAlexOK, InWindow
<1>5. ASSUME NEW p \in Runs, ArxivRun(p) PROVE Typed'
  <2>1. ASSUME NEW lim \in Limits, Begin(p, lim) PROVE Typed'
    <3>1. cursor <= day
      BY DEF TimeInv
    <3>2. Load(p)
      BY <2>1 DEF Begin
    <3>3. RunnerOK' /\ running' = running \cup {p}
      BY <1>1, <3>2, Loaded
    <3>4. /\ ArxivOK' /\ place'[p].first \in windowStart'[p]..windowEnd'[p]
          /\ \A q \in Runs \ {p} :
               windowStart'[q] = windowStart[q] /\ windowEnd'[q] = windowEnd[q] /\ place'[q] = place[q]
      BY <2>1, <3>1, BegunIs
    <3>5. \A q \in running' : InWindow(q)'
      BY <1>1, <3>3, <3>4 DEF InWindow
    <3>6. WorldOK'
      BY <1>1, <2>1, Constants DEF Begin, WorldOK
    <3>7. OpenAlexOK'
      BY <1>1, <2>1 DEF Begin, openalexVars, OpenAlexOK
    <3> QED BY <3>3, <3>4, <3>5, <3>6, <3>7 DEF Typed
  <2>2. ASSUME NEW entries \in SUBSET Papers, NEW total, TakePage(p, entries, total),
               cut' = cut \/ cut' = [cut EXCEPT ![p] = TRUE]
        PROVE  Typed'
    <3>1. /\ RunnerOK' /\ ArxivOK' /\ InWindow(p)' /\ UNCHANGED <<running, windowStart, windowEnd>>
          /\ \A q \in Runs \ {p} : place'[q] = place[q]
      BY <2>2, TakenIs
    <3>2. \A q \in running' : InWindow(q)'
      BY <1>1, <3>1 DEF InWindow
    <3>3. WorldOK' /\ OpenAlexOK'
      BY <1>1, <2>2 DEF TakePage, WorldOK, OpenAlexOK, openalexVars
    <3> QED BY <3>1, <3>2, <3>3 DEF Typed
  <2>3. CASE Page(p)
    <3>1. PageOf(Results(p), place[p].offset) \in SUBSET Papers
      BY <1>1 DEF PageOf, Results, WorldOK
    <3> QED BY <2>2, <2>3, <3>1 DEF Page
  <2>4. CASE EmptyPage(p)
    BY <2>2, <2>4 DEF EmptyPage
  <2>5. CASE StopAtLimit(p)
    <3>1. ArxivOK' /\ place'[p] = Done /\ UNCHANGED <<windowStart, windowEnd>>
          /\ \A q \in Runs \ {p} : place'[q] = place[q]
      BY <1>1, <2>5, Constants DEF StopAtLimit, ArxivOK
    <3>2. RunnerOK' /\ running' = running /\ WorldOK' /\ OpenAlexOK'
      BY <1>1, <2>5 DEF StopAtLimit, runnerVars, openalexVars, RunnerOK, WorldOK, OpenAlexOK
    <3>3. \A q \in running' : InWindow(q)'
      BY <1>1, <3>1, <3>2 DEF InWindow
    <3> QED BY <3>1, <3>2, <3>3 DEF Typed
  <2>6. ASSUME NEW t \in Tables, FlushTable(p, t) PROVE Typed'
    <3>1. Flush(p, t)
      BY <2>6 DEF FlushTable
    <3>2. RunnerOK' /\ running' = running
      BY <1>1, <3>1, Flushed
    <3> QED BY <1>1, <2>6, <3>2 DEF FlushTable, arxivVars, openalexVars, Typed, WorldOK, ArxivOK, OpenAlexOK,
            InWindow
  <2>7. CASE SaveCursor(p)
    <3>1. Leave(p) /\ cursor' = windowEnd[p] /\ Forget(p)
      BY <2>7 DEF SaveCursor, Save
    <3>2. cursor' \in 0..LastDay
      BY <1>1, <3>1 DEF ArxivOK
    <3>3. RunnerOK' /\ running' = running \ {p}
      BY <1>1, <3>1, <3>2, Gone
    <3>4. /\ ArxivOK'
          /\ \A q \in Runs \ {p} :
               windowStart'[q] = windowStart[q] /\ windowEnd'[q] = windowEnd[q] /\ place'[q] = place[q]
      BY <1>1, <3>1, ForgottenIs
    <3>5. \A q \in running' : InWindow(q)'
      BY <1>1, <3>3, <3>4 DEF InWindow
    <3>6. cutDays' \subseteq 0..LastDay
      BY <1>1, <2>7 DEF SaveCursor, LeftOut, WorldOK
    <3>7. WorldOK' /\ OpenAlexOK'
      BY <1>1, <2>7, <3>6 DEF SaveCursor, WorldOK, OpenAlexOK, openalexVars
    <3> QED BY <3>3, <3>4, <3>5, <3>7 DEF Typed
  <2>8. CASE Fail(p)
    <3>1. Leave(p) /\ Forget(p) /\ cursor' \in {cursor, loaded[p]}
      BY <2>8 DEF Fail, RunFails, RunCrashes
    <3>2. cursor' \in 0..LastDay
      BY <1>1, <3>1 DEF RunnerOK
    <3>3. RunnerOK' /\ running' = running \ {p}
      BY <1>1, <3>1, <3>2, Gone
    <3>4. /\ ArxivOK'
          /\ \A q \in Runs \ {p} :
               windowStart'[q] = windowStart[q] /\ windowEnd'[q] = windowEnd[q] /\ place'[q] = place[q]
      BY <1>1, <3>1, ForgottenIs
    <3>5. \A q \in running' : InWindow(q)'
      BY <1>1, <3>3, <3>4 DEF InWindow
    <3>6. WorldOK' /\ OpenAlexOK'
      BY <1>1, <2>8, Constants DEF Fail, WorldOK, OpenAlexOK, openalexVars
    <3> QED BY <3>3, <3>4, <3>5, <3>6 DEF Typed
  <2> QED BY <1>5, <2>1, <2>3, <2>4, <2>5, <2>6, <2>7, <2>8 DEF ArxivRun
<1>6. ASSUME NEW o \in OpenAlexRuns, EnrichingStep(o) \/ FailEnriching(o) PROVE Typed'
  <2>1. OpenAlexOK'
    BY <1>1, <1>6, OpenAlexTyped
  <2>2. UNCHANGED <<runnerVars, day, shown, started, arxivVars, cutDays>>
        /\ (failures' = failures \/ (failures < MaxFailures /\ failures' = failures + 1))
    BY <1>6 DEF EnrichingStep, StartEnriching, Enrich, FlushWorks, SaveEnriched, FailEnriching
  <2>3. failures' \in 0..MaxFailures
    BY <1>1, <2>2, Constants DEF WorldOK
  <2> QED BY <1>1, <2>1, <2>2, <2>3 DEF runnerVars, arxivVars, Typed, RunnerOK, WorldOK, ArxivOK, InWindow
<1> QED BY <1>2, <1>3, <1>4, <1>5, <1>6 DEF Next

LEMMA TimeStep == Typed /\ TimeInv /\ [Next]_vars => TimeInv'
<1> SUFFICES ASSUME Typed, TimeInv, [Next]_vars PROVE TimeInv'
  OBVIOUS
<1>1. RunnerOK /\ ArxivOK /\ day \in Nat /\ cursor \in Nat
      /\ \A q \in Runs : loaded[q] \in Nat /\ windowEnd[q] \in Nat
  BY Constants DEF Typed, RunnerOK, WorldOK, ArxivOK, Days
<1>2. cursor <= day /\ \A q \in Runs : loaded[q] <= day /\ windowEnd[q] <= day
  BY DEF TimeInv
<1>3. ASSUME UNCHANGED <<cursor, loaded, windowEnd>>, day' = day \/ day' = day + 1
      PROVE  TimeInv'
  BY <1>1, <1>2, <1>3 DEF TimeInv
<1>4. CASE UNCHANGED vars
  BY <1>3, <1>4 DEF vars, runnerVars, arxivVars
<1>5. CASE NextDay
  BY <1>3, <1>5 DEF NextDay, runnerVars, arxivVars
<1>6. ASSUME NEW x \in Papers, Show(x) PROVE TimeInv'
  BY <1>3, <1>6 DEF Show, runnerVars, arxivVars
<1>7. ASSUME NEW o \in OpenAlexRuns, EnrichingStep(o) \/ FailEnriching(o) PROVE TimeInv'
  <2>1. UNCHANGED <<runnerVars, day, arxivVars>>
    BY <1>7 DEF EnrichingStep, StartEnriching, Enrich, FlushWorks, SaveEnriched, FailEnriching
  <2> QED BY <1>3, <2>1 DEF runnerVars, arxivVars
<1>8. ASSUME NEW p \in Runs, ArxivRun(p) PROVE TimeInv'
  <2>1. ASSUME NEW lim \in Limits, Begin(p, lim) PROVE TimeInv'
    <3>1. Load(p) /\ day' = day
      BY <2>1 DEF Begin
    <3>2. cursor' = cursor /\ loaded'[p] = cursor /\ \A q \in Runs \ {p} : loaded'[q] = loaded[q]
      BY <1>1, <3>1, Loaded
    <3>3. windowEnd'[p] = day /\ \A q \in Runs \ {p} : windowEnd'[q] = windowEnd[q]
      BY <1>2, <2>1, BegunIs
    <3> QED BY <1>1, <1>2, <3>1, <3>2, <3>3 DEF TimeInv
  <2>2. CASE Page(p) \/ EmptyPage(p)
    <3>1. UNCHANGED <<cursor, loaded, windowEnd, day>>
      BY <2>2 DEF Page, EmptyPage, TakePage, Yield
    <3> QED BY <1>3, <3>1
  <2>3. CASE StopAtLimit(p)
    BY <1>3, <2>3 DEF StopAtLimit, runnerVars
  <2>4. ASSUME NEW t \in Tables, FlushTable(p, t) PROVE TimeInv'
    BY <1>3, <2>4 DEF FlushTable, Flush, arxivVars
  <2>5. ASSUME Leave(p), Forget(p), day' = day, cursor' \in {cursor, loaded[p], windowEnd[p]} PROVE TimeInv'
    <3>1. cursor' \in 0..LastDay
      BY <1>1, <2>5 DEF RunnerOK, ArxivOK
    <3>2. loaded'[p] = 0 /\ \A q \in Runs \ {p} : loaded'[q] = loaded[q]
      BY <1>1, <2>5, <3>1, Gone
    <3>3. windowEnd'[p] = 0 /\ \A q \in Runs \ {p} : windowEnd'[q] = windowEnd[q]
      BY <1>1, <2>5, ForgottenIs
    <3>4. cursor' <= day'
      BY <1>2, <2>5
    <3>5. \A q \in Runs : loaded'[q] <= day' /\ windowEnd'[q] <= day'
      BY <1>1, <1>2, <2>5, <3>2, <3>3
    <3> QED BY <3>4, <3>5 DEF TimeInv
  <2>6. CASE SaveCursor(p)
    BY <2>5, <2>6 DEF SaveCursor, Save
  <2>7. CASE Fail(p)
    BY <2>5, <2>7 DEF Fail, RunFails, RunCrashes
  <2> QED BY <1>8, <2>1, <2>2, <2>3, <2>4, <2>6, <2>7 DEF ArxivRun
<1> QED BY <1>4, <1>5, <1>6, <1>7, <1>8 DEF Next

LEMMA TimeInit == Init => TimeInv
<1> SUFFICES ASSUME Init PROVE TimeInv
  OBVIOUS
<1>1. day = 1 /\ cursor = 0 /\ \A p \in Runs : loaded[p] = 0 /\ windowEnd[p] = 0
  BY PaperKeysAssumption DEF Init, RunnerInit
<1> QED BY <1>1 DEF TimeInv

LEMMA AlwaysTyped == Spec => [](Typed /\ TimeInv)
<1>1. Init => Typed /\ TimeInv
  BY TypedInit, TimeInit
<1>2. Typed /\ TimeInv /\ [Next]_vars => (Typed /\ TimeInv)'
  BY TypedStep, TimeStep
<1> QED BY <1>1, <1>2, PTL DEF Spec

\* Every variable keeps its type, and a run asks for days of its own window,
\* for any papers, categories, pages, runs and failures.
THEOREM TypeCorrect == Spec => []TypeOK
BY AlwaysTyped, TypedIs, PTL

(***************************************************************************)
(* The promise of the cursor.                                              *)
(***************************************************************************)

\* Whatever leaves the cursors alone and loses nothing keeps what they promise.
LEMMA CursorsKept ==
  ASSUME Typed, CursorInv, day' \in Nat, day <= day', Lost' \subseteq Lost, running' \subseteq running,
         UNCHANGED <<cursor, loaded, windowStart, windowEnd>>
  PROVE  CursorInv'
<1>1. cursor \in Nat /\ day \in Nat /\ \A p \in Runs : loaded[p] \in Nat /\ windowEnd[p] \in Nat
  BY Constants DEF Typed, RunnerOK, WorldOK, ArxivOK, Days
<1>2. /\ cursor <= day /\ \A x \in Lost : cursor <= Submitted[x] + 1
      /\ \A p \in Runs : loaded[p] <= day /\ windowEnd[p] <= day
      /\ \A p \in running : /\ FollowsOn(windowStart[p], loaded[p])
                            /\ \A x \in Lost : loaded[p] <= Submitted[x] + 1
  BY DEF CursorInv, TimeInv
<1>3. cursor' <= day' /\ \A p \in Runs : loaded'[p] <= day' /\ windowEnd'[p] <= day'
  BY <1>1, <1>2
<1>4. \A p \in running' : FollowsOn(windowStart'[p], loaded'[p])
  BY <1>2
<1>5. /\ \A x \in Lost' : cursor' <= Submitted[x] + 1
      /\ \A p \in running' : \A x \in Lost' : loaded'[p] <= Submitted[x] + 1
  BY <1>2
<1> HIDE DEF Lost
<1> QED BY <1>3, <1>4, <1>5 DEF CursorInv, TimeInv

LEMMA NoneLost ==
  ASSUME Typed, shown' = shown, cutDays \subseteq cutDays',
         \A k \in Keys : bronze[k] # NoRow => bronze'[k] # NoRow
  PROVE  Lost' \subseteq Lost
<1>1. \A x \in shown : PaperKey(x) \in Keys /\ RejectKey(x) \in Keys
  BY KeyOfRow DEF Typed, WorldOK
<1> QED BY <1>1 DEF Lost, Kept

\* A run that rests while others move.
LEMMA SeenKept ==
  ASSUME Typed, NEW q \in running, \A x \in seen[q] : Held(q, x),
         seen'[q] = seen[q], buffer'[q] = buffer[q],
         \A k \in Keys : bronze[k] # NoRow => bronze'[k] # NoRow
  PROVE  \A x \in seen'[q] : Held(q, x)'
<1>1. \A x \in seen[q] : RowKey(x) \in Keys
  BY KeyOfRow DEF Typed, RunnerOK, ArxivOK
<1> QED BY <1>1 DEF Held

LEMMA SameResults ==
  ASSUME NEW q, shown' = shown, place'[q] = place[q], windowEnd'[q] = windowEnd[q]
  PROVE  Results(q)' = Results(q)
BY DEF Results, SliceEnd

LEMMA WalkKept ==
  ASSUME NEW q, cut[q] \/ Walked(q), shown' = shown, place'[q] = place[q], cut'[q] = cut[q],
         windowStart'[q] = windowStart[q], windowEnd'[q] = windowEnd[q], seen'[q] = seen[q]
  PROVE  cut'[q] \/ Walked(q)'
<1>1. Results(q)' = Results(q)
  BY SameResults
<1>2. ASSUME NEW x, NEW i PROVE Behind(q, i, x)' <=> Behind(q, i, x)
  BY <1>1 DEF Behind
<1>3. ASSUME NEW x PROVE Due(q, x)' <=> Due(q, x)
  BY DEF Due
<1> HIDE DEF Behind, Due
<1> QED BY <1>2, <1>3 DEF Walked

\* A paper that appears is too young for the windows of runs under way: it
\* shifts no page of an old one.
LEMMA ShowKeepsWalk ==
  ASSUME Typed, CursorInv, ShownLag <= 1, NEW z \in Papers, Show(z), NEW q \in running, Walked(q)
  PROVE  Walked(q)'
<1>1. /\ shown' = shown \cup {z} /\ z \in Papers /\ day <= Submitted[z] + ShownLag
      /\ UNCHANGED <<place, windowStart, windowEnd, seen>>
  BY DEF Show, arxivVars
<1>2. windowEnd[q] \in Nat /\ windowEnd[q] <= day /\ day \in Nat /\ Submitted[z] \in Nat
      /\ place[q].first \in Nat
  BY Constants, Ordered DEF CursorInv, TimeInv, Typed, RunnerOK, WorldOK, ArxivOK, Days, Places
<1>3. windowEnd[q] <= Submitted[z] + 1
  BY <1>1, <1>2, Constants
<1>4. Results(q) \subseteq Results(q)' /\ Results(q)' \subseteq Results(q) \cup {z}
  BY <1>1 DEF Results, SliceEnd
<1>5. SUFFICES ASSUME NEW x \in shown', NEW i \in DOMAIN Categories, Due(q, x)', Categories[i] \in Lists[x],
                      Behind(q, i, x)'
               PROVE  x \in seen'[q]
  BY DEF Walked
<1>6. Due(q, x)
  BY <1>1, <1>5 DEF Due
<1>7. x \in Papers /\ Submitted[x] \in Nat /\ Submitted[x] + 1 < windowEnd[q]
  BY <1>1, <1>6, Ordered DEF Due, Typed, WorldOK
<1>8. Submitted[x] < Submitted[z] /\ x # z
  BY <1>2, <1>3, <1>7
<1>9. Rank(x, Results(q)') = Rank(x, Results(q))
  <2>1. ~Before(z, x)
    BY <1>2, <1>7, <1>8 DEF Before
  <2>2. \A y : Before(y, x) => (y \in Results(q)' <=> y \in Results(q))
    BY <1>4, <2>1
  <2> HIDE DEF Results
  <2> QED BY <2>2, SameRank
<1>10. x \in Results(q)' => x \in Results(q)
  BY <1>4, <1>8
<1>11. Behind(q, i, x)
  BY <1>1, <1>5, <1>9, <1>10 DEF Behind
<1> QED BY <1>1, <1>5, <1>6, <1>8, <1>11 DEF Walked

\* The page a run takes brings it over the papers of its next place.
LEMMA PageWalks ==
  ASSUME Typed, NEW p \in running, Page(p), Walked(p)
  PROVE  Walked(p)'
<1> DEFINE S == Results(p)
           offset == place[p].offset
           entries == PageOf(S, offset)
           after == SliceEnd(p, place[p].first) + 1
<1>1. p \in Runs /\ TakePage(p, entries, Cardinality(S)) /\ cut' = cut
  BY DEF Page, Typed, RunnerOK
<1>2. S \in SUBSET shown /\ shown \in SUBSET Papers /\ IsFiniteSet(shown)
  BY DEF Results, Typed, WorldOK
<1>3. S \in SUBSET Papers /\ IsFiniteSet(S)
  BY <1>2, FS_Subset
<1>4. entries \in SUBSET S
  BY DEF PageOf
<1>5. /\ place[p] # Done /\ UNCHANGED <<windowStart, windowEnd>>
      /\ place'[p] = NextPlace(p, entries, Cardinality(S)) /\ seen'[p] = seen[p] \cup entries
  <2>1. entries \in SUBSET Papers
    BY <1>3, <1>4
  <2> HIDE DEF S, entries
  <2> QED BY <1>1, <2>1, TakenIs
<1>6. shown' = shown
  BY <1>1 DEF TakePage
<1>7. place[p] \in Places /\ offset \in Nat /\ place[p].first \in Nat /\ place[p].category \in Nat
      /\ windowStart[p] \in Nat /\ windowEnd[p] \in Nat
      /\ place[p] = [category |-> place[p].category, first |-> place[p].first, offset |-> offset]
  BY <1>1, Constants DEF Typed, ArxivOK, Places
<1>8. \A x \in S : Rank(x, S) \in Nat
  BY <1>3, Ranks
<1>9. SUFFICES ASSUME NEW x \in shown, NEW i \in DOMAIN Categories, Due(p, x), Categories[i] \in Lists[x],
                      Behind(p, i, x)'
               PROVE  x \in seen[p] \cup entries
  BY <1>5, <1>6 DEF Walked, Due
<1>10. Behind(p, i, x) => x \in seen[p]
  BY <1>9 DEF Walked
<1>11. Submitted[x] \in Nat /\ windowStart[p] <= Submitted[x] /\ Submitted[x] + 1 < windowEnd[p]
       /\ i \in 1..Len(Categories)
  BY <1>2, <1>9, Ordered, Constants DEF Due
<1>12. CASE Cardinality(entries) < PageSize \/ offset + PageSize >= Cardinality(S)
  <2>1. place'[p] = NextSlice(p, entries, Cardinality(S))
    BY <1>5, <1>12 DEF NextPlace
  <2>2. x \in S => x \in seen[p] \cup entries \/ i # place[p].category
    <3>1. x \in S /\ Rank(x, S) >= offset => x \in entries
      BY <1>3, <1>7, <1>12, ShortPage
    <3>2. x \in S /\ i = place[p].category /\ Rank(x, S) < offset => Behind(p, i, x)
      BY DEF Behind
    <3> QED BY <1>7, <1>8, <1>10, <3>1, <3>2
  <2>3. i = place[p].category /\ Submitted[x] < after => x \in seen[p] \cup entries
    <3>1. SUFFICES ASSUME i = place[p].category, Submitted[x] < after PROVE x \in seen[p] \cup entries
      OBVIOUS
    <3>2. CASE Submitted[x] < place[p].first
      BY <1>10, <3>1, <3>2 DEF Behind
    <3>3. CASE ~(Submitted[x] < place[p].first)
      <4>1. SliceEnd(p, place[p].first) \in Int
        BY <1>7, Constants DEF SliceEnd
      <4>2. Submitted[x] \in place[p].first..SliceEnd(p, place[p].first)
        BY <1>7, <1>11, <3>1, <3>3, <4>1
      <4>3. x \in S
        BY <1>9, <3>1, <4>2 DEF Results
      <4> QED BY <2>2, <3>1, <4>3
    <3> QED BY <3>2, <3>3
  <2>4. i < place[p].category => x \in seen[p]
    BY <1>10 DEF Behind
  <2>5. CASE after <= windowEnd[p]
    <3>1. place'[p] = [category |-> place[p].category, first |-> after, offset |-> 0]
      BY <1>7, <2>1, <2>5 DEF NextSlice
    <3>2. place'[p] # Done
      <4>1. place'[p].first = after /\ place'[p].category = place[p].category
        BY <3>1
      <4>2. after # 0
        BY <1>7, Constants DEF SliceEnd
      <4> QED BY <4>1, <4>2 DEF Done
    <3>3. ~(Rank(x, Results(p)') < 0) \/ x \notin Results(p)'
      <4>1. Results(p)' \in SUBSET shown
        BY <1>6 DEF Results
      <4>2. Results(p)' \in SUBSET Papers /\ IsFiniteSet(Results(p)')
        BY <1>2, <4>1, FS_Subset
      <4>3. x \in Results(p)' => Rank(x, Results(p)') \in Nat
        BY <4>2, Ranks
      <4> QED BY <4>3
    <3>4. i < place[p].category \/ (i = place[p].category /\ Submitted[x] < after)
      BY <1>9, <3>1, <3>2, <3>3 DEF Behind
    <3> QED BY <2>3, <2>4, <3>4
  <2>6. CASE ~(after <= windowEnd[p])
    <3>1. Submitted[x] < after
      BY <1>7, <1>11, <2>6, Constants DEF SliceEnd
    <3>2. i <= place[p].category => x \in seen[p] \cup entries
      BY <1>7, <1>11, <2>3, <2>4, <3>1
    <3>3. CASE place[p].category < Len(Categories)
      <4>1. place'[p] = [category |-> place[p].category + 1, first |-> windowStart[p], offset |-> 0]
        BY <2>1, <2>6, <3>3 DEF NextSlice
      <4>2. place'[p] # Done
        <5>1. place'[p].category = place[p].category + 1
          BY <4>1
        <5> QED BY <1>7, <5>1 DEF Done
      <4>3. ~(Rank(x, Results(p)') < 0) \/ x \notin Results(p)'
        <5>1. Results(p)' \in SUBSET shown
          BY <1>6 DEF Results
        <5>2. Results(p)' \in SUBSET Papers /\ IsFiniteSet(Results(p)')
          BY <1>2, <5>1, FS_Subset
        <5>3. x \in Results(p)' => Rank(x, Results(p)') \in Nat
          BY <5>2, Ranks
        <5> QED BY <5>3
      <4>4. i < place[p].category + 1 \/ (i = place[p].category + 1 /\ Submitted[x] < windowStart[p])
        BY <1>9, <4>1, <4>2, <4>3 DEF Behind
      <4> QED BY <1>7, <1>11, <3>2, <4>4
    <3>4. CASE ~(place[p].category < Len(Categories))
      BY <1>7, <1>11, <3>2, <3>4, Constants
    <3> QED BY <3>3, <3>4
  <2> QED BY <2>5, <2>6
<1>13. CASE ~(Cardinality(entries) < PageSize \/ offset + PageSize >= Cardinality(S))
  <2>1. place'[p] = [category |-> place[p].category, first |-> place[p].first, offset |-> offset + PageSize]
    BY <1>5, <1>7, <1>13 DEF NextPlace
  <2>2. place'[p].category = place[p].category /\ place'[p].first = place[p].first
        /\ place'[p].offset = offset + PageSize
    BY <2>1
  <2>3. place'[p] # Done
    <3>1. offset + PageSize # 0
      BY <1>7, PapersAssumption
    <3> QED BY <2>2, <3>1 DEF Done
  <2>4. Results(p)' = S
    BY <1>5, <1>6, <2>2 DEF Results, SliceEnd
  <2>5. \/ Behind(p, i, x)
        \/ i = place[p].category /\ x \in S /\ Rank(x, S) < offset + PageSize
    BY <1>9, <2>2, <2>3, <2>4 DEF Behind
  <2>6. i = place[p].category /\ x \in S /\ Rank(x, S) < offset => Behind(p, i, x)
    BY DEF Behind
  <2>7. x \in S /\ offset <= Rank(x, S) /\ Rank(x, S) < offset + PageSize => x \in entries
    BY <1>7, <1>8, Constants DEF PageOf
  <2> HIDE DEF S, entries
  <2> QED BY <1>7, <1>8, <1>10, <2>5, <2>6, <2>7
<1> QED BY <1>12, <1>13

\* Saving closes the window: what is old and not given up was seen, and what
\* was seen is in bronze.
LEMMA SaveIsHonest ==
  ASSUME Typed, Honest, NEW p \in Runs, SaveCursor(p), NEW x \in Lost'
  PROVE  x \in Lost /\ windowEnd[p] <= Submitted[x] + 1
<1>1. Leave(p) /\ Drained(p) /\ place[p] = Done /\ p \in running
      /\ bronze' = bronze /\ shown' = shown
      /\ cutDays' = cutDays \cup LeftOut(p)
  BY DEF SaveCursor, Save, Leave
<1>2. x \in shown /\ ~Kept(x) /\ Submitted[x] \notin cutDays'
  BY <1>1 DEF Lost, Kept
<1>3. x \in Lost
  BY <1>1, <1>2 DEF Lost
<1>4. x \in Papers /\ Submitted[x] \in 1..LastDay /\ windowStart[p] \in Nat /\ windowEnd[p] \in Nat /\ loaded[p] \in Nat
  BY <1>2, Constants, PapersAssumption DEF Typed, RunnerOK, WorldOK, ArxivOK
<1>5. Submitted[x] \in Nat /\ Submitted[x] >= 1
  BY <1>4, Constants
<1>6. SUFFICES ASSUME Submitted[x] + 1 < windowEnd[p] PROVE FALSE
  BY <1>3, <1>4, <1>5
<1>7. Submitted[x] < windowStart[p]
  <2>1. SUFFICES ASSUME windowStart[p] <= Submitted[x] PROVE FALSE
    BY <1>4, <1>5
  <2>2. CASE cut[p]
    <3>1. Submitted[x] \in LeftOut(p)
      BY <1>4, <1>5, <1>6, <2>1, <2>2, Constants DEF LeftOut
    <3> QED BY <1>1, <1>2, <3>1
  <2>3. CASE ~cut[p]
    <3>1. PICK i \in DOMAIN Categories : Categories[i] \in Lists[x]
      BY <1>4, PapersAssumption
    <3>2. Due(p, x) /\ Behind(p, i, x)
      BY <1>1, <1>6, <2>1 DEF Due, Behind
    <3>3. Walked(p)
      BY <1>1, <2>3 DEF Honest, WalkInv
    <3>4. x \in seen[p]
      BY <1>2, <3>1, <3>2, <3>3 DEF Walked
    <3>5. Held(p, x)
      BY <1>1, <3>4 DEF Honest, SeenInv
    <3>6. RowKey(x) \in Keys /\ (RowKey(x) = PaperKey(x) \/ RowKey(x) = RejectKey(x))
      BY <1>4, KeyOfRow
    <3>7. buffer[p][RowKey(x)] = NoRow
      BY <1>1, <3>6 DEF Drained, EmptyBuffer
    <3> QED BY <1>2, <3>5, <3>6, <3>7 DEF Held, Kept
  <2> QED BY <2>2, <2>3
<1>8. FollowsOn(windowStart[p], loaded[p]) /\ loaded[p] <= Submitted[x] + 1
  BY <1>1, <1>3 DEF Honest, CursorInv, TimeInv
<1>9. loaded[p] # 0
  <2>1. loaded[p] = NoCursor => Submitted[x] \in LeftOut(p)
    BY <1>4, <1>5, <1>7, Constants DEF LeftOut
  <2> QED BY <1>1, <1>2, <2>1, PaperKeysAssumption
<1> QED BY <1>4, <1>5, <1>7, <1>8, <1>9 DEF FollowsOn

LEMMA HonestInit == Init => Honest
<1> SUFFICES ASSUME Init PROVE Honest
  OBVIOUS
<1>1. NoCursor = 0 /\ running = {} /\ shown = {} /\ day = 1 /\ cursor = 0
      /\ \A p \in Runs : loaded[p] = 0 /\ windowEnd[p] = 0
  BY PaperKeysAssumption DEF Init, RunnerInit
<1> QED BY <1>1 DEF Honest, CursorInv, TimeInv, SeenInv, WalkInv, Lost

LEMMA HonestStep == ShownLag <= 1 /\ Typed /\ Typed' /\ Honest /\ [Next]_vars => Honest'
<1> SUFFICES ASSUME ShownLag <= 1, Typed, Typed', Honest, [Next]_vars PROVE Honest'
  OBVIOUS
<1>1. /\ CursorInv /\ running \subseteq Runs /\ day \in Nat /\ day' \in Nat
      /\ \A q \in running : cut[q] \/ Walked(q)
      /\ \A q \in running : \A x \in seen[q] : Held(q, x)
  BY Constants DEF Honest, SeenInv, WalkInv, Typed, RunnerOK, WorldOK, Days
<1>2. ASSUME running' \subseteq running, \A k \in Keys : bronze[k] # NoRow => bronze'[k] # NoRow,
             shown' = shown, cutDays \subseteq cutDays', day <= day', UNCHANGED <<cursor, loaded, windowStart, windowEnd>>
      PROVE  CursorInv'
  BY <1>1, <1>2, NoneLost, CursorsKept
<1>3. ASSUME NEW q \in running, seen'[q] = seen[q], buffer'[q] = buffer[q],
             \A k \in Keys : bronze[k] # NoRow => bronze'[k] # NoRow
      PROVE  \A x \in seen'[q] : Held(q, x)'
  BY <1>1, <1>3, SeenKept
<1>4. ASSUME NEW q \in running, shown' = shown, place'[q] = place[q], cut'[q] = cut[q],
             windowStart'[q] = windowStart[q], windowEnd'[q] = windowEnd[q], seen'[q] = seen[q]
      PROVE  cut'[q] \/ Walked(q)'
  BY <1>1, <1>4, WalkKept
<1>5. ASSUME UNCHANGED <<runnerVars, shown, arxivVars, cutDays>>, day <= day'
      PROVE  Honest'
  <2>1. UNCHANGED <<bronze, cursor, running, loaded, buffer, shown, windowStart, windowEnd, limit, seen, place,
                    cut, cutDays>>
    BY <1>5 DEF runnerVars, arxivVars
  <2>2. CursorInv'
    BY <1>2, <1>5, <2>1
  <2>3. SeenInv'
    BY <1>3, <2>1 DEF SeenInv
  <2>4. WalkInv'
    BY <1>4, <2>1 DEF WalkInv
  <2> QED BY <2>2, <2>3, <2>4 DEF Honest
<1>6. CASE UNCHANGED vars
  <2>1. day <= day'
    BY <1>1, <1>6 DEF vars
  <2> QED BY <1>5, <1>6, <2>1 DEF vars
<1>7. CASE NextDay
  <2>1. day <= day'
    BY <1>1, <1>7 DEF NextDay
  <2> QED BY <1>5, <1>7, <2>1 DEF NextDay
<1>8. ASSUME NEW z \in Papers, Show(z) PROVE Honest'
  <2>1. UNCHANGED <<bronze, cursor, running, loaded, buffer, windowStart, windowEnd, limit, seen, place,
                    cut, cutDays, day>>
        /\ shown' = shown \cup {z} /\ day <= Submitted[z] + ShownLag
    BY <1>8 DEF Show, runnerVars, arxivVars
  <2>2. day <= Submitted[z] + 1 /\ Submitted[z] \in Nat
    BY <1>1, <2>1, Ordered, Constants
  <2>3. Lost' \subseteq Lost \cup {z}
    BY <2>1 DEF Lost, Kept
  <2>4. \A p \in Runs : loaded[p] \in Nat /\ cursor \in Nat
    BY Constants DEF Typed, RunnerOK
  <2>5. CursorInv'
    <3>1. cursor' = cursor /\ cursor \in Nat /\ cursor <= day
      BY <1>1, <2>1, Constants DEF CursorInv, TimeInv, Typed, RunnerOK
    <3>2. \A x \in Lost' : cursor' <= Submitted[x] + 1
      BY <1>1, <2>2, <2>3, <3>1 DEF CursorInv, TimeInv
    <3>3. \A p \in running' : \A x \in Lost' : loaded'[p] <= Submitted[x] + 1
      BY <1>1, <2>1, <2>2, <2>3, <2>4 DEF CursorInv, TimeInv
    <3> HIDE DEF Lost
    <3> QED BY <1>1, <2>1, <3>1, <3>2, <3>3 DEF CursorInv, TimeInv
  <2>6. SeenInv'
    BY <1>3, <2>1 DEF SeenInv
  <2>7. WalkInv'
    BY <1>1, <1>8, <2>1, ShowKeepsWalk DEF WalkInv
  <2> QED BY <2>5, <2>6, <2>7 DEF Honest
<1>9. ASSUME NEW p \in Runs, ArxivRun(p) PROVE Honest'
  <2>1. ASSUME NEW lim \in Limits, Begin(p, lim) PROVE Honest'
    <3>1. Load(p) /\ UNCHANGED <<day, shown, cutDays>>
      BY <2>1 DEF Begin
    <3>2. /\ p \notin running /\ running' = running \cup {p} /\ UNCHANGED <<bronze, cursor, buffer>>
          /\ loaded'[p] = cursor /\ \A q \in Runs \ {p} : loaded'[q] = loaded[q]
      BY <3>1, Loaded DEF Typed
    <3>3. /\ place'[p].offset = 0 /\ place'[p].category = 1 /\ place'[p].first = windowStart'[p]
          /\ FollowsOn(windowStart'[p], cursor) /\ windowEnd'[p] = day /\ seen'[p] = {}
          /\ \A q \in Runs \ {p} :
               /\ windowStart'[q] = windowStart[q] /\ windowEnd'[q] = windowEnd[q] /\ seen'[q] = seen[q]
               /\ place'[q] = place[q] /\ cut'[q] = cut[q]
      BY <1>1, <2>1, BegunIs DEF CursorInv, TimeInv
    <3>4. CursorInv'
      <4>1. Lost' = Lost
        BY <3>1, <3>2 DEF Lost, Kept
      <4>2. \A q \in Runs : loaded'[q] <= day' /\ windowEnd'[q] <= day'
        BY <1>1, <3>1, <3>2, <3>3 DEF CursorInv, TimeInv
      <4>3. \A q \in running' : FollowsOn(windowStart'[q], loaded'[q])
        BY <1>1, <3>2, <3>3 DEF CursorInv, TimeInv
      <4>4. \A q \in running' : \A x \in Lost : loaded'[q] <= Submitted[x] + 1
        BY <1>1, <3>2 DEF CursorInv, TimeInv
      <4> HIDE DEF Lost
      <4> QED BY <1>1, <3>1, <3>2, <4>1, <4>2, <4>3, <4>4 DEF CursorInv, TimeInv
    <3>5. SeenInv'
      BY <1>1, <1>3, <3>2, <3>3 DEF SeenInv
    <3>6. Walked(p)'
      <4>1. SUFFICES ASSUME NEW x \in shown', NEW i \in DOMAIN Categories, Due(p, x)', Behind(p, i, x)' PROVE FALSE
        BY DEF Walked
      <4>2. place'[p] # Done
        BY <3>3 DEF Done
      <4>3. i \in Nat /\ i >= 1
        BY Constants
      <4>4. windowStart'[p] \in Nat /\ Submitted[x] \in Nat /\ windowStart'[p] <= Submitted[x]
        BY <4>1, Ordered, Constants DEF Due, Typed, ArxivOK, WorldOK
      <4>5. Results(p)' \in SUBSET shown' /\ shown' \in SUBSET Papers /\ IsFiniteSet(shown')
        BY DEF Results, Typed, WorldOK
      <4>6. Results(p)' \in SUBSET Papers /\ IsFiniteSet(Results(p)')
        BY <4>5, FS_Subset
      <4>7. x \in Results(p)' => Rank(x, Results(p)') \in Nat
        BY <4>6, Ranks
      <4>8. ~(i < 1) /\ ~(Submitted[x] < windowStart'[p]) /\ (x \in Results(p)' => ~(Rank(x, Results(p)') < 0))
        BY <4>3, <4>4, <4>7
      <4> QED BY <3>3, <4>1, <4>2, <4>8 DEF Behind
    <3>7. WalkInv'
      BY <1>1, <1>4, <3>1, <3>2, <3>3, <3>6 DEF WalkInv
    <3> QED BY <3>4, <3>5, <3>7 DEF Honest
  <2>2. ASSUME NEW entries \in SUBSET Papers, NEW total, TakePage(p, entries, total),
               cut' = cut \/ cut' = [cut EXCEPT ![p] = TRUE], cut'[p] \/ Walked(p)'
        PROVE  Honest'
    <3>1. /\ p \in running /\ UNCHANGED <<bronze, cursor, running, loaded, windowStart, windowEnd>>
          /\ seen'[p] = seen[p] \cup entries
          /\ \A x \in seen'[p] \ seen[p] : buffer'[p][RowKey(x)] # NoRow
          /\ \A k \in Keys : buffer[p][k] # NoRow => buffer'[p][k] # NoRow
          /\ \A q \in Runs \ {p} :
               buffer'[q] = buffer[q] /\ seen'[q] = seen[q] /\ place'[q] = place[q] /\ cut'[q] = cut[q]
      BY <2>2, TakenIs
    <3>2. UNCHANGED <<day, shown, cutDays>>
      BY <2>2 DEF TakePage
    <3>3. CursorInv'
      BY <1>1, <1>2, <3>1, <3>2
    <3>4. \A x \in seen'[p] : Held(p, x)'
      <4>1. SUFFICES ASSUME NEW x \in seen'[p], x \in seen[p] PROVE Held(p, x)'
        BY <3>1 DEF Held
      <4>2. RowKey(x) \in Keys
        BY KeyOfRow, <4>1 DEF Typed, ArxivOK
      <4>3. Held(p, x)
        BY <1>1, <3>1, <4>1
      <4> QED BY <3>1, <4>2, <4>3 DEF Held
    <3>5. SeenInv'
      BY <1>1, <1>3, <3>1, <3>4 DEF SeenInv
    <3>6. WalkInv'
      BY <1>1, <1>4, <2>2, <3>1, <3>2 DEF WalkInv
    <3> QED BY <3>3, <3>5, <3>6 DEF Honest
  <2>3. CASE Page(p)
    <3>1. PageOf(Results(p), place[p].offset) \in SUBSET Papers
      BY DEF PageOf, Results, Typed, WorldOK
    <3>2. TakePage(p, PageOf(Results(p), place[p].offset), Cardinality(Results(p))) /\ cut' = cut /\ p \in running
      BY <2>3 DEF Page
    <3>3. cut'[p] \/ Walked(p)'
      BY <1>1, <2>3, <3>2, PageWalks
    <3> QED BY <2>2, <3>1, <3>2, <3>3
  <2>4. CASE EmptyPage(p)
    <3>1. TakePage(p, {}, Cardinality(Results(p))) /\ cut' = [cut EXCEPT ![p] = TRUE]
      BY <2>4 DEF EmptyPage
    <3>2. cut'[p]
      BY <3>1 DEF Typed, ArxivOK
    <3> QED BY <2>2, <3>1, <3>2
  <2>5. CASE StopAtLimit(p)
    <3>1. UNCHANGED <<bronze, cursor, running, loaded, buffer, day, shown, windowStart, windowEnd, seen, cutDays>>
      BY <2>5 DEF StopAtLimit, runnerVars
    <3>2. cut'[p] /\ \A q \in Runs \ {p} : place'[q] = place[q] /\ cut'[q] = cut[q]
      BY <2>5 DEF StopAtLimit, Typed, ArxivOK
    <3>3. CursorInv'
      BY <1>1, <1>2, <3>1
    <3>4. SeenInv'
      BY <1>3, <3>1 DEF SeenInv
    <3>5. WalkInv'
      BY <1>1, <1>4, <3>1, <3>2 DEF WalkInv
    <3> QED BY <3>3, <3>4, <3>5 DEF Honest
  <2>6. ASSUME NEW t \in Tables, FlushTable(p, t) PROVE Honest'
    <3>1. Flush(p, t) /\ UNCHANGED <<day, shown, windowStart, windowEnd, limit, seen, place, cut, cutDays>>
      BY <2>6 DEF FlushTable, arxivVars
    <3>2. /\ p \in running /\ UNCHANGED <<cursor, running, loaded>>
          /\ \A q \in Runs \ {p} : buffer'[q] = buffer[q]
          /\ \A k \in Keys : /\ bronze[k] # NoRow => bronze'[k] # NoRow
                             /\ buffer[p][k] # NoRow => bronze'[k] # NoRow \/ buffer'[p][k] # NoRow
      BY <3>1, Flushed DEF Typed
    <3>3. CursorInv'
      BY <1>1, <1>2, <3>1, <3>2
    <3>4. \A x \in seen'[p] : Held(p, x)'
      <4>1. SUFFICES ASSUME NEW x \in seen[p] PROVE Held(p, x)'
        BY <3>1
      <4>2. RowKey(x) \in Keys
        BY KeyOfRow DEF Typed, ArxivOK
      <4>3. Held(p, x)
        BY <1>1, <3>2
      <4> QED BY <3>2, <4>2, <4>3 DEF Held
    <3>5. SeenInv'
      BY <1>1, <1>3, <3>1, <3>2, <3>4 DEF SeenInv
    <3>6. WalkInv'
      BY <1>4, <3>1, <3>2 DEF WalkInv
    <3> QED BY <3>3, <3>5, <3>6 DEF Honest
  <2>7. ASSUME Leave(p), Forget(p), shown' = shown, day' = day, cutDays \subseteq cutDays',
               cursor' \in 0..LastDay, cursor' <= day, \A x \in Lost' : cursor' <= Submitted[x] + 1
        PROVE  Honest'
    <3>1. /\ running' = running \ {p} /\ bronze' = bronze
          /\ \A q \in Runs \ {p} : loaded'[q] = loaded[q] /\ buffer'[q] = buffer[q]
          /\ loaded'[p] = 0
      BY <2>7, Gone DEF Typed
    <3>2. /\ windowEnd'[p] = 0
          /\ \A q \in Runs \ {p} :
               /\ windowStart'[q] = windowStart[q] /\ windowEnd'[q] = windowEnd[q] /\ seen'[q] = seen[q]
               /\ place'[q] = place[q] /\ cut'[q] = cut[q]
      BY <2>7, ForgottenIs DEF Typed
    <3>3. CursorInv'
      <4>1. Lost' \subseteq Lost
        BY <2>7, <3>1, NoneLost
      <4>2. \A q \in Runs : loaded'[q] <= day' /\ windowEnd'[q] <= day'
        BY <1>1, <2>7, <3>1, <3>2 DEF CursorInv, TimeInv
      <4>3. \A q \in running' : FollowsOn(windowStart'[q], loaded'[q])
        BY <1>1, <3>1, <3>2 DEF CursorInv, TimeInv
      <4>4. \A q \in running' : \A x \in Lost' : loaded'[q] <= Submitted[x] + 1
        BY <1>1, <3>1, <4>1 DEF CursorInv, TimeInv
      <4> HIDE DEF Lost
      <4> QED BY <2>7, <4>2, <4>3, <4>4 DEF CursorInv, TimeInv
    <3>4. SeenInv'
      BY <1>1, <1>3, <3>1, <3>2 DEF SeenInv
    <3>5. WalkInv'
      BY <1>1, <1>4, <2>7, <3>1, <3>2 DEF WalkInv
    <3> QED BY <3>3, <3>4, <3>5 DEF Honest
  <2>8. CASE SaveCursor(p)
    <3>1. Leave(p) /\ Forget(p) /\ UNCHANGED <<shown, day>> /\ cursor' = windowEnd[p] /\ cutDays \subseteq cutDays'
      BY <2>8 DEF SaveCursor, Save
    <3>2. cursor' \in 0..LastDay /\ cursor' <= day
      BY <1>1, <3>1 DEF CursorInv, TimeInv, Typed, ArxivOK
    <3>3. \A x \in Lost' : cursor' <= Submitted[x] + 1
      BY <2>8, <3>1, SaveIsHonest
    <3> QED BY <2>7, <3>1, <3>2, <3>3
  <2>9. CASE Fail(p)
    <3>1. Leave(p) /\ Forget(p) /\ UNCHANGED <<shown, day, cutDays>> /\ cursor' \in {cursor, loaded[p]}
          /\ p \in running /\ bronze' = bronze
      BY <2>9 DEF Fail, RunFails, RunCrashes, Leave
    <3>2. cursor' \in 0..LastDay /\ cursor' <= day
      BY <1>1, <3>1 DEF CursorInv, TimeInv, Typed, RunnerOK
    <3>3. Lost' \subseteq Lost
      BY <3>1, NoneLost
    <3>4. \A x \in Lost' : cursor' <= Submitted[x] + 1
      BY <1>1, <3>1, <3>3 DEF CursorInv, TimeInv
    <3> QED BY <2>7, <3>1, <3>2, <3>4
  <2> QED BY <1>9, <2>1, <2>3, <2>4, <2>5, <2>6, <2>8, <2>9 DEF ArxivRun
<1>10. ASSUME NEW o \in OpenAlexRuns, EnrichingStep(o) \/ FailEnriching(o) PROVE Honest'
  <2>1. UNCHANGED <<runnerVars, day, shown, arxivVars, cutDays>>
    BY <1>10 DEF EnrichingStep, StartEnriching, Enrich, FlushWorks, SaveEnriched, FailEnriching
  <2>2. day <= day'
    BY <1>1, <2>1
  <2> QED BY <1>5, <2>1, <2>2
<1> QED BY <1>6, <1>7, <1>8, <1>9, <1>10 DEF Next

\* When arXiv shows papers at most a day late, a paper of a day before the
\* overlap of the saved window is in bronze or rejected, whatever runs overlap,
\* fail, crash and put old cursors back, and however pages shift under them
\* (arxiv_client.py, next_cursor), unless a run that was cut short has gone over
\* its day.
THEOREM WindowHonest == ASSUME ShownLag <= 1 PROVE Spec => []WindowIsHonest
<1>1. Typed /\ Honest => WindowIsHonest
  <2> SUFFICES ASSUME Typed, Honest, NEW x \in shown, Submitted[x] + 1 < cursor, Submitted[x] \notin cutDays
               PROVE  bronze[PaperKey(x)] # NoRow \/ bronze[RejectKey(x)] # NoRow
    BY DEF WindowIsHonest
  <2>1. Submitted[x] \in Nat /\ cursor \in Nat
    BY Ordered, Constants DEF Typed, RunnerOK, WorldOK
  <2>2. x \notin Lost
    BY <2>1 DEF Honest, CursorInv
  <2> QED BY <2>2 DEF Lost, Kept
<1>2. Init => Typed /\ Honest
  BY TypedInit, HonestInit
<1>3. Typed /\ Honest /\ [Next]_vars => (Typed /\ Honest)'
  <2>1. Honest => TimeInv
    BY DEF Honest, CursorInv
  <2> QED BY <2>1, TypedStep, HonestStep
<1> QED BY <1>1, <1>2, <1>3, PTL DEF Spec

====
