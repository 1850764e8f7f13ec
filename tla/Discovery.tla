---- MODULE Discovery ----
(***************************************************************************)
(* How a GitHub run finds its repositories (scrapers/github/discovery.py):  *)
(* the search shows at most Cap hits of a window of creation days, most     *)
(* starred first, so that a window with more is bisected.  A repository is  *)
(* its rank by stars.                                                       *)
(***************************************************************************)
EXTENDS Integers, Sequences, FiniteSets

CONSTANTS
  Repos,         \* repositories, 1 the most starred
  LastDay,       \* the days of the run's window are 1..LastDay
  Cap,           \* MAX_SEARCH_RESULTS
  PageSize,      \* PAGE_SIZE
  FastPages,     \* FAST_PATH_PAGES
  DefaultLimit,  \* DEFAULT_LIMIT
  Limits         \* values of --limit, 0 for none

VARIABLES
  created,   \* the day of each repository, 0 when outside of the window
  limit,
  stubs,     \* what the pages have brought
  stack,     \* windows to look at, the next one last
  stage      \* "fast", "bisect" or "done"

vars == <<created, limit, stubs, stack, stage>>

Whole == [start |-> 1, end |-> LastDay]

Init ==
  /\ created \in [Repos -> 0..LastDay]
  /\ limit \in Limits
  /\ stubs = {} /\ stack = <<>> /\ stage = "fast"

\* The hits of a search, and the total it reports.
Hits(w) == {r \in Repos : created[r] \in w.start..w.end}
SearchTotal(w) == Cardinality(Hits(w))

Lower(a, b) == IF a < b THEN a ELSE b

\* A page of a search, most starred first.
SearchPage(w, page) ==
  {r \in Hits(w) : LET before == Cardinality({q \in Hits(w) : q < r})
                   IN  before < Cap /\ before \div PageSize = page - 1}

\* The stubs on the first pages; after a page cut short there are none.
Paginate(w, pages) == UNION {SearchPage(w, page) : page \in 1..pages}

EffectiveLimit == IF limit = 0 THEN DefaultLimit ELSE limit

\* The fast path, and the probe that says whether to go on.
FastPath ==
  /\ stage = "fast"
  /\ stubs' = Paginate(Whole, FastPages)
  /\ IF SearchTotal(Whole) > Cap /\ EffectiveLimit > Cardinality(stubs')
     THEN stack' = <<Whole>> /\ stage' = "bisect"
     ELSE stack' = <<>> /\ stage' = "done"
  /\ UNCHANGED <<created, limit>>

Top == stack[Len(stack)]
Below == SubSeq(stack, 1, Len(stack) - 1)
Middle == Top.start + (Top.end - Top.start) \div 2
TooMany == SearchTotal(Top) >= Cap

Bisect ==
  /\ stage = "bisect" /\ stack # <<>>
  /\ TooMany /\ Top.start < Top.end
  /\ stack' = Below \o <<[start |-> Middle + 1, end |-> Top.end],
                         [start |-> Top.start, end |-> Middle]>>
  /\ UNCHANGED <<created, limit, stubs, stage>>

\* Mutant: a last page that is not full is not counted.
FullPages(total) == Lower(total, Cap) \div PageSize

Pages(total) == -((-Lower(total, Cap)) \div PageSize)

\* A window of fewer hits, or of a single day, which may be truncated.
Slice ==
  /\ stage = "bisect" /\ stack # <<>>
  /\ ~(TooMany /\ Top.start < Top.end)
  /\ stubs' = stubs \cup Paginate(Top, Pages(SearchTotal(Top)))
  /\ stack' = Below
  /\ UNCHANGED <<created, limit, stage>>

BisectEnds ==
  /\ stage = "bisect" /\ stack = <<>>
  /\ stage' = "done"
  /\ UNCHANGED <<created, limit, stubs, stack>>

Next == FastPath \/ Bisect \/ Slice \/ BisectEnds

Spec == Init /\ [][Next]_vars

\* The stubs ranked and cut to the limit.
Found == {r \in stubs : Cardinality({q \in stubs : q < r}) < EffectiveLimit}

----
(* Properties *)

TypeOK ==
  /\ created \in [Repos -> 0..LastDay] /\ limit \in Limits
  /\ stubs \subseteq Repos /\ stage \in {"fast", "bisect", "done"}
  /\ \A i \in DOMAIN stack : 1 <= stack[i].start /\ stack[i].start <= stack[i].end
                             /\ stack[i].end <= LastDay

Truncated(r) == SearchTotal([start |-> created[r], end |-> created[r]]) > Cap

\* Discovery comes back with the most starred of the window, however they are
\* spread over its days: a repository it leaves out has fewer stars than all of
\* a full result, or a day of more hits than a search shows.  (A window of at
\* most Cap hits is not bisected, so that a limit above the fast path is not
\* filled there.)
TopIsFound ==
  stage = "done" /\ (EffectiveLimit <= FastPages * PageSize \/ SearchTotal(Whole) > Cap) =>
    \A r \in Hits(Whole) \ Found :
      \/ Truncated(r)
      \/ Cardinality(Found) = EffectiveLimit /\ \A q \in Found : q < r

====
