---- MODULE PapersScrape ----
(***************************************************************************)
(* The papers scrapers on top of the shared runner: arXiv, which walks its *)
(* categories over a window of days, and OpenAlex, which works off the     *)
(* queue of the papers arXiv has brought in (scrapers/papers).             *)
(*                                                                         *)
(* arXiv and OpenAlex are the environment.  Papers are numbers, so that a  *)
(* page has an order; arXiv shows a paper some days after it carries.  A   *)
(* row of bronze is the day of its ingestion.                              *)
(***************************************************************************)
EXTENDS Runner, FiniteSets, Sequences

CONSTANTS
  Papers,       \* the papers there will ever be, numbers
  Submitted,    \* the day each carries
  Lists,        \* the categories each is listed under
  Categories,   \* CATEGORIES, in order
  Malformed,    \* papers that fail validation
  Revisable,    \* papers arXiv may have another version of
  Answers,      \* what OpenAlex may say of each when it is asked
  WindowDays,   \* DEFAULT_WINDOW_DAYS of a rolling --since
  LastDay,      \* bound: days 1..LastDay
  ShownLag,     \* arXiv shows a paper at most this many days late
  PageSize,     \* PAGE_SIZE
  SliceDays,    \* WINDOW_SLICE_DAYS
  Limits,       \* values of --limit, 0 for none
  QueueLimit,   \* papers one run of OpenAlex takes from the queue
  MaxRuns,      \* bound: runs over arXiv
  MaxFailures   \* bound: runs that fail

\* A work with the paper's arXiv id, one with a journal DOI and no arXiv
\* location, one that fails validation, none.
AnswerKinds == {"linked", "unlinked", "rejected", "miss"}

\* Every paper is found under one of the categories.
ASSUME PapersAssumption ==
  /\ Papers \subseteq Nat
  /\ Submitted \in [Papers -> 1..LastDay]
  /\ Categories \in Seq(STRING) /\ Categories # <<>>
  /\ \A x \in Papers : \E i \in DOMAIN Categories : Categories[i] \in Lists[x]
  /\ Malformed \subseteq Papers /\ Revisable \subseteq Papers
  /\ Answers \in [Papers -> (SUBSET AnswerKinds) \ {{}}]
  /\ {ShownLag, MaxRuns, MaxFailures} \subseteq Nat
  /\ {WindowDays, LastDay, PageSize, SliceDays, QueueLimit} \subseteq Nat \ {0}
  /\ Limits \subseteq Nat

Days == 1..LastDay

VARIABLES
  day,          \* today
  shown,        \* papers the arXiv API returns
  started,      \* runs over arXiv so far
  failures,     \* runs that failed
  \* per arXiv run, the memory of ArxivScraper
  windowStart,  \* _start_date of the cursor
  windowEnd,    \* _window_end
  limit,        \* --limit of this run
  seen,         \* _seen
  place,        \* the page to ask for next: category, first day, offset
  \* history variables
  cut,          \* per run, whether it left pages out
  cutDays,      \* the days that saved windows have left out
  \* OpenAlex: its tables and its run
  works,        \* bronze.openalex_works_raw and the rejects of OpenAlex
  lastRun,      \* its cursor
  enriching,    \* its runs under way
  lastLoaded,   \* the cursor each started from
  found,        \* their buffers
  queue         \* papers still to look up

arxivVars == <<windowStart, windowEnd, limit, seen, place, cut>>
openalexVars == <<works, lastRun, enriching, lastLoaded, found, queue>>
vars == <<runnerVars, day, shown, started, failures, arxivVars, cutDays, openalexVars>>

PaperKey(x) == <<"paper", x>>
RejectKey(x) == <<"reject", x>>
WorkKey(x) == <<"work", x>>
BadWorkKey(x) == <<"bad work", x>>
WorkKeys == {WorkKey(x) : x \in Papers}
OpenAlexKeys == WorkKeys \cup {BadWorkKey(x) : x \in Papers}

ASSUME PaperKeysAssumption ==
  /\ \A x \in Papers : PaperKey(x) \in Keys /\ RejectKey(x) \in Keys
  /\ NoRow \notin Days /\ NoRow \notin AnswerKinds
  /\ NoCursor = 0

OpenAlexRuns == {"openalex"}
OpenAlexTables == {"works", "rejects"}

OpenAlex == INSTANCE Runner WITH
  Runs <- OpenAlexRuns, Tables <- OpenAlexTables, Keys <- OpenAlexKeys,
  TableOf <- [k \in OpenAlexKeys |-> IF k \in WorkKeys THEN "works" ELSE "rejects"],
  bronze <- works, cursor <- lastRun, running <- enriching, loaded <- lastLoaded, buffer <- found

Done == [category |-> 0, first |-> 0, offset |-> 0]

Init ==
  /\ RunnerInit
  /\ day = 1
  /\ shown = {}
  /\ started = 0
  /\ failures = 0
  /\ windowStart = [p \in Runs |-> 0]
  /\ windowEnd = [p \in Runs |-> 0]
  /\ limit = [p \in Runs |-> 0]
  /\ seen = [p \in Runs |-> {}]
  /\ place = [p \in Runs |-> Done]
  /\ cut = [p \in Runs |-> FALSE]
  /\ cutDays = {}
  /\ OpenAlex!RunnerInit
  /\ queue = {}

----
(* arXiv *)

NextDay ==
  /\ day < LastDay
  /\ day' = day + 1
  /\ UNCHANGED <<runnerVars, shown, started, failures, arxivVars, cutDays, openalexVars>>

Show(x) ==
  /\ x \notin shown
  /\ Submitted[x] <= day
  /\ day <= Submitted[x] + ShownLag
  /\ shown' = shown \cup {x}
  /\ UNCHANGED <<runnerVars, day, started, failures, arxivVars, cutDays, openalexVars>>

----
(* A run over arXiv. *)

\* --since, by default some days ago.
Since == IF WindowDays < day THEN day - WindowDays ELSE 0

\* Mutant: the next window starts the day after the last one ended.
WindowAfter(end) == end + 1

\* The window starts WINDOW_OVERLAP_DAYS before the end of the last one, the
\* first at --since.
StartOfWindow(end) == IF end = NoCursor THEN Since ELSE end - 1

Begin(p, lim) ==
  /\ started < MaxRuns
  /\ started' = started + 1
  /\ Load(p)
  /\ windowStart' = [windowStart EXCEPT ![p] = StartOfWindow(cursor)]
  /\ windowEnd' = [windowEnd EXCEPT ![p] = day]
  /\ limit' = [limit EXCEPT ![p] = lim]
  /\ seen' = [seen EXCEPT ![p] = {}]
  /\ place' = [place EXCEPT ![p] =
       [category |-> 1, first |-> StartOfWindow(cursor), offset |-> 0]]
  /\ cut' = [cut EXCEPT ![p] = FALSE]
  /\ UNCHANGED <<day, shown, failures, cutDays, openalexVars>>

LimitReached(p) == 0 < limit[p] /\ limit[p] <= Cardinality(seen[p])

\* The last day of the slice that begins with a day.
SliceEnd(p, first) ==
  IF first + SliceDays - 1 < windowEnd[p] THEN first + SliceDays - 1 ELSE windowEnd[p]

\* What the query for the next page of a run is about.
Results(p) ==
  {x \in shown : /\ Categories[place[p].category] \in Lists[x]
                 /\ Submitted[x] \in place[p].first..SliceEnd(p, place[p].first)}

\* Results come in ascending order: the number of those ahead of a paper, and
\* the page that begins at an offset.
Before(x, y) ==
  \/ Submitted[x] < Submitted[y]
  \/ Submitted[x] = Submitted[y] /\ x < y
Rank(x, results) == Cardinality({y \in results : Before(y, x)})
PageOf(results, offset) == {x \in results : Rank(x, results) \in offset..(offset + PageSize - 1)}

\* The slice after this one, then the next category.  (As the body of NextPlace,
\* the mutant that takes the first page for all there is.)
NextSlice(p, entries, total) ==
  LET after == SliceEnd(p, place[p].first) + 1
  IN  IF after <= windowEnd[p] THEN [place[p] EXCEPT !.first = after, !.offset = 0]
      ELSE IF place[p].category < Len(Categories)
      THEN [category |-> place[p].category + 1, first |-> windowStart[p], offset |-> 0]
      ELSE Done

\* The page after a page with some entries of a total.
NextPlace(p, entries, total) ==
  IF Cardinality(entries) < PageSize \/ place[p].offset + PageSize >= total
  THEN NextSlice(p, entries, total)
  ELSE [place[p] EXCEPT !.offset = @ + PageSize]

RowKey(x) == IF x \in Malformed THEN RejectKey(x) ELSE PaperKey(x)

\* A row whose content is what bronze has is skipped by the merge: it keeps its
\* day unless the paper was revised.
PaperRows(fresh, revised) ==
  [k \in Keys |-> IF \E x \in fresh : k = RowKey(x) /\ (x \in revised \/ bronze[k] = NoRow) THEN day
                 ELSE IF \E x \in fresh : k = RowKey(x) THEN bronze[k] ELSE NoRow]

TakePage(p, entries, total) ==
  /\ place[p] # Done
  /\ ~LimitReached(p)
  /\ \E revised \in SUBSET (entries \cap Revisable) : Yield(p, PaperRows(entries \ seen[p], revised))
  /\ seen' = [seen EXCEPT ![p] = @ \cup entries]
  /\ place' = [place EXCEPT ![p] = NextPlace(p, entries, total)]
  /\ UNCHANGED <<day, shown, started, failures, windowStart, windowEnd, limit, cutDays, openalexVars>>

Page(p) ==
  /\ p \in running
  /\ place[p] # Done
  /\ TakePage(p, PageOf(Results(p), place[p].offset), Cardinality(Results(p)))
  /\ UNCHANGED cut

\* An empty page with results outstanding, and again when it is asked for a
\* second time.
EmptyPage(p) ==
  /\ p \in running
  /\ place[p] # Done
  /\ place[p].offset < Cardinality(Results(p))
  /\ TakePage(p, {}, Cardinality(Results(p)))
  /\ cut' = [cut EXCEPT ![p] = TRUE]

StopAtLimit(p) ==
  /\ p \in running
  /\ place[p] # Done
  /\ LimitReached(p)
  /\ place' = [place EXCEPT ![p] = Done]
  /\ cut' = [cut EXCEPT ![p] = TRUE]
  /\ UNCHANGED <<runnerVars, day, shown, started, failures, windowStart, windowEnd, limit, seen, cutDays,
                 openalexVars>>

FlushTable(p, t) ==
  /\ Flush(p, t)
  /\ UNCHANGED <<day, shown, started, failures, arxivVars, cutDays, openalexVars>>

Forget(p) ==
  /\ windowStart' = [windowStart EXCEPT ![p] = 0]
  /\ windowEnd' = [windowEnd EXCEPT ![p] = 0]
  /\ limit' = [limit EXCEPT ![p] = 0]
  /\ seen' = [seen EXCEPT ![p] = {}]
  /\ place' = [place EXCEPT ![p] = Done]
  /\ cut' = [cut EXCEPT ![p] = FALSE]

\* History: the days of a window that was cut short, and those before a first
\* window.
LeftOut(p) ==
  {d \in 0..LastDay : \/ (cut[p] /\ windowStart[p] <= d /\ d <= windowEnd[p])
                     \/ (loaded[p] = NoCursor /\ d < windowStart[p])}

SaveCursor(p) ==
  /\ place[p] = Done
  /\ Save(p, windowEnd[p])
  /\ cutDays' = cutDays \cup LeftOut(p)
  /\ Forget(p)
  /\ UNCHANGED <<day, shown, started, failures, openalexVars>>

Fail(p) ==
  /\ failures < MaxFailures
  /\ failures' = failures + 1
  /\ RunFails(p) \/ RunCrashes(p)
  /\ Forget(p)
  /\ UNCHANGED <<day, shown, started, cutDays, openalexVars>>

----
(* A run over OpenAlex. *)

Stored(x) == bronze[PaperKey(x)] # NoRow

\* Mutant: the bound of the window is left out of it.
PendingAfter == {x \in Papers : Stored(x) /\ Since < bronze[PaperKey(x)] /\ works[WorkKey(x)] # "linked"}

TooOld(x) == Stored(x) /\ bronze[PaperKey(x)] < Since

\* arXiv bronze since --since, anti-joined with OpenAlex bronze on the arXiv id.
Pending == {x \in Papers : Stored(x) /\ ~TooOld(x) /\ works[WorkKey(x)] # "linked"}

\* The queue is a LIMIT without an order: `some' of those pending.
StartEnriching(o, some) ==
  /\ some # {}
  /\ Cardinality(some) <= QueueLimit
  /\ some = Pending \/ Cardinality(some) = QueueLimit
  /\ OpenAlex!Load(o)
  /\ queue' = some
  /\ UNCHANGED <<runnerVars, day, shown, started, failures, arxivVars, cutDays>>

\* What comes of one paper, from the batch or looked up alone: a work by its
\* id, a reject, or a line of the log.
WorkRows(x, said) ==
  [k \in OpenAlexKeys |->
     IF \/ (k = WorkKey(x) /\ said \in {"linked", "unlinked"})
        \/ (k = BadWorkKey(x) /\ said = "rejected")
     THEN said ELSE NoRow]

Enrich(o, x, said) ==
  /\ x \in queue
  /\ OpenAlex!Yield(o, WorkRows(x, said))
  /\ queue' = queue \ {x}
  /\ UNCHANGED <<runnerVars, day, shown, started, failures, arxivVars, cutDays>>

FlushWorks(o, t) ==
  /\ OpenAlex!Flush(o, t)
  /\ UNCHANGED <<runnerVars, day, shown, started, failures, arxivVars, cutDays, queue>>

\* Its cursor is the time of the run, which nothing reads back.
SaveEnriched(o) ==
  /\ queue = {}
  /\ OpenAlex!Save(o, NoCursor)
  /\ UNCHANGED <<runnerVars, day, shown, started, failures, arxivVars, cutDays, queue>>

FailEnriching(o) ==
  /\ failures < MaxFailures
  /\ failures' = failures + 1
  /\ OpenAlex!RunFails(o) \/ OpenAlex!RunCrashes(o)
  /\ queue' = {}
  /\ UNCHANGED <<runnerVars, day, shown, started, arxivVars, cutDays>>

----
ArxivRun(p) ==
  \/ \E lim \in Limits : Begin(p, lim)
  \/ Page(p) \/ EmptyPage(p) \/ StopAtLimit(p)
  \/ \E t \in Tables : FlushTable(p, t)
  \/ SaveCursor(p)
  \/ Fail(p)

EnrichingStep(o) ==
  \/ \E some \in SUBSET Pending : StartEnriching(o, some)
  \/ \E x \in Papers : \E said \in Answers[x] : Enrich(o, x, said)
  \/ \E t \in OpenAlexTables : FlushWorks(o, t)
  \/ SaveEnriched(o)

Next ==
  \/ NextDay
  \/ \E x \in Papers : Show(x)
  \/ \E p \in Runs : ArxivRun(p)
  \/ \E o \in OpenAlexRuns : EnrichingStep(o) \/ FailEnriching(o)

Spec == Init /\ [][Next]_vars

\* OpenAlex is run every day, as long as there is something in its queue, and
\* goes on unless it fails.
FairSpec == Spec /\ \A o \in OpenAlexRuns : WF_vars(EnrichingStep(o))

----
(* Properties *)

Places == [category : 0..Len(Categories), first : 0..LastDay, offset : Nat]

\* The state has its shape, and an arXiv run asks for days of its own window.
TypeOK ==
  /\ bronze \in [Keys -> Days \cup {NoRow}]
  /\ cursor \in 0..LastDay
  /\ running \subseteq Runs
  /\ loaded \in [Runs -> 0..LastDay]
  /\ buffer \in [Runs -> [Keys -> Days \cup {NoRow}]]
  /\ day \in Days
  /\ shown \subseteq Papers
  /\ started \in 0..MaxRuns
  /\ failures \in 0..MaxFailures
  /\ windowStart \in [Runs -> 0..LastDay]
  /\ windowEnd \in [Runs -> 0..LastDay]
  /\ limit \in [Runs -> Limits \cup {0}]
  /\ seen \in [Runs -> SUBSET Papers]
  /\ place \in [Runs -> Places]
  /\ cut \in [Runs -> BOOLEAN]
  /\ cutDays \subseteq 0..LastDay
  /\ works \in [OpenAlexKeys -> AnswerKinds \cup {NoRow}]
  /\ queue \subseteq Papers
  /\ \A p \in running : place[p] = Done \/ place[p].first \in windowStart[p]..windowEnd[p]

\* The window below the overlap is closed (ArxivScraper.next_cursor): every
\* paper of a day before it is in bronze or rejected, although pages shift
\* under a run when papers appear, unless saved windows have left out that day.
WindowIsHonest ==
  \A x \in shown :
    Submitted[x] + 1 < cursor /\ Submitted[x] \notin cutDays =>
      bronze[PaperKey(x)] # NoRow \/ bronze[RejectKey(x)] # NoRow

\* Papers that come back from OpenAlex every day fill the queue.
Crowded(x) == QueueLimit <= Cardinality({y \in Pending \ {x} : Answers[y] # {"linked"}})

\* A paper OpenAlex has a good work of is enriched in the end, in whatever
\* order the queue comes, or leaves the window of --since, where nobody asks
\* for it again; this unless others fill the queue for ever
\* (WarehousePendingWorks.pending).
EnrichedInTheEnd ==
  \A x \in {y \in Papers : Answers[y] = {"linked"}} :
    <>[]~Crowded(x) => (Stored(x) ~> TooOld(x) \/ works[WorkKey(x)] = "linked")

====
