---- MODULE DeepDive ----
(***************************************************************************)
(* The Stage-B deep dive of one venture (scoring/deepdive.py): four        *)
(* categories one after the other, each a loop of Messages requests in     *)
(* which the server searches the web, with one budget of searches for the  *)
(* venture and a cache of verdicts by category and ISO week.               *)
(***************************************************************************)
EXTENDS Naturals, Sequences

CONSTANTS
  Categories,   \* STAGE_B_CATEGORIES
  MaxSearches,  \* MAX_SEARCHES_PER_VENTURE
  MaxRounds,    \* MAX_LOOP_ROUNDS
  MaxWeek       \* bound on the clock

VARIABLES
  week,       \* the ISO week of the clock
  cache,      \* the (category, week) that have a verdict
  dive,       \* score_venture under way, or Idle
  answered    \* history: verdicts given to (category, week) by the web

vars == <<week, cache, dive, answered>>

Idle == [on |-> FALSE]
Weeks == 1..MaxWeek
Kinds == {Categories[i] : i \in DOMAIN Categories}

\* `used' counts what is charged to the venture, `searches' and `rounds' belong
\* to the category at hand; `bought' and `wasted' are history: all searches made,
\* and the categories that ran out after they had made some.
Begin == [on |-> TRUE, week |-> week, at |-> 1, used |-> 0, searches |-> 0,
          rounds |-> 0, bought |-> 0, wasted |-> 0]

Init ==
  /\ week = 1 /\ cache = {} /\ dive = Idle
  /\ answered = [k \in Kinds \X Weeks |-> 0]

NextWeek ==
  /\ week < MaxWeek
  /\ week' = week + 1
  /\ UNCHANGED <<cache, dive, answered>>

Start ==
  /\ ~dive.on
  /\ dive' = Begin
  /\ UNCHANGED <<week, cache, answered>>

Category == Categories[dive.at]
Working == dive.on /\ dive.at <= Len(Categories)
Turn(used) == [dive EXCEPT !.at = @ + 1, !.used = used, !.searches = 0, !.rounds = 0]

\* Mutant: the key is made when the verdict is stored.
KeyOfNow == <<Category, week>>

\* The week is taken once, when the dive starts.
Key == <<Category, dive.week>>

Cached ==
  /\ Working
  /\ dive.rounds = 0 /\ Key \in cache
  /\ dive' = Turn(dive.used)
  /\ UNCHANGED <<week, cache, answered>>

Remaining == MaxSearches - (dive.used + dive.searches)
Exhausted == dive.used + dive.searches >= MaxSearches
Asking == Working /\ (dive.rounds > 0 \/ Key \notin cache)

\* Mutant: what the categories before have used is forgotten.
OwnSearches(n) == dive.searches + n

Charged(n) == dive.used + dive.searches + n

\* The server pauses its turn and is to be asked again.
Pause(n) ==
  /\ Asking /\ ~Exhausted
  /\ n <= Remaining
  /\ dive.rounds + 1 < MaxRounds
  /\ dive' = [dive EXCEPT !.searches = @ + n, !.rounds = @ + 1, !.bought = @ + n]
  /\ UNCHANGED <<week, cache, answered>>

\* It ends its turn, or pauses in the last round: what there is then is the
\* verdict, parsed or not, charged, logged and cached for the week.
Verdict(n) ==
  /\ Asking /\ ~Exhausted
  /\ n <= Remaining
  /\ dive' = [Turn(Charged(n)) EXCEPT !.bought = @ + n]
  /\ cache' = cache \cup {Key}
  /\ answered' = [answered EXCEPT ![<<Category, dive.week>>] = @ + 1]
  /\ UNCHANGED week

\* SearchBudgetExceededError: the category is N/A, neither cached nor logged,
\* and what it has searched so far is not charged.
RunsOut ==
  /\ Asking /\ Exhausted
  /\ dive' = [Turn(dive.used) EXCEPT !.wasted = IF dive.searches > 0 THEN @ + 1 ELSE @]
  /\ UNCHANGED <<week, cache, answered>>

\* The transport fails and the exception leaves the dive; the cache stays.
Fails ==
  /\ Asking /\ ~Exhausted
  /\ dive' = Idle
  /\ UNCHANGED <<week, cache, answered>>

Finish ==
  /\ dive.on /\ dive.at > Len(Categories)
  /\ dive' = Idle
  /\ UNCHANGED <<week, cache, answered>>

Next ==
  \/ NextWeek \/ Start \/ Cached
  \/ \E n \in 0..MaxSearches : Pause(n) \/ Verdict(n)
  \/ RunsOut \/ Fails \/ Finish

Spec == Init /\ [][Next]_vars

----
(* Properties *)

TypeOK ==
  /\ week \in Weeks
  /\ cache \subseteq Kinds \X Weeks
  /\ answered \in [Kinds \X Weeks -> Nat]
  /\ dive.on => /\ dive.week \in Weeks /\ dive.at \in 1..(Len(Categories) + 1)
                /\ dive.rounds \in 0..(MaxRounds - 1)
                /\ dive.used + dive.searches <= MaxSearches

\* The docstring: every search counts against the limit of the venture.  The
\* code does not keep it: see RunsOut.
SearchesAreCapped == dive.on => dive.bought <= MaxSearches

\* What it does keep: the categories share the budget but for those that ran
\* out half-way, and none of these has searched more than a budget.
BudgetHolds == dive.on => dive.bought <= MaxSearches * (1 + dive.wasted)

\* A verdict is paid for once a week, over dives that fail, are repeated and
\* run past the end of a week.
WeekIsBoughtOnce == \A k \in DOMAIN answered : answered[k] <= 1

====
