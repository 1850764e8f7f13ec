---- MODULE Parts ----
(***************************************************************************)
(* The parts of the system that keep to themselves, each with its own       *)
(* state: a behaviour picks one part and runs it.                           *)
(***************************************************************************)
EXTENDS HttpClient, FiniteSets

CONSTANTS
  Repos, LastDay, Cap, PageSize, FastPages, DefaultLimit, Limits,         \* Discovery
  BatchKeys,                                                              \* GraphqlBatch
  StageB, MaxSearches, MaxRounds, MaxWeek,                                \* DeepDive
  Members, Others, Projects, Work, Tiers, WeightRows, Targets, MaxLearned, \* Scoring
  Ids, SourceOf, Said, ToBeSaid, NameJw(_, _), Scorings, MaxRuns,         \* Matching
  Seen, ToBeSeen, Companies, Pitches, MaxMembers, MaxBuilds,              \* Ventures
  Shown, ShownNames, MaxEdits                                             \* Showcase

ASSUME FindAssumption ==
  /\ Repos \subseteq Nat /\ IsFiniteSet(Repos)
  /\ {LastDay, Cap, PageSize, DefaultLimit} \subseteq Nat \ {0}
  /\ FastPages \in Nat /\ Limits \subseteq Nat

ASSUME BatchAssumption ==
  /\ BatchKeys \in Seq(STRING)
  /\ \A i, j \in DOMAIN BatchKeys : BatchKeys[i] = BatchKeys[j] => i = j

ASSUME DiveAssumption ==
  /\ StageB \in Seq(STRING)
  /\ MaxSearches \in Nat /\ {MaxRounds, MaxWeek} \subseteq Nat \ {0}

\* Shares of a contribution are per cents; a company's id is no repository's.
ASSUME VentureAssumption ==
  /\ IsFiniteSet(Seen \cup ToBeSeen)
  /\ \A f \in Seen \cup ToBeSeen : f[1] = "contribution" => {f[4], f[5]} \subseteq Nat
  /\ \A f, g \in Seen \cup ToBeSeen : f[1] = "like a venture" /\ g[1] = "startup" => f[2] # g[2]
  /\ Companies \in Seq(STRING) /\ Pitches \in Seq(STRING)
  /\ MaxMembers \in Nat \ {0} /\ MaxBuilds \in Nat

ASSUME MatchAssumption == Ids \subseteq Nat \ {0}

ASSUME ShowAssumption == Shown \in Seq(STRING) /\ MaxEdits \in Nat

VARIABLES
  part,
  created, limit, stubs, stack, stage,                                    \* Discovery
  queue, retried, results, missing, retryable, failures, raised, asked,   \* GraphqlBatch
  week, cache, dive, answered,                                            \* DeepDive
  quarter, silver, verdict, weights, row, learned,                        \* Scoring
  facts, personOf, settled, review, runs, taken, doubted,                 \* Matching
  known, rows, gold, built, builds,                                       \* Ventures
  site, bronze, source, person, scrape, er, edits                         \* Showcase

findVars == <<created, limit, stubs, stack, stage>>
gqlVars == <<queue, retried, results, missing, retryable, failures, raised, asked>>
diveVars == <<week, cache, dive, answered>>
scoreVars == <<quarter, silver, verdict, weights, row, learned>>
matchVars == <<facts, personOf, settled, review, runs, taken, doubted>>
ventureVars == <<known, rows, gold, built, builds>>
showVars == <<site, bronze, source, person, scrape, er, edits>>
partVars == <<part, vars, findVars, gqlVars, diveVars, scoreVars, matchVars, ventureVars, showVars>>

----
Find == INSTANCE Discovery
Gql == INSTANCE GraphqlBatch WITH Keys <- BatchKeys
Dive == INSTANCE DeepDive WITH Categories <- StageB
Score == INSTANCE Scoring WITH Found <- Work
Match == INSTANCE Matching WITH Known <- Said, Observable <- ToBeSaid
Venture == INSTANCE Ventures WITH silver <- known, Known <- Seen, Observable <- ToBeSeen
Show == INSTANCE Showcase WITH Projects <- Shown, Names <- ShownNames

\* What is known at first the normalisers can say.
ASSUME FactAssumption == \A f \in Said : Match!Observed(f)

\* Shares and tiers are per cents; an ideal names features with a scale.
ASSUME ScoreAssumption ==
  /\ IsFiniteSet(Members) /\ IsFiniteSet(Others) /\ IsFiniteSet(Projects) /\ IsFiniteSet(Work)
  /\ \A c \in Work : c.project \in Projects /\ c.share \in Nat /\ c.commits \in Nat /\ c.at \in Int
  /\ Tiers \subseteq 0..100
  /\ WeightRows \subseteq [Score!Categories -> Nat]
  /\ DOMAIN Targets \subseteq {"school_tier", "stars_weighted", "recency_score"}
  /\ \A k \in DOMAIN Targets : Targets[k] \in Nat \ {0}

----
Parts == {"http", "discovery", "graphql", "dive", "scoring", "matching", "ventures", "showcase"}

PartsInit ==
  /\ part \in Parts
  /\ Init /\ Find!Init /\ Gql!Init /\ Dive!Init /\ Score!Init /\ Match!Init /\ Venture!Init /\ Show!Init
  /\ part # "discovery" => limit = 0 /\ \A r \in DOMAIN created : created[r] = 0
  /\ part # "scoring" => weights = (CHOOSE w \in WeightRows : TRUE) /\ silver.team = {}

\* A step of the part named, which leaves the others alone.
Only(name) ==
  /\ part = name /\ part' = part
  /\ name # "http" => UNCHANGED vars
  /\ name # "discovery" => UNCHANGED findVars
  /\ name # "graphql" => UNCHANGED gqlVars
  /\ name # "dive" => UNCHANGED diveVars
  /\ name # "scoring" => UNCHANGED scoreVars
  /\ name # "matching" => UNCHANGED matchVars
  /\ name # "ventures" => UNCHANGED ventureVars
  /\ name # "showcase" => UNCHANGED showVars

PartsNext ==
  \/ Only("http") /\ Next
  \/ Only("discovery") /\ Find!Next
  \/ Only("graphql") /\ Gql!Next
  \/ Only("dive") /\ Dive!Next
  \/ Only("scoring") /\ Score!Next
  \/ Only("matching") /\ Match!Next
  \/ Only("ventures") /\ Venture!Next
  \/ Only("showcase") /\ Show!Next

Reads == Only("showcase") /\ Show!ErReads
WritesPerson == Only("showcase") /\ Show!ErPerson
WritesSource == Only("showcase") /\ Show!ErSource

\* The fairness of Showcase!Nightly.
PartsSpec ==
  PartsInit /\ [][PartsNext]_partVars
    /\ WF_partVars(Reads) /\ WF_partVars(WritesPerson) /\ WF_partVars(WritesSource)

----
(* Properties: those of the parts, under their own names.  A part at rest is *)
(* in its initial state.                                                     *)

\* The state of each part is as its module says.
PartsTypeOK ==
  /\ TypeOK /\ Find!TypeOK /\ Gql!TypeOK /\ Dive!TypeOK /\ Score!TypeOK
  /\ Match!TypeOK /\ Venture!TypeOK /\ Show!TypeOK

\* Of Discovery: bisection finds the most starred of the window.
TopIsFound == part = "discovery" => Find!TopIsFound

\* Of GraphqlBatch: halving and asking again lose no key and count none twice.
EveryKeyHasAnAnswer == part = "graphql" => Gql!EveryKeyHasAnAnswer

\* Of DeepDive, as scoring/deepdive.py:3-6 has it: the searches made for a
\* venture are at most MAX_SEARCHES_PER_VENTURE.
SearchesAreCapped == part = "dive" => Dive!SearchesAreCapped

\* Of DeepDive: what the code keeps of that; the categories share one budget, but
\* for what a category that ran out half-way has searched.
BudgetHolds == part = "dive" => Dive!BudgetHolds

\* Of DeepDive: a verdict is paid for once a week.
WeekIsBoughtOnce == part = "dive" => Dive!WeekIsBoughtOnce

\* Of Scoring: what is not available takes no part in the final score.
FinalIsWithin == part = "scoring" => Score!FinalIsWithin

\* Of Scoring: worse figures, other than gaps, never lower the confidence in a
\* score.
OnlyGapsLowerConfidence == Score!OnlyGapsLowerConfidence

\* Of Scoring: more stars never take a team further from the ideal, more
\* citations never lower the score of their author.
BetterNeverWorse == Score!BetterNeverWorse

\* Of Matching: nobody is joined for a name and an employer alone.
NameAloneNeverJoins == part = "matching" => Match!NameAloneNeverJoins

\* Of Matching: what a run doubts and leaves apart is asked of a human.
DoubtIsReviewed == part = "matching" => Match!DoubtIsReviewed

\* Of Ventures: a pitch leaves the rows of a repository's own members alone.
PitchKeepsRepoRows == Venture!PitchKeepsRepoRows

\* Of Ventures: a startup somebody signs for is part of every build.
NoStartupIsLost == part = "ventures" => Venture!NoStartupIsLost

\* Of Showcase: the golden person comes to show all that was fetched.
PersonCatchesUp == Show!PersonCatchesUp

====
