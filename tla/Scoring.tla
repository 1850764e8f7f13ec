---- MODULE Scoring ----
(***************************************************************************)
(* What one venture's score says while silver changes under it, by facts   *)
(* that come, are replaced and go: its team, the features of the persons   *)
(* (scoring/features.py), the category scorers                             *)
(* (scoring/categories/) and the row they make (scoring/stage_a.py).  A    *)
(* score has tenths of a point, 0..1000; a feature is a percentage of its  *)
(* scale; time is in quarters of a year.                                   *)
(***************************************************************************)
EXTENDS FiniteSetsExt

CONSTANTS
  Members,    \* who may be one of the venture
  Others,     \* everybody else the percentiles are taken over
  Projects,
  Found,      \* contributions [project, share, commits, at] that may be found
  Tiers,      \* school tiers that may be found
  WeightRows, \* gold.score_weights, by category
  Targets,    \* numeric_features of the ideal profile, by feature
  MaxLearned  \* bound on what happens

VARIABLES
  quarter,
  silver,     \* what is known: see Nothing
  verdict,    \* of the agents' category: [score, kinds of its sources]
  weights,    \* the VC's row
  row,        \* features, scores of persons and categories, final, confidence
  learned     \* number of things that happened

vars == <<quarter, silver, verdict, weights, row, learned>>

Unknown == -1
Known(x) == x # Unknown
People == Members \cup Others
Categories == {"individual_experience", "schools", "prior_collaboration",
               "ideal_match", "agents"}

\* the members, and of each: contributions, dates of papers and filings, citations
\* of the publications, a founder role or headline, the tier of the affiliation;
\* the stars of the projects (in hundreds)
Nothing(team) ==
           [team |-> team,
            work |-> [p \in People |-> {}],
            dates |-> [p \in People |-> {}],
            stars |-> [j \in Projects |-> 0],
            citations |-> [p \in People |-> IF p \in Others THEN 1 ELSE Unknown],
            founder |-> [p \in People |-> FALSE],
            school |-> [p \in People |-> Unknown]]

----
(* Features of a person; one that is Unknown is not in the cell. *)

Mean(of) == SumFunction(of) \div Cardinality(DOMAIN of)
Rounded(a, b) == (2 * a + b) \div (2 * b)

\* log1p, as a percentage of STARS_WEIGHTED_SCALE
Log1p(n) == 7 * Max({k \in 0..12 : 2 ^ k <= n + 1})

StarsWeighted(s, p) ==
  IF s.work[p] = {} THEN Unknown
  ELSE Log1p(SumFunction([c \in s.work[p] |-> c.share * s.stars[c.project]]))

Window == 4
Commits12mo(s, p, now) ==
  LET recent == {c \in s.work[p] : c.at >= now - Window}
  IN  IF recent = {} THEN Unknown ELSE SumFunction([c \in recent |-> c.commits])

\* More than 500 stars and at least half of the work; nothing means unknown.
ZeroToOne(s, p) ==
  IF s.founder[p] \/ \E c \in s.work[p] : s.stars[c.project] > 5 /\ c.share >= 50
  THEN 100 ELSE Unknown

\* Halved every quarter since the last commit, paper or filing.
Recency(s, p, now) ==
  LET dated == {c.at : c \in s.work[p]} \cup s.dates[p]
  IN  IF dated = {} THEN Unknown ELSE 100 \div 2 ^ (now - Max(dated))

\* Of the affiliation, when the institution is known.
SchoolTier(s, p) == s.school[p]

\* Of all publications, when there are any.
CitationsTotal(s, p) == s.citations[p]

Features(s, now) == [p \in People |->
  [stars_weighted |-> StarsWeighted(s, p), commits_12mo |-> Commits12mo(s, p, now),
   zero_to_one_flag |-> ZeroToOne(s, p), school_tier |-> SchoolTier(s, p),
   recency_score |-> Recency(s, p, now), citations_total |-> CitationsTotal(s, p)]]

----
(* Category scorers; `f' are the features *)

Percentile(f, p, k) ==
  LET observed == {q \in People : Known(f[q][k])}
  IN  (1000 * Cardinality({q \in observed : f[q][k] <= f[p][k]})) \div Cardinality(observed)

Github(f, p) ==
  LET parts == {k \in {"stars_weighted", "commits_12mo"} : Known(f[p][k])}
  IN  IF parts = {} THEN Unknown ELSE Mean([k \in parts |-> Percentile(f, p, k)])

\* EXPERIENCE_SUBWEIGHTS; nothing produces top_co_flag, and the answers of the
\* model (quality of commits, fit) are left out.
Subweight == [github |-> 30, zero_to_one |-> 20, papers |-> 15]
PersonScore(f, p) ==
  LET sub == [github |-> Github(f, p),
              zero_to_one |-> 10 * f[p].zero_to_one_flag,
              papers |-> IF Known(f[p].citations_total)
                         THEN Percentile(f, p, "citations_total") ELSE Unknown]
      known == {k \in DOMAIN sub : sub[k] >= 0}
  IN  IF known = {} THEN Unknown
      ELSE SumFunction([k \in known |-> Subweight[k] * sub[k]])
             \div SumFunction([k \in known |-> Subweight[k]])

\* Of the members that have one: the mean and the best, mixed.
Mixed(of, ofBest) ==
  LET scored == {p \in DOMAIN of : Known(of[p])}
  IN  IF scored = {} THEN Unknown
      ELSE Rounded(ofBest * Max({of[p] : p \in scored})
                     + (10 - ofBest) * Mean([p \in scored |-> of[p]]), 10)

\* Projects that two members share.
Contexts(s) ==
  Cardinality({j \in Projects :
    Cardinality({p \in s.team : \E c \in s.work[p] : c.project = j}) >= 2})

\* Over all dates of the members, shared or not.
Span(s) ==
  LET dates == UNION {{c.at : c \in s.work[p]} : p \in s.team}
  IN  IF dates = {} THEN 0 ELSE Max(dates) - Min(dates)

PriorCollaboration(s) ==
  IF Cardinality(s.team) < 2 THEN Unknown
  ELSE IF Contexts(s) >= 2 \/ Span(s) >= 8 THEN 900
  ELSE IF Contexts(s) = 1 THEN 650 ELSE 300

\* Mutant: the distance from the target instead of the way towards it.
Distance(k, value) ==
  Max({0, 1000 - (Max({value - Targets[k], Targets[k] - value}) * 1000) \div Targets[k]})

Closeness(k, value) == Min({1000, (Min({100, value}) * 1000) \div Targets[k]})

PersonMatch(f, p) ==
  LET known == {k \in DOMAIN Targets : Known(f[p][k])}
  IN  IF known = {} THEN Unknown ELSE Mean([k \in known |-> Closeness(k, f[p][k])])

IdealMatch(f, team) == Mixed([p \in team |-> PersonMatch(f, p)], 4)

\* The best school says most.
Schools(f, team) ==
  Mixed([p \in team |-> IF Known(f[p].school_tier) THEN 10 * f[p].school_tier
                           ELSE Unknown], 7)

\* `persons' are the scores of the persons
Scores(s, f, persons, agents) ==
  [individual_experience |-> Mixed(persons, 4), schools |-> Schools(f, s.team),
   prior_collaboration |-> PriorCollaboration(s), ideal_match |-> IdealMatch(f, s.team),
   agents |-> agents.score]

----
(* The row *)

Scored(score) == {c \in Categories : Known(score[c])}

\* Mutant: what is not available keeps its weight, as a silent zero.
AllWeights(score) == SumFunction(weights)

\* renormalized_weights: those of the categories that have a score.
AvailableWeight(score) == SumFunction([c \in Scored(score) |-> weights[c]])

Final(score) ==
  LET available == AvailableWeight(score)
  IN  IF available = 0 THEN 0
      ELSE Rounded(SumFunction([c \in Scored(score) |-> weights[c] * score[c]]), available)

Required == [individual_experience |-> {"stars_weighted", "commits_12mo", "zero_to_one_flag"},
             schools |-> {"school_tier"},
             ideal_match |-> {"school_tier", "stars_weighted", "recency_score"}]

\* Filled over required, over all members; full where nothing is required.
Coverage(f, c, team) ==
  IF c \notin DOMAIN Required \/ team = {} THEN 100
  ELSE LET filled == [p \in team |-> Cardinality({k \in Required[c] : Known(f[p][k])})]
       IN  (100 * SumFunction(filled)) \div (Cardinality(team) * Cardinality(Required[c]))

\* Two kinds of sources, one, or none; the scorers over features cite one.
Diversity(c, agents) ==
  IF c # "agents" \/ agents.kinds = 1 THEN 8 ELSE IF agents.kinds = 0 THEN 5 ELSE 10

\* Mutant: relative to the categories with a verdict.
OfScored(score) == AvailableWeight(score)

OfAll(score) == SumFunction(weights)

\* run_confidence, in per cent
Confidence(f, score, agents, team) ==
  LET part == [c \in Scored(score) |-> weights[c] * (Coverage(f, c, team) * Diversity(c, agents))]
  IN  IF OfAll(score) = 0 THEN 0 ELSE Rounded(SumFunction(part), 10 * OfAll(score))

\* The features job and run_stage_a after it.
Row(s, now, agents) ==
  LET f == Features(s, now)
      persons == [p \in s.team |-> PersonScore(f, p)]
      score == Scores(s, f, persons, agents)
  IN  [persons |-> persons, scores |-> score,
       final |-> Final(score), confidence |-> Confidence(f, score, agents, s.team)]

NoVerdict == [score |-> Unknown, kinds |-> 0]

Init ==
  /\ quarter = 0 /\ learned = 0
  /\ silver \in {Nothing(team) : team \in SUBSET Members}
  /\ verdict = NoVerdict
  /\ weights \in WeightRows
  /\ row = Row(silver, quarter, verdict)

----
(* What happens between two runs of the jobs: silver is merged by key, so   *)
(* what is fetched again replaces what was known                            *)

Learns(s, now, agents) ==
  /\ learned < MaxLearned
  /\ learned' = learned + 1
  /\ silver' = s /\ quarter' = now /\ verdict' = agents
  /\ row' = Row(s, now, agents)
  /\ UNCHANGED weights

Knows(s) == s # silver /\ Learns(s, quarter, verdict)

\* A build of the ventures: members come and go.
Team(team) == Knows([silver EXCEPT !.team = team])

WorkElsewhere(p, j) == {c \in silver.work[p] : c.project # j}

\* The person's share of a project, in the place of the one known before.
Contribution(p, c) ==
  c.at <= quarter /\ Knows([silver EXCEPT !.work[p] = WorkElsewhere(p, c.project) \cup {c}])

\* An unmerge takes the identity away that has worked on a project.
Unlinked(p, j) == Knows([silver EXCEPT !.work[p] = WorkElsewhere(p, j)])

\* Papers and filings of the person, by their dates.
Dates(p, dates) == Knows([silver EXCEPT !.dates[p] = dates])

\* By seven hundred, over the mark of a hit or under it.
Stars(j, by) ==
  /\ silver.stars[j] + by >= 0
  /\ Knows([silver EXCEPT !.stars[j] = @ + by])

Citations(p, by) ==
  /\ silver.citations[p] + by >= 0
  /\ Knows([silver EXCEPT !.citations[p] = @ + by])

\* A role or a headline that says so, or no longer does.
Founder(p) == Knows([silver EXCEPT !.founder[p] = ~@])

\* One that is not in the list of institutions is unknown.
Affiliation(p, tier) == Knows([silver EXCEPT !.school[p] = tier])

\* The agents may also come back without a score.
Verdict(agents) == agents # verdict /\ Learns(silver, quarter, agents)

\* Time passes: recency decays, commits leave the window.
Quarter == Learns(silver, quarter + 1, verdict)

Next ==
  \/ \E team \in SUBSET Members : Team(team)
  \/ \E p \in Members : \/ \E c \in Found : Contribution(p, c)
                        \/ \E j \in Projects : Unlinked(p, j)
                        \/ \E dates \in {{}, {quarter}} : Dates(p, dates)
                        \/ \E by \in {1, -1} : Citations(p, by)
                        \/ Founder(p)
                        \/ \E tier \in Tiers \cup {Unknown} : Affiliation(p, tier)
  \/ \E j \in Projects, by \in {7, -7} : Stars(j, by)
  \/ \E agents \in {NoVerdict} \cup [score : {0, 900}, kinds : 0..2] : Verdict(agents)
  \/ Quarter

Spec == Init /\ [][Next]_vars

----
(* Properties *)

TypeOK ==
  /\ \A c \in Categories : row.scores[c] \in 0..1000 \cup {Unknown}
  /\ row.final \in 0..1000 /\ row.confidence \in 0..100

\* What is not available takes no part: the score lies between the worst and
\* the best of the categories that count, never below through a gap.
FinalIsWithin ==
  LET counting == {row.scores[c] : c \in {d \in Scored(row.scores) : weights[d] > 0}}
  IN  counting # {} => Min(counting) <= row.final /\ row.final <= Max(counting)

\* The features known of a person, in the table the row was made from.
Held(s, now, p) == {k \in DOMAIN Features(s, now)[p] : Known(Features(s, now)[p][k])}

\* Worse figures never lower the confidence in a score.  It falls only when the
\* team changes, when a feature known of a member no longer is, with time or
\* with what replaces a fact, or when the agents' verdict loses its score or a
\* kind of source.
OnlyGapsLowerConfidence ==
  [][/\ silver'.team = silver.team
     /\ \A p \in silver.team : Held(silver, quarter, p) \subseteq Held(silver', quarter', p)
     /\ Known(verdict.score) => Known(verdict'.score)
     /\ verdict.kinds <= verdict'.kinds
     => row'.confidence >= row.confidence]_vars

\* More stars never take a team further from the ideal, and more citations
\* never lower the own score of the member who has them.
BetterNeverWorse ==
  [][/\ silver'.stars # silver.stars /\ (\A j \in Projects : silver'.stars[j] >= silver.stars[j])
          => row'.scores.ideal_match >= row.scores.ideal_match
     /\ \A p \in silver.team :
          Known(silver.citations[p]) /\ silver'.citations[p] > silver.citations[p]
            => row'.persons[p] >= row.persons[p]]_vars

====
