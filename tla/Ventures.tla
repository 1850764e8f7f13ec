---- MODULE Ventures ----
(***************************************************************************)
(* Assembly of ventures and their members from silver (scoring/ventures.py *)
(* and the merge of its rows into gold): one venture per repository worth  *)
(* it, company and pitch, joined where they are the same undertaking.      *)
(* Shares and weights are in per cent.                                     *)
(***************************************************************************)
EXTENDS Naturals, Sequences, FiniteSetsExt

CONSTANTS
  Known,       \* facts of silver there are at first
  Observable,  \* facts that may come to be known
  Companies,   \* the companies in the order of their table, a sequence
  Pitches,     \* Hack Nation projects in the order of their ids, a sequence
  MaxMembers,  \* MAX_MEMBERS
  MaxBuilds    \* bound

(* The facts:                                                                *)
(*   <<"contribution", person, repository, share, commits>>                  *)
(*   <<"officer", person, company, role>>   with the authority to sign       *)
(*   <<"like a venture", repository>>       likely one, and not corporate    *)
(*   <<"startup", company>>                 of high startup likeness         *)
(*   <<"refers", repository, company>>      by homepage, name or purpose     *)
(*   <<"pitched", pitch, repository>>       its githubUrl                    *)
(*   <<"pitcher", person, pitch, role>>     once the identity has a link     *)

VARIABLES
  silver,      \* the facts
  rows,        \* what the last build made: venture -> members
  gold,        \* gold.venture_member: <<venture, person>> -> seed
  built,       \* history: the facts the last build has read
  builds

vars == <<silver, rows, gold, built, builds>>

Init == silver = Known /\ rows = <<>> /\ gold = <<>> /\ built = {} /\ builds = 0

Of(kind) == {f \in silver : f[1] = kind}

PerCent(part, total) == (200 * part + total) \div (2 * total)

\* The MaxMembers members of the largest weight.
Cut(seeds) ==
  LET top == CHOOSE T \in SUBSET DOMAIN seeds :
               /\ Cardinality(T) = Min({MaxMembers, Cardinality(DOMAIN seeds)})
               /\ \A x \in T, y \in DOMAIN seeds \ T : seeds[x].weight >= seeds[y].weight
  IN  [x \in top |-> seeds[x]]

Normalised(seeds) ==
  LET total == MapThenSumSet(LAMBDA x : seeds[x].weight, DOMAIN seeds)
  IN  [x \in DOMAIN seeds |-> [seeds[x] EXCEPT !.weight = PerCent(@, total)]]

RepoMembers(repo) ==
  LET core == {f \in Of("contribution") :
                 f[3] = repo /\ (f[4] >= 10 \/ (f[4] >= 5 /\ f[5] >= 10))}
      shareOf(x) == (CHOOSE f \in core : f[2] = x)[4]
  IN  Normalised(Cut([x \in {f[2] : f \in core} |->
        [weight |-> shareOf(x), role |-> "maintainer", founder |-> FALSE]]))

OfficerMembers(company) ==
  LET officers == {f \in Of("officer") : f[3] = company}
      roleOf(x) == (CHOOSE f \in officers : f[2] = x)[4]
  IN  [x \in {f[2] : f \in officers} |->
        [weight |-> IF roleOf(x) = "board" THEN 50 ELSE 100,
         role |-> IF roleOf(x) = "founder" THEN "founder" ELSE "officer",
         founder |-> roleOf(x) = "founder"]]

Merges(repo, company) ==
  LET shared == DOMAIN RepoMembers(repo) \cap DOMAIN OfficerMembers(company)
  IN  \/ Cardinality(shared) >= 2
      \/ shared # {} /\ <<"refers", repo, company>> \in silver

\* The company a repository is joined with, as a set of at most one.
MatchingCompany(repo) ==
  LET fits == {i \in DOMAIN Companies : Merges(repo, Companies[i])}
  IN  IF fits = {} THEN {} ELSE {Companies[Min(fits)]}

\* An officer who contributes keeps the weight of a contributor; others are
\* added and all weights brought to one scale.
MergeMembers(repo, officers) ==
  LET both == [x \in DOMAIN repo |->
                IF x \notin DOMAIN officers THEN repo[x]
                ELSE [repo[x] EXCEPT !.role = IF officers[x].founder THEN "founder" ELSE @,
                                     !.founder = officers[x].founder]]
      added == DOMAIN officers \ DOMAIN repo
      all == [x \in DOMAIN repo \cup added |-> IF x \in added THEN officers[x] ELSE both[x]]
  IN  Cut(IF added = {} THEN all ELSE Normalised(all))

RepoSeeds(repo) ==
  IF MatchingCompany(repo) = {} THEN RepoMembers(repo)
  ELSE MergeMembers(RepoMembers(repo), OfficerMembers(CHOOSE c \in MatchingCompany(repo) : TRUE))

Gated == {f[2] : f \in Of("like a venture")}

\* Mutant: every repository takes its company with it, built or not.
ConsumedByAny == UNION {MatchingCompany(f[3]) : f \in Of("contribution")}

Consumed == UNION {MatchingCompany(r) : r \in Gated}

PitchMembers(pitch) ==
  LET team == {f \in Of("pitcher") : f[3] = pitch}
      roleOf(x) == (CHOOSE f \in team : f[2] = x)[4]
  IN  [x \in {f[2] : f \in team} |->
        [weight |-> PerCent(1, Cardinality(team)),
         role |-> IF roleOf(x) = "author" THEN "founder" ELSE roleOf(x),
         founder |-> roleOf(x) = "author"]]

PitchesOf(repo) == {i \in DOMAIN Pitches : <<"pitched", Pitches[i], repo>> \in silver}

\* Everybody of the pitches, as the first pitch with them has them.
Pitchers(repo) ==
  [x \in UNION {DOMAIN PitchMembers(Pitches[i]) : i \in PitchesOf(repo)} |->
     PitchMembers(Pitches[Min({i \in PitchesOf(repo) : x \in DOMAIN PitchMembers(Pitches[i])})])[x]]

\* Mutant: pitches are taken in as companies are.
Reshuffled(repo) == MergeMembers(RepoSeeds(repo), Pitchers(repo))

\* The repository's own members are as they were, the others come on top.
Absorbed(repo) ==
  [x \in DOMAIN RepoSeeds(repo) \cup DOMAIN Pitchers(repo) |->
     IF x \in DOMAIN RepoSeeds(repo) THEN RepoSeeds(repo)[x] ELSE Pitchers(repo)[x]]

CompaniesAlone == {f[2] : f \in Of("startup")} \ Consumed
PitchesAlone == {Pitches[i] : i \in DOMAIN Pitches \ UNION {PitchesOf(r) : r \in Gated}}

Ventures ==
  [v \in Gated \cup CompaniesAlone \cup PitchesAlone |->
     IF v \in Gated THEN Absorbed(v)
     ELSE IF v \in CompaniesAlone THEN OfficerMembers(v) ELSE PitchMembers(v)]

\* The members of ventures as rows, and the rows after a merge by key.
Rows(ventures) ==
  [k \in UNION {{v} \X DOMAIN ventures[v] : v \in DOMAIN ventures} |-> ventures[k[1]][k[2]]]
Merged(table, new) ==
  [k \in DOMAIN table \cup DOMAIN new |-> IF k \in DOMAIN new THEN new[k] ELSE table[k]]

Learn(f) ==
  /\ builds < MaxBuilds
  /\ f \notin silver
  /\ silver' = silver \cup {f}
  /\ UNCHANGED <<rows, gold, built, builds>>

Build ==
  /\ builds < MaxBuilds
  /\ rows' = Ventures
  /\ gold' = Merged(gold, Rows(rows'))
  /\ built' = silver
  /\ builds' = builds + 1
  /\ UNCHANGED silver

Next == (\E f \in Observable : Learn(f)) \/ Build

Spec == Init /\ [][Next]_vars

----
(* Properties *)

TypeOK ==
  /\ silver \subseteq Known \cup Observable /\ built \subseteq silver
  /\ builds \in 0..MaxBuilds
  /\ \A v \in DOMAIN rows : \A x \in DOMAIN rows[v] : rows[v][x].weight \in 0..100
  /\ \A k \in DOMAIN gold : gold[k].weight \in 0..100

AboutPitches(facts) == {f \in facts : f[1] \in {"pitched", "pitcher"}}

\* When only pitches have become known since the last build, the rows of the
\* members a repository has by itself stand: a pitch does not reshuffle a
\* venture that may have been scored.
PitchKeepsRepoRows ==
  [][builds' > builds /\ builds > 0 /\ silver \ AboutPitches(silver) = built \ AboutPitches(built)
       => \A k \in DOMAIN gold :
            k[1] \in Gated /\ k[2] \in DOMAIN RepoSeeds(k[1]) => gold'[k] = gold[k]]_vars

\* A startup somebody signs for is in the build with one of its officers, as
\* itself or in a repository's venture, never lost between the two.
NoStartupIsLost ==
  \A s \in {f \in built : f[1] = "startup"} :
    LET officers == {f[2] : f \in {g \in built : g[1] = "officer" /\ g[3] = s[2]}}
    IN  officers # {} => \E v \in DOMAIN rows : officers \cap DOMAIN rows[v] # {}

====
