---- MODULE Matching ----
(***************************************************************************)
(* What entity resolution makes of what is known about identities: the     *)
(* cross-links of artifacts and the rules D1 to D8 (er/rules.py), the      *)
(* bands of Splink, adjudication, clusters and links, and the review queue *)
(* (er/pipeline.py).  A run is one step here; module Resolution has its    *)
(* interleavings.                                                          *)
(***************************************************************************)
EXTENDS Clusters

CONSTANTS
  Known,        \* facts <<identity or artifact, attribute, value>> there are at first
  Observable,   \* facts that may come to be known
  NameJw(_, _), \* Jaro-Winkler similarity of two names, in per cent
  Scorings,     \* what Splink may say: functions from pairs to bands
  MaxRuns       \* bound

VARIABLES
  facts,
  personOf,    \* identity -> person of its active link, 0 when not linked
  settled,     \* ops.llm_adjudications: pairs with a verdict
  review,      \* ops.er_review_queue: <<subject, candidate person>>
  runs,
  taken,       \* history: pairs there was reason to take as one person
  doubted      \* history: pairs the last run was in doubt about

vars == <<facts, personOf, settled, review, runs, taken, doubted>>

Nobody == 0
Pairs == {{x, y} : x, y \in Ids} \ {{x} : x \in Ids}

Init ==
  /\ facts = Known
  /\ personOf = [x \in Ids |-> Nobody]
  /\ settled = {} /\ review = {} /\ runs = 0
  /\ taken = {} /\ doubted = {}

----
(* Stage 0: what the normaliser of a source can say of an identity (er/normalize.py, *)
(* scrapers/hacknation/normalizer.py), and where it stands with an artifact.         *)

GithubFields == {"name", "login", "email", "website", "linkedin", "org", "top"}
OpenalexFields == {"name", "orcid", "org", "author"}
ArxivFields == {"name", "email", "author"}
ZefixFields == {"name", "org", "officer"}
HacknationFields == {"name", "email", "linkedin", "org", "pitched"}

Fields == [github |-> GithubFields, openalex_author |-> OpenalexFields,
           arxiv_author |-> ArxivFields, zefix_officer |-> ZefixFields,
           hacknation |-> HacknationFields]

Observed(f) == f[1] \in Ids => f[2] \in Fields[SourceOf[f[1]]]

----
(* Stage 1: artifacts *)

Values(x, attribute) == {f[3] : f \in {g \in facts : g[1] = x /\ g[2] = attribute}}
Having(attribute, value) == {f[1] : f \in {g \in facts : g[2] = attribute /\ g[3] = value}}
All(attribute) == {f[1] : f \in {g \in facts : g[2] = attribute}}
Agree(a, b, attribute) == Values(a, attribute) \cap Values(b, attribute) # {}

\* An account without a name goes by its login.
Names(x) == IF Values(x, "name") # {} THEN Values(x, "name") ELSE Values(x, "login")

\* arXiv ids in the README, code urls of the paper, the archive of links.
PaperLinks ==
  {<<f[1], f[3]>> : f \in {g \in facts : g[2] \in {"readme", "archive"}}}
    \cup {<<f[3], f[1]>> : f \in {g \in facts : g[2] = "code_url"}}

CompanyLinks ==
  {l \in All("homepage") \X All("company_site") :
     Values(l[1], "homepage") \cap Values(l[2], "company_site") # {}}

\* "top" is a share of at least half of the repository.
CandidatePairs ==
  UNION {{{a, b} : a \in Having("top", l[1]) \cap Ids, b \in Having("author", l[2]) \cap Ids}
           : l \in PaperLinks}
  \cup UNION {{{a, b} : a \in Having("top", l[1]) \cap Ids, b \in Having("officer", l[2]) \cap Ids}
           : l \in CompanyLinks}

\* Hack Nation members and the core contributors of the repository they name.
PitchPairs ==
  {p \in Pairs : \E a, b \in p : a # b /\ Values(a, "pitched") \cap Values(b, "top") # {}}

----
(* Stage 2: rules *)

Jw(p) == Max({0} \cup {NameJw(n, m) : n \in Names(Min(p)), m \in Names(Max(p))})
LoginIsName(p) == \E a, b \in p : a # b /\ Values(a, "login") \cap Names(b) # {}
GithubOnRecord(p) == \E a, b \in p : a # b /\ Values(a, "login") \cap Values(b, "website") # {}

\* D1 to D4 and D7
ByIdentifier(p) ==
  \/ \E k \in {"orcid", "email", "website", "handle", "linkedin"} : Agree(Min(p), Max(p), k)
  \/ GithubOnRecord(p)

\* D5
ByCrosslink(p) == p \in CandidatePairs /\ (Jw(p) >= 92 \/ LoginIsName(p))

\* D8
ByPitch(p) == p \in PitchPairs /\ Jw(p) >= 90

\* D6
ByNameAndOrg(p) ==
  Names(Min(p)) \cap Names(Max(p)) # {} /\ Agree(Min(p), Max(p), "org")

\* Mutant: D6 links like the others.
EveryRule(p) == ByIdentifier(p) \/ ByCrosslink(p) \/ ByPitch(p) \/ ByNameAndOrg(p)

AutoRule(p) == ByIdentifier(p) \/ ByCrosslink(p) \/ ByPitch(p)

Views == Ids \cap {f[1] : f \in facts}
Linked == {x \in Ids : personOf[x] # Nobody}
InView == {p \in Pairs : p \subseteq Views}

\* Splink and adjudication see what no rule has joined and is not linked.
InPlay(ruled) ==
  {p \in InView : ~(p \subseteq Linked) /\ ~\E c \in Components(ruled) : p \subseteq c}

\* Pairs of a band, of those in play.
Banded(play, scoring, band) == {p \in play : scoring[p] = band}
Asked(play, scoring) == Banded(play, scoring, "adjudicate") \ settled

----
(* Clusters and links *)

\* Of the pairs taken, those of two linked identities are left out.
ClustersOf(matches) == Components({p \in matches : ~(p \subseteq Linked)})

\* A person is named after the first of the identities it was made for.
PersonFor(group) ==
  IF group \cap Linked = {} THEN Min(group) ELSE personOf[Min(group \cap Linked)]

\* Clusters that keep x; no two do.
Of(clusters, x) == {c \in clusters : x \in Kept(c)}

NewPersonOf(clusters) == [x \in Ids |->
  IF x \in Linked \/ x \notin Views THEN personOf[x]
  ELSE IF Of(clusters, x) = {} THEN x
  ELSE PersonFor(Kept(CHOOSE c \in Of(clusters, x) : TRUE))]

\* Linked before, or by a match of this run.
Anchored(clusters) == Linked \cup UNION {Kept(c) : c \in clusters}

\* The newcomer of a pair is asked about, and whether it is the other's person.
Subject(p, anchored) ==
  IF Min(p) \in anchored /\ Max(p) \notin anchored THEN Max(p) ELSE Min(p)

\* Mutant: a pair is left alone when neither is a newcomer.
NewsOnly(p, anchored) == ~(p \subseteq anchored)

Reviewed(p, anchored) == TRUE

PairReviews(doubts, person, anchored) ==
  {<<Subject(p, anchored), person[CHOOSE y \in p : y # Subject(p, anchored)]>> :
     p \in {q \in doubts : person[Min(q)] # person[Max(q)] /\ Reviewed(q, anchored)}}

\* Those the guard has put out of a cluster, and its person.
EjectionReviews(clusters, person) ==
  UNION {{<<x, person[Min(Kept(c))]>> : x \in c \ Kept(c)} : c \in clusters}

Learn(f) ==
  /\ runs < MaxRuns
  /\ f \notin facts /\ Observed(f)
  /\ facts' = facts \cup {f}
  /\ UNCHANGED <<personOf, settled, review, runs, taken, doubted>>

\* (What is bound by \E to a set of one is evaluated just once.)
Run ==
  /\ runs < MaxRuns /\ runs' = runs + 1
  /\ \E ruled \in {{p \in InView : AutoRule(p)}} : \E play \in {InPlay(ruled)} :
     \E scoring \in Scorings :
     \E matched \in SUBSET Asked(play, scoring) :
     \E unsure \in SUBSET (Asked(play, scoring) \ matched) :
     \E found \in {Banded(play, scoring, "auto") \cup matched},
        doubts \in {{p \in InView : ByNameAndOrg(p)} \cup Banded(play, scoring, "review") \cup unsure} :
     \E clusters \in {ClustersOf(ruled \cup found)} :
     \E person \in {NewPersonOf(clusters)} :
       /\ personOf' = person
       /\ settled' = settled \cup Asked(play, scoring)
       /\ review' = review \cup PairReviews(doubts, person, Anchored(clusters))
                           \cup EjectionReviews(clusters, person)
       /\ doubted' = doubts
       /\ taken' = taken \cup found
                    \cup {p \in InView : ByIdentifier(p) \/ ByCrosslink(p) \/ ByPitch(p)}
  /\ UNCHANGED facts

Next == (\E f \in Observable : Learn(f)) \/ Run

Spec == Init /\ [][Next]_vars

----
(* Properties *)

TypeOK ==
  /\ facts \subseteq Known \cup Observable /\ \A f \in facts : Observed(f)
  /\ personOf \in [Ids -> Ids \cup {Nobody}]
  /\ settled \subseteq Pairs /\ taken \subseteq Pairs /\ doubted \subseteq Pairs
  /\ review \subseteq Ids \X Ids

\* Whoever is one person is connected by identifiers, by artifacts that point
\* at each other, by Splink or by a verdict; never by a name and an employer.
NameAloneNeverJoins ==
  \A p \in Pairs :
    personOf[Min(p)] = personOf[Max(p)] /\ personOf[Min(p)] # Nobody
      => \E c \in Components(taken) : p \subseteq c

\* What a run doubts and leaves apart is in the queue, however the two stand
\* after it: a human is asked whether one of them is the other's person.
DoubtIsReviewed ==
  \A p \in doubted :
    personOf[Min(p)] # personOf[Max(p)] =>
      \E x, y \in p : x # y /\ <<x, personOf[y]>> \in review

====
