---- MODULE MCParts ----
(* Small instances of the parts. *)
EXTENDS Parts

ThreeKeys == <<"k1", "k2", "k3">>
ThreeCategories == <<"product", "market", "traction">>

\* Two sets of weights, one of which leaves categories out.
Weights ==
  {[individual_experience |-> 3, schools |-> 1, prior_collaboration |-> 1, ideal_match |-> 2, agents |-> 3],
   [individual_experience |-> 0, schools |-> 5, prior_collaboration |-> 0, ideal_match |-> 0, agents |-> 5]}

WorkFound ==
  {[project |-> "x", share |-> 60, commits |-> 3, at |-> -8],
   [project |-> "x", share |-> 30, commits |-> 9, at |-> 0],
   [project |-> "y", share |-> 20, commits |-> 1, at |-> -4]}

Ideal == [school_tier |-> 80, stars_weighted |-> 50, recency_score |-> 50]

\* Four identities, two of them of one source, a repository (101) and a paper
\* (102) that may come to point at each other.
Jw(n, m) == IF n = m THEN 100 ELSE IF {n, m} = {"ann", "anna"} THEN 91 ELSE 0

AtFirst ==
  {<<1, "name", "ann">>, <<2, "name", "ann">>, <<3, "login", "ann">>, <<4, "name", "anna">>,
   <<3, "top", 101>>, <<4, "top", 101>>, <<2, "author", 102>>, <<1, "org", "eth">>}

Later ==
  {<<2, "org", "eth">>, <<101, "readme", 102>>, <<1, "email", "a@x">>, <<3, "email", "a@x">>,
   <<4, "email", "a@x">>, <<1, "pitched", 101>>}

Bands ==
  LET dropped == [p \in {{x, y} : x, y \in 1..4} |-> "drop"]
  IN  {dropped,
       [dropped EXCEPT ![{1, 2}] = "auto", ![{2, 3}] = "review"],
       [dropped EXCEPT ![{1, 2}] = "adjudicate", ![{3, 4}] = "review"]}

Sources == <<"hacknation", "openalex_author", "github", "github">>

\* Two companies, two pitches and a repository.
CompanyTable == <<"l", "k">>
PitchTable == <<"h", "i">>

SilverAtFirst ==
  {<<"contribution", "a", "r", 60, 20>>, <<"contribution", "b", "r", 8, 10>>,
   <<"officer", "c", "k", "board">>, <<"officer", "b", "l", "other">>,
   <<"startup", "k">>, <<"startup", "l">>}

SilverLater ==
  {<<"like a venture", "r">>, <<"officer", "a", "k", "founder">>, <<"refers", "r", "k">>,
   <<"pitched", "h", "r">>, <<"pitched", "i", "r">>, <<"pitcher", "a", "h", "member">>,
   <<"pitcher", "d", "h", "author">>, <<"pitcher", "d", "i", "member">>}

Showcased == <<"p", "q">>
====
