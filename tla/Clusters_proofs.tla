---- MODULE Clusters_proofs ----
(***************************************************************************)
(* What the clusters of entity resolution promise, for any set of pairs:   *)
(* the components keep pairs together and share no identity, and a set of  *)
(* identities has a first one.                                             *)
(***************************************************************************)
EXTENDS Clusters, WellFoundedInduction, TLAPS

LEMMA ClosedComplement ==
  ASSUME NEW pairs, NEW s \in Closed(pairs)
  PROVE  (UNION pairs) \ s \in Closed(pairs)
<1>1. ASSUME NEW p \in pairs
      PROVE  p \cap ((UNION pairs) \ s) = {} \/ p \subseteq (UNION pairs) \ s
  BY <1>1 DEF Closed
<1> QED BY <1>1 DEF Closed

LEMMA ComponentHasIts ==
  ASSUME NEW pairs, NEW x \in UNION pairs
  PROVE  x \in ComponentOf(x, pairs) /\ ComponentOf(x, pairs) \subseteq UNION pairs
BY DEF ComponentOf

\* Connection goes both ways.
LEMMA Connected ==
  ASSUME NEW pairs, NEW x \in UNION pairs, NEW y \in ComponentOf(x, pairs)
  PROVE  ComponentOf(y, pairs) = ComponentOf(x, pairs)
<1>1. y \in UNION pairs /\ \A s \in Closed(pairs) : x \in s => y \in s
  BY DEF ComponentOf
<1>2. \A s \in Closed(pairs) : y \in s => x \in s
  <2> SUFFICES ASSUME NEW s \in Closed(pairs), y \in s, x \notin s PROVE FALSE
    OBVIOUS
  <2>1. (UNION pairs) \ s \in Closed(pairs)
    BY ClosedComplement
  <2> QED BY <1>1, <2>1
<1> QED BY <1>1, <1>2 DEF ComponentOf

\* Components that share an identity are one: no two clusters give an identity
\* two persons.
THEOREM ComponentsDisjoint ==
  ASSUME NEW pairs, NEW c \in Components(pairs), NEW d \in Components(pairs),
         NEW x \in c, x \in d
  PROVE  c = d
<1>1. PICK a \in UNION pairs : c = ComponentOf(a, pairs)
  BY DEF Components
<1>2. PICK b \in UNION pairs : d = ComponentOf(b, pairs)
  BY DEF Components
<1>3. c = ComponentOf(x, pairs) /\ d = ComponentOf(x, pairs)
  BY <1>1, <1>2, Connected
<1> QED BY <1>3

\* Every component is made of identities of pairs, and is not empty.
LEMMA ComponentsCovered ==
  ASSUME NEW pairs, NEW c \in Components(pairs)
  PROVE  c \subseteq UNION pairs /\ c # {}
BY ComponentHasIts DEF Components

\* The two of a pair are in one component.
THEOREM PairsStayTogether ==
  ASSUME NEW pairs, NEW p \in pairs, p # {}
  PROVE  \E c \in Components(pairs) : p \subseteq c
<1>1. PICK x \in p : TRUE
  OBVIOUS
<1>2. x \in UNION pairs
  BY <1>1
<1>3. p \subseteq ComponentOf(x, pairs)
  <2> SUFFICES ASSUME NEW y \in p, NEW s \in Closed(pairs), x \in s PROVE y \in s
    BY DEF ComponentOf
  <2> QED BY <1>1 DEF Closed
<1> QED BY <1>2, <1>3 DEF Components

\* A set of numbers has a least one.
LEMMA MinOf ==
  ASSUME NEW S \in SUBSET Nat, S # {}
  PROVE  Min(S) \in S /\ \A x \in S : Min(S) <= x
<1> DEFINE R == OpToRel(<, Nat)
<1>1. IsWellFoundedOn(R, Nat)
  BY NatLessThanWellFounded
<1> HIDE DEF R
<1>2. PICK x \in S : \A y \in S : ~(<<y, x>> \in R)
  BY <1>1, WFMin
<1>3. ASSUME NEW y \in S PROVE x <= y
  <2>1. x \in Nat /\ y \in Nat
    BY <1>3
  <2>2. y < x => <<y, x>> \in R
    BY <2>1 DEF R, OpToRel
  <2> QED BY <1>2, <2>1, <2>2
<1>4. \E z \in S : \A y \in S : z <= y
  BY <1>3
<1> QED BY <1>4 DEF Min

\* The guard leaves the first of a cluster in it.
LEMMA KeptFirst ==
  ASSUME NEW c \in SUBSET Nat, c # {}
  PROVE  Min(c) \in Kept(c) /\ Kept(c) \subseteq c
<1>1. Min(c) \in c /\ \A x \in c : Min(c) <= x
  BY MinOf
<1>2. ASSUME NEW m \in c, \A x \in c : m <= x
      PROVE  m \in Kept(c)
  <2>1. \A y \in c : ~(y < m)
    BY <1>2
  <2> QED BY <2>1 DEF Kept
<1>3. Kept(c) \subseteq c
  BY DEF Kept
<1> QED BY <1>1, <1>2, <1>3

====
