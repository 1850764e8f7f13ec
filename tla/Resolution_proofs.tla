---- MODULE Resolution_proofs ----
(***************************************************************************)
(* What the jobs of module Resolution keep true, for any identities,       *)
(* sources, rules and number of jobs: TypeOK, OneActiveLink,               *)
(* LinkedPersonExists, ErasedStaysErased and CorrectionStands.             *)
(*                                                                         *)
(* The tables alone do not carry the proof: a job goes on with what it has *)
(* read before.  The inductive invariant speaks of the plans: what a       *)
(* statement still to come will leave behind, and which statement of its   *)
(* job comes before it.                                                    *)
(***************************************************************************)
EXTENDS Resolution, Clusters_proofs, FiniteSetTheorems

----
(* The inductive invariant *)

OfIds == {"bronze", "records", "delete_bronze", "delete_records", "delete_links",
          "delete_facts", "suppress"}

Statements ==
  [op : OfIds, rows : SUBSET Ids]
    \cup [op : {"verdicts"}, rows : SUBSET (Band \X Verdicts)]
    \cup [op : {"facts"}, rows : SUBSET (Ids \X Persons)]
    \cup [op : {"persons", "erase"}, rows : SUBSET Persons]
    \cup [op : {"links"}, rows : SUBSET Link, seen : SUBSET Link]

Readings == [bronze : SUBSET Ids, fact : [Ids -> 0..NoFact], record : SUBSET Ids, busy : BOOLEAN]

TypeInv ==
  /\ TypeOK
  /\ plan \in [Jobs -> Seq(Statements)]
  /\ reading \in [Resolvers -> Readings]

\* Links a statement leaves active of an identity that has not changed since.
After(st, x) ==
  {l \in st.seen : l.id = x /\ ~\E k \in st.rows : SameKey(l, k)}
    \cup {k \in st.rows : k.id = x /\ k.active}

Keyed(rows) == \A l, k \in rows : SameKey(l, k) => l = k
AtMostOne(S) == \A l, k \in S : l = k

\* A statement writes one row per key, leaves one active link of an identity
\* that nobody else has changed, and has nothing to say of the forgotten.
GoodLinks(st) ==
  /\ Keyed(st.rows)
  /\ \A l \in st.rows : l.id \notin stale => AtMostOne(After(st, l.id))
  /\ \A l \in st.rows : l.id \notin forgotten

\* A resolution links only those it has seen without a link.
LinkPlans(j) ==
  \A n \in DOMAIN plan[j] : plan[j][n].op = "links" =>
    GoodLinks(plan[j][n]) /\ (j \in Resolvers => plan[j][n].seen = {})

LinkInv ==
  /\ \A x \in Ids \ stale : AtMostOne(ActiveLinks(x))
  /\ \A j \in Jobs : LinkPlans(j)

\* A statement of a job before its n-th has a row.
Before(j, n, op, row) == \E m \in 1..(n - 1) : plan[j][m].op = op /\ row \in plan[j][m].rows

\* A person is in its table, or its row comes before statement n.
Led(p, j, n) == person[p] # "none" \/ Before(j, n, "persons", p)

PersonPlans(j) ==
  \A n \in DOMAIN plan[j] : plan[j][n].op = "links" =>
    \A l \in plan[j][n].rows : l.active /\ l.method # "human_review" => Led(l.person, j, n)

PersonInv == LinkedPersonExists /\ \A j \in Jobs : PersonPlans(j)

\* Who reads has no plan, and next to a job that runs alone nobody is busy.
BusyInv ==
  /\ \A e \in Resolvers : reading[e].busy => plan[e] = <<>>
  /\ \A e \in Resolvers : ~reading[e].busy => reading[e] = NotReading
  /\ \A j \in alone : Busy(j) => Others(j) = {}

\* By the time an erasure that runs alone suppresses an identity, no table has it.
ErasurePlans(j) ==
  \A n \in DOMAIN plan[j] : plan[j][n].op = "suppress" =>
    /\ \A m \in DOMAIN plan[j] : plan[j][m].op \notin {"bronze", "records", "links"}
    /\ \A x \in plan[j][n].rows :
         /\ x \in record => Before(j, n, "delete_records", x)
         /\ SourceOf[x] \in Guarded /\ x \in bronze => Before(j, n, "delete_bronze", x)
         /\ (\E l \in links : l.id = x) => Before(j, n, "delete_links", x)

ErasureInv == \A j \in alone : ErasurePlans(j)

ForgottenInv ==
  \A x \in forgotten :
    /\ x \in suppressed /\ x \notin record
    /\ SourceOf[x] \in Guarded => x \notin bronze
    /\ \A l \in links : l.id # x
    /\ \A e \in Resolvers : x \notin reading[e].record

Inv == TypeInv /\ LinkInv /\ PersonInv /\ BusyInv /\ ErasureInv /\ ForgottenInv

----
(* Sequences *)

LEMMA Concat ==
  ASSUME NEW S, NEW s \in Seq(S), NEW t \in Seq(S), NEW n \in DOMAIN (s \o t)
  PROVE  \/ n \in DOMAIN s /\ (s \o t)[n] = s[n]
         \/ n - Len(s) \in DOMAIN t /\ n > Len(s) /\ (s \o t)[n] = t[n - Len(s)]
OBVIOUS

LEMMA ConcatLeft ==
  ASSUME NEW S, NEW s \in Seq(S), NEW t \in Seq(S), NEW n \in DOMAIN s
  PROVE  n \in DOMAIN (s \o t) /\ (s \o t)[n] = s[n] /\ n \in Nat /\ n <= Len(s)
OBVIOUS

LEMMA Shift ==
  ASSUME NEW S, NEW s \in Seq(S), s # <<>>, NEW n \in DOMAIN Tail(s)
  PROVE  n \in Nat /\ n + 1 \in DOMAIN s /\ Tail(s)[n] = s[n + 1]
OBVIOUS

----
(* Statements *)

LEMMA StatementType ==
  ASSUME NEW st \in Statements
  PROVE  /\ st.op \in OfIds => st.rows \subseteq Ids
         /\ st.op = "verdicts" => st.rows \subseteq Band \X Verdicts
         /\ st.op = "facts" => st.rows \subseteq Ids \X Persons
         /\ st.op \in {"persons", "erase"} => st.rows \subseteq Persons
         /\ st.op = "links" => st.rows \subseteq Link /\ st.seen \subseteq Link
BY DEF Statements, OfIds

LEMMA StatementIs ==
  ASSUME NEW op, NEW rows,
         \/ op \in OfIds /\ rows \subseteq Ids
         \/ op = "verdicts" /\ rows \subseteq Band \X Verdicts
         \/ op = "facts" /\ rows \subseteq Ids \X Persons
         \/ op \in {"persons", "erase"} /\ rows \subseteq Persons
  PROVE  /\ Statement(op, rows) \in Seq(Statements)
         /\ \A n \in DOMAIN Statement(op, rows) :
              Statement(op, rows)[n].op = op /\ Statement(op, rows)[n].rows = rows
         /\ \A x \in rows : 1 \in DOMAIN Statement(op, rows)
<1>1. CASE rows = {}
  BY <1>1 DEF Statement
<1>2. CASE rows # {}
  <2>1. [op |-> op, rows |-> rows] \in Statements
    BY DEF Statements
  <2> QED BY <1>2, <2>1 DEF Statement
<1> QED BY <1>1, <1>2

LEMMA LinkStatementIs ==
  ASSUME NEW rows \in SUBSET Link, links \subseteq Link
  PROVE  /\ LinkStatement(rows) \in Seq(Statements)
         /\ \A n \in DOMAIN LinkStatement(rows) :
              /\ LinkStatement(rows)[n].op = "links"
              /\ LinkStatement(rows)[n].rows = rows
              /\ LinkStatement(rows)[n].seen = UNION {ActiveLinks(l.id) : l \in rows}
<1>1. CASE rows = {}
  BY <1>1 DEF LinkStatement
<1>2. CASE rows # {}
  <2>1. UNION {ActiveLinks(l.id) : l \in rows} \in SUBSET Link
    BY DEF ActiveLinks
  <2>2. [op |-> "links", rows |-> rows, seen |-> UNION {ActiveLinks(l.id) : l \in rows}]
          \in Statements
    BY <2>1 DEF Statements
  <2> QED BY <1>2, <2>2 DEF LinkStatement
<1> QED BY <1>1, <1>2

\* The statement a job has next.
LEMMA NextStatement ==
  ASSUME TypeInv, NEW j \in Jobs, plan[j] # <<>>
  PROVE  /\ plan[j] \in Seq(Statements)
         /\ 1 \in DOMAIN plan[j] /\ Head(plan[j]) = plan[j][1] /\ plan[j][1] \in Statements
<1>1. plan[j] \in Seq(Statements)
  BY DEF TypeInv
<1> QED BY <1>1

----
(* What a run makes of what it has read *)

\* A run and its new persons, as Resolve picks them.
RunOK(run, fresh) ==
  /\ run.views \subseteq Ids /\ run.records \subseteq Ids
  /\ run.fact \in [Ids -> 0..NoFact]
  /\ DOMAIN run.linked \subseteq Ids /\ run.linked \in [DOMAIN run.linked -> Persons]
  /\ \A m \in run.matches : m \subseteq run.views
  /\ fresh \in Allocations(run)

\* A cluster has identities in view, and no identity is in two.
LEMMA ClustersInView ==
  ASSUME NEW run, NEW fresh, RunOK(run, fresh), NEW c \in ClustersOf(run)
  PROVE  c \subseteq run.views
<1> DEFINE pairs == {e \in run.matches : ~(e \subseteq DOMAIN run.linked)}
<1>1. PICK a \in Components(pairs) : c = Kept(a)
  BY DEF ClustersOf
<1>2. a \subseteq UNION pairs
  BY ComponentsCovered
<1>3. UNION pairs \subseteq run.views
  BY DEF RunOK
<1>4. c \subseteq a
  BY <1>1 DEF Kept
<1> QED BY <1>2, <1>3, <1>4

LEMMA ClustersApart ==
  ASSUME NEW run, NEW c \in ClustersOf(run), NEW d \in ClustersOf(run), NEW x \in c, x \in d
  PROVE  c = d
<1> DEFINE pairs == {e \in run.matches : ~(e \subseteq DOMAIN run.linked)}
<1>1. PICK a \in Components(pairs) : c = Kept(a)
  BY DEF ClustersOf
<1>2. PICK b \in Components(pairs) : d = Kept(b)
  BY DEF ClustersOf
<1>3. x \in a /\ x \in b
  BY <1>1, <1>2 DEF Kept
<1>4. a = b
  BY <1>3, ComponentsDisjoint
<1> QED BY <1>1, <1>2, <1>4

LEMMA FreshIsPerson ==
  ASSUME NEW run, NEW fresh, RunOK(run, fresh), NEW g \in NewGroups(run)
  PROVE  fresh[g] \in Persons
BY DEF RunOK, Allocations, Unused

LEMMA ClusterPerson ==
  ASSUME NEW run, NEW fresh, RunOK(run, fresh), NEW c \in ClustersOf(run)
  PROVE  PersonOfCluster(run, fresh, c) \in Persons
<1>1. CASE LinkedOf(run, c) = {}
  <2>1. c \in NewGroups(run)
    BY <1>1 DEF NewGroups
  <2> QED BY <1>1, <2>1, FreshIsPerson DEF PersonOfCluster
<1>2. CASE LinkedOf(run, c) # {}
  <2>1. LinkedOf(run, c) \subseteq DOMAIN run.linked /\ LinkedOf(run, c) \in SUBSET Nat
    BY ResolutionAssumption DEF LinkedOf, RunOK
  <2>2. Min(LinkedOf(run, c)) \in DOMAIN run.linked
    BY <1>2, <2>1, MinOf
  <2>3. run.linked[Min(LinkedOf(run, c))] \in Persons
    BY <2>2 DEF RunOK
  <2> QED BY <1>2, <2>3 DEF PersonOfCluster
<1> QED BY <1>1, <1>2

LEMMA ClusterLinkIs ==
  ASSUME NEW run, NEW fresh, NEW l \in ClusterLinks(run, fresh)
  PROVE  \E c \in ClustersOf(run) : \E x \in c \ DOMAIN run.linked :
           l = NewLink(x, PersonOfCluster(run, fresh, c), "auto")
BY DEF ClusterLinks

\* A run links identities in view that it has seen without a link.
LEMMA NewLinkIs ==
  ASSUME NEW run, NEW fresh, RunOK(run, fresh), NEW l \in NewLinks(run, fresh)
  PROVE  /\ l \in Link /\ l.active
         /\ l.id \in run.views \ DOMAIN run.linked
<1>1. CASE l \in ClusterLinks(run, fresh)
  <2>1. PICK c \in ClustersOf(run) : \E x \in c \ DOMAIN run.linked :
          l = NewLink(x, PersonOfCluster(run, fresh, c), "auto")
    BY <1>1, ClusterLinkIs
  <2>2. PICK x \in c \ DOMAIN run.linked :
          l = NewLink(x, PersonOfCluster(run, fresh, c), "auto")
    BY <2>1
  <2>3. x \in run.views /\ x \in Ids
    BY ClustersInView DEF RunOK
  <2>4. PersonOfCluster(run, fresh, c) \in Persons
    BY ClusterPerson
  <2> QED BY <2>2, <2>3, <2>4 DEF NewLink, Link, Methods
<1>2. CASE l \in Mints(run, fresh)
  <2>1. PICK x \in Strangers(run) : l = NewLink(x, fresh[{x}], "seed_fixture")
    BY <1>2 DEF Mints
  <2>2. x \in run.views \ DOMAIN run.linked /\ x \in Ids
    BY DEF Strangers, RunOK
  <2>3. {x} \in NewGroups(run)
    BY DEF NewGroups
  <2>4. fresh[{x}] \in Persons
    BY <2>3, FreshIsPerson
  <2> QED BY <2>1, <2>2, <2>4 DEF NewLink, Link, Methods
<1> QED BY <1>1, <1>2 DEF NewLinks

\* ... and each of them once.
LEMMA NewLinkOnce ==
  ASSUME NEW run, NEW fresh, NEW l \in NewLinks(run, fresh), NEW k \in NewLinks(run, fresh),
         l.id = k.id
  PROVE  l = k
<1>1. ASSUME NEW a \in ClusterLinks(run, fresh)
      PROVE  a.id \in UNION ClustersOf(run)
  BY <1>1, ClusterLinkIs DEF NewLink
<1>2. ASSUME NEW a \in Mints(run, fresh)
      PROVE  a.id \notin UNION ClustersOf(run) /\ a = NewLink(a.id, fresh[{a.id}], "seed_fixture")
  <2>1. PICK x \in Strangers(run) : a = NewLink(x, fresh[{x}], "seed_fixture")
    BY <1>2 DEF Mints
  <2>2. a.id = x
    BY <2>1 DEF NewLink
  <2> QED BY <2>1, <2>2 DEF Strangers
<1>3. ASSUME NEW a \in ClusterLinks(run, fresh), NEW b \in ClusterLinks(run, fresh), a.id = b.id
      PROVE  a = b
  <2>1. PICK c \in ClustersOf(run) : \E x \in c \ DOMAIN run.linked :
          a = NewLink(x, PersonOfCluster(run, fresh, c), "auto")
    BY <1>3, ClusterLinkIs
  <2>2. a.id \in c /\ a = NewLink(a.id, PersonOfCluster(run, fresh, c), "auto")
    BY <2>1 DEF NewLink
  <2>3. PICK d \in ClustersOf(run) : \E x \in d \ DOMAIN run.linked :
          b = NewLink(x, PersonOfCluster(run, fresh, d), "auto")
    BY <1>3, ClusterLinkIs
  <2>4. b.id \in d /\ b = NewLink(b.id, PersonOfCluster(run, fresh, d), "auto")
    BY <2>3 DEF NewLink
  <2>5. c = d
    BY <1>3, <2>2, <2>4, ClustersApart
  <2> QED BY <1>3, <2>2, <2>4, <2>5
<1> QED BY <1>1, <1>2, <1>3 DEF NewLinks

\* Whom a run takes each identity for.
LEMMA PersonOfIs ==
  ASSUME NEW run, NEW fresh, RunOK(run, fresh)
  PROVE  /\ DOMAIN PersonOf(run, fresh) \subseteq Ids
         /\ \A x \in DOMAIN PersonOf(run, fresh) : PersonOf(run, fresh)[x] \in Persons
         /\ \A l \in NewLinks(run, fresh) :
              l.id \in DOMAIN PersonOf(run, fresh) /\ PersonOf(run, fresh)[l.id] = l.person
<1> DEFINE D == DOMAIN run.linked \cup {l.id : l \in NewLinks(run, fresh)}
           P == PersonOf(run, fresh)
<1>1. DOMAIN P = D
  BY DEF PersonOf
<1>2. D \subseteq Ids
  BY NewLinkIs DEF RunOK, Link
<1>3. ASSUME NEW x \in DOMAIN run.linked
      PROVE  P[x] \in Persons
  BY DEF PersonOf, RunOK
<1>4. ASSUME NEW l \in NewLinks(run, fresh)
      PROVE  l.id \in D /\ P[l.id] = l.person
  <2>1. l.id \in D /\ l.id \notin DOMAIN run.linked
    BY NewLinkIs
  <2>2. P[l.id] = (CHOOSE k \in NewLinks(run, fresh) : k.id = l.id).person
    BY <2>1 DEF PersonOf
  <2>3. (CHOOSE k \in NewLinks(run, fresh) : k.id = l.id) = l
    BY NewLinkOnce
  <2> QED BY <2>1, <2>2, <2>3
<1>5. \A l \in NewLinks(run, fresh) : l.person \in Persons
  BY NewLinkIs DEF Link
<1> HIDE DEF P
<1>6. ASSUME NEW x \in D PROVE P[x] \in Persons
  BY <1>3, <1>4, <1>5
<1> QED BY <1>1, <1>2, <1>4, <1>6 DEF P

LEMMA RowsOf ==
  ASSUME NEW run, NEW fresh, RunOK(run, fresh)
  PROVE  /\ PersonRows(run, PersonOf(run, fresh)) \subseteq Persons
         /\ FactRows(run, PersonOf(run, fresh)) \subseteq Ids \X Persons
         /\ \A l \in NewLinks(run, fresh) : l.person \in PersonRows(run, PersonOf(run, fresh))
<1> DEFINE P == PersonOf(run, fresh)
<1>1. DOMAIN P \subseteq Ids /\ \A x \in DOMAIN P : P[x] \in Persons
  BY PersonOfIs
<1>2. \A l \in NewLinks(run, fresh) :
        l.id \in run.views /\ l.id \in DOMAIN P /\ P[l.id] = l.person
  BY PersonOfIs, NewLinkIs
<1> HIDE DEF P
<1>3. PersonRows(run, P) \subseteq Persons
  BY <1>1 DEF PersonRows
<1>4. FactRows(run, P) \subseteq Ids \X Persons
  BY <1>1 DEF FactRows
<1>5. \A l \in NewLinks(run, fresh) : l.person \in PersonRows(run, P)
  BY <1>2 DEF PersonRows
<1> QED BY <1>3, <1>4, <1>5 DEF P

----
(* What the plans are made of *)

\* The links of a resolution come after all of its persons.
LEMMA ResolutionPlanIs ==
  ASSUME NEW run, NEW fresh, RunOK(run, fresh), links \subseteq Link,
         NEW answers \in SUBSET (Band \X Verdicts),
         NEW s, s = ResolutionPlan(run, fresh, answers)
  PROVE  /\ s \in Seq(Statements)
         /\ \A n \in DOMAIN s :
              /\ s[n].op \in {"verdicts", "facts", "persons", "links", "records"}
              /\ s[n].op = "links" =>
                   /\ s[n].rows = NewLinks(run, fresh)
                   /\ s[n].seen = UNION {ActiveLinks(l.id) : l \in NewLinks(run, fresh)}
                   /\ \A l \in NewLinks(run, fresh) : \E m \in 1..(n - 1) :
                        s[m].op = "persons" /\ l.person \in s[m].rows
<1> DEFINE people == PersonRows(run, PersonOf(run, fresh))
           V == Statement("verdicts", answers)
           F == Statement("facts", FactRows(run, PersonOf(run, fresh)))
           P == Statement("persons", people)
           L == LinkStatement(NewLinks(run, fresh))
           R == Statement("records", run.records)
           VF == V \o F
           VFP == VF \o P
           VFPL == VFP \o L
<1>1. s = VFPL \o R
  BY DEF ResolutionPlan
<1>2. V \in Seq(Statements) /\ \A n \in DOMAIN V : V[n].op = "verdicts"
  BY StatementIs
<1>3. F \in Seq(Statements) /\ \A n \in DOMAIN F : F[n].op = "facts"
  BY RowsOf, StatementIs
<1>4. /\ P \in Seq(Statements)
      /\ \A n \in DOMAIN P : P[n].op = "persons" /\ P[n].rows = people
      /\ \A p \in people : 1 \in DOMAIN P
  BY RowsOf, StatementIs
<1>5. /\ L \in Seq(Statements)
      /\ \A n \in DOMAIN L :
           /\ L[n].op = "links" /\ L[n].rows = NewLinks(run, fresh)
           /\ L[n].seen = UNION {ActiveLinks(l.id) : l \in NewLinks(run, fresh)}
  <2>1. NewLinks(run, fresh) \in SUBSET Link
    BY NewLinkIs
  <2> QED BY <2>1, LinkStatementIs
<1>6. R \in Seq(Statements) /\ \A n \in DOMAIN R : R[n].op = "records"
  BY StatementIs DEF RunOK, OfIds
<1>7. \A l \in NewLinks(run, fresh) : l.person \in people
  BY RowsOf
<1> HIDE DEF V, F, P, L, R, people
<1>8. VF \in Seq(Statements) /\ VFP \in Seq(Statements) /\ VFPL \in Seq(Statements)
  BY <1>2, <1>3, <1>4, <1>5
<1>9. ASSUME NEW n \in DOMAIN s
      PROVE  \/ s[n].op \in {"verdicts", "facts", "persons", "records"}
             \/ /\ n - Len(VFP) \in DOMAIN L /\ n > Len(VFP) /\ s[n] = L[n - Len(VFP)]
                /\ n \in DOMAIN VFPL
  <2> HIDE DEF VF, VFP, VFPL
  <2>1. \/ n \in DOMAIN VFPL /\ s[n] = VFPL[n]
        \/ s[n].op = "records"
    BY <1>1, <1>6, <1>8, Concat
  <2>2. ASSUME n \in DOMAIN VFPL
        PROVE  \/ n \in DOMAIN VFP /\ VFPL[n] = VFP[n]
               \/ n - Len(VFP) \in DOMAIN L /\ n > Len(VFP) /\ VFPL[n] = L[n - Len(VFP)]
    BY <1>5, <1>8, <2>2, Concat DEF VFPL
  <2>3. ASSUME NEW m \in DOMAIN VFP
        PROVE  (m \in DOMAIN VF /\ VFP[m] = VF[m]) \/ VFP[m].op = "persons"
    BY <1>4, <1>8, Concat DEF VFP
  <2>4. ASSUME NEW m \in DOMAIN VF
        PROVE  VF[m].op = "verdicts" \/ VF[m].op = "facts"
    BY <1>2, <1>3, Concat DEF VF
  <2> QED BY <2>1, <2>2, <2>3, <2>4
<1>10. ASSUME NEW p \in people
       PROVE  LET m == Len(VF) + 1
              IN  m \in 1..Len(VFP) /\ s[m].op = "persons" /\ p \in s[m].rows
  <2>1. 1 \in DOMAIN P /\ P[1].op = "persons" /\ p \in P[1].rows
    BY <1>4
  <2>2. VFP[Len(VF) + 1] = P[1] /\ Len(VF) + 1 \in 1..Len(VFP)
    BY <1>4, <1>8, <2>1
  <2> HIDE DEF VF, VFP
  <2>3. VFPL[Len(VF) + 1] = VFP[Len(VF) + 1] /\ Len(VF) + 1 \in DOMAIN VFPL
    BY <1>5, <1>8, <2>2, ConcatLeft
  <2> HIDE DEF VFPL
  <2>4. s[Len(VF) + 1] = VFPL[Len(VF) + 1]
    BY <1>1, <1>6, <1>8, <2>3, ConcatLeft
  <2> QED BY <2>1, <2>2, <2>3, <2>4
<1>11. s \in Seq(Statements)
  <2> HIDE DEF VFPL
  <2> QED BY <1>1, <1>6, <1>8
<1>12. Len(VFP) \in Nat
  <2> HIDE DEF VFP
  <2> QED BY <1>8
<1> HIDE DEF VF, VFP, VFPL
<1>13. ASSUME NEW n \in DOMAIN s, s[n].op = "links"
       PROVE  /\ s[n].rows = NewLinks(run, fresh)
              /\ s[n].seen = UNION {ActiveLinks(l.id) : l \in NewLinks(run, fresh)}
              /\ \A l \in NewLinks(run, fresh) : \E m \in 1..(n - 1) :
                   s[m].op = "persons" /\ l.person \in s[m].rows
  <2>1. n - Len(VFP) \in DOMAIN L /\ n > Len(VFP) /\ s[n] = L[n - Len(VFP)]
    BY <1>9, <1>13
  <2>2. n \in Nat
    BY <1>11
  <2>3. \A m \in 1..Len(VFP) : m \in 1..(n - 1)
    BY <2>1, <2>2, <1>12
  <2> QED BY <1>5, <1>7, <1>10, <2>1, <2>3
<1> QED BY <1>5, <1>9, <1>11, <1>13

\* An erasure takes what it suppresses out of the tables first.
LEMMA ErasurePlanIs ==
  ASSUME NEW p \in Persons, links \subseteq Link, NEW s, s = ErasurePlan(p)
  PROVE  /\ s \in Seq(Statements)
         /\ \A n \in DOMAIN s :
              /\ s[n].op \notin {"bronze", "records", "links"}
              /\ s[n].op = "suppress" => \A x \in s[n].rows :
                   /\ \E m \in 1..(n - 1) : s[m].op = "delete_records" /\ x \in s[m].rows
                   /\ \E m \in 1..(n - 1) : s[m].op = "delete_links" /\ x \in s[m].rows
                   /\ SourceOf[x] \in Guarded =>
                        \E m \in 1..(n - 1) : s[m].op = "delete_bronze" /\ x \in s[m].rows
<1> DEFINE ids == IdsOf(p)
           known == ids \cap record
           guarded == {x \in known : SourceOf[x] \in Guarded}
           B == Statement("delete_bronze", guarded)
           R == Statement("delete_records", ids)
           L == Statement("delete_links", ids)
           F == Statement("delete_facts", ids)
           S == Statement("suppress", known)
           E == Statement("erase", {p})
           BR == B \o R
           BRL == BR \o L
           BRLF == BRL \o F
           BRLFS == BRLF \o S
<1>1. s = BRLFS \o E
  BY DEF ErasurePlan
<1>2. ids \subseteq Ids /\ known \subseteq ids
  BY DEF IdsOf, Link
<1> HIDE DEF ids
<1>3. /\ B \in Seq(Statements) /\ \A n \in DOMAIN B : B[n].op = "delete_bronze" /\ B[n].rows = guarded
      /\ \A x \in guarded : 1 \in DOMAIN B
  BY <1>2, StatementIs DEF OfIds
<1>4. /\ R \in Seq(Statements) /\ \A n \in DOMAIN R : R[n].op = "delete_records" /\ R[n].rows = ids
      /\ \A x \in ids : 1 \in DOMAIN R
  BY <1>2, StatementIs DEF OfIds
<1>5. /\ L \in Seq(Statements) /\ \A n \in DOMAIN L : L[n].op = "delete_links" /\ L[n].rows = ids
      /\ \A x \in ids : 1 \in DOMAIN L
  BY <1>2, StatementIs DEF OfIds
<1>6. F \in Seq(Statements) /\ \A n \in DOMAIN F : F[n].op = "delete_facts"
  BY <1>2, StatementIs DEF OfIds
<1>7. S \in Seq(Statements) /\ \A n \in DOMAIN S : S[n].op = "suppress" /\ S[n].rows = known
  BY <1>2, StatementIs DEF OfIds
<1>8. E \in Seq(Statements) /\ \A n \in DOMAIN E : E[n].op = "erase"
  BY StatementIs
<1> HIDE DEF B, R, L, F, S, E
<1>9. /\ BR \in Seq(Statements) /\ BRL \in Seq(Statements) /\ BRLF \in Seq(Statements)
      /\ BRLFS \in Seq(Statements)
  <2>1. BR \in Seq(Statements)
    BY <1>3, <1>4
  <2> HIDE DEF BR
  <2>2. BRL \in Seq(Statements)
    BY <2>1, <1>5
  <2> HIDE DEF BRL
  <2>3. BRLF \in Seq(Statements)
    BY <2>2, <1>6
  <2> HIDE DEF BRLF
  <2>4. BRLFS \in Seq(Statements)
    BY <2>3, <1>7
  <2> QED BY <2>1, <2>2, <2>3, <2>4
<1> HIDE DEF BR, BRL, BRLF, BRLFS, known, guarded
\* Whatever stands in BRL stands there in s.
<1>10. ASSUME NEW m \in DOMAIN BRL
       PROVE  s[m] = BRL[m] /\ m \in 1..Len(BRL)
  <2>1. m \in DOMAIN BRLF /\ BRLF[m] = BRL[m] /\ m \in 1..Len(BRL)
    BY <1>6, <1>9 DEF BRLF
  <2>2. m \in DOMAIN BRLFS /\ BRLFS[m] = BRLF[m]
    BY <1>7, <1>9, <2>1, ConcatLeft DEF BRLFS
  <2>3. s[m] = BRLFS[m]
    BY <1>1, <1>8, <1>9, <2>2, ConcatLeft
  <2> QED BY <2>1, <2>2, <2>3
<1>11. ASSUME NEW x \in known
       PROVE  /\ \E m \in DOMAIN BRL : BRL[m].op = "delete_records" /\ x \in BRL[m].rows
              /\ \E m \in DOMAIN BRL : BRL[m].op = "delete_links" /\ x \in BRL[m].rows
              /\ SourceOf[x] \in Guarded =>
                   \E m \in DOMAIN BRL : BRL[m].op = "delete_bronze" /\ x \in BRL[m].rows
  <2>1. x \in ids
    BY <1>2
  <2>2. \E m \in DOMAIN BRL : BRL[m].op = "delete_links" /\ x \in BRL[m].rows
    <3>1. 1 \in DOMAIN L /\ L[1].op = "delete_links" /\ x \in L[1].rows
      BY <2>1, <1>5
    <3>2. BRL[Len(BR) + 1] = L[1] /\ Len(BR) + 1 \in DOMAIN BRL
      BY <3>1, <1>5, <1>9 DEF BRL
    <3> QED BY <3>1, <3>2
  <2>3. ASSUME NEW m \in DOMAIN BR PROVE BRL[m] = BR[m] /\ m \in DOMAIN BRL
    BY <1>5, <1>9, ConcatLeft DEF BRL
  <2>4. \E m \in DOMAIN BR : BR[m].op = "delete_records" /\ x \in BR[m].rows
    <3>1. 1 \in DOMAIN R /\ R[1].op = "delete_records" /\ x \in R[1].rows
      BY <2>1, <1>4
    <3>2. BR[Len(B) + 1] = R[1] /\ Len(B) + 1 \in DOMAIN BR
      BY <3>1, <1>3, <1>4 DEF BR
    <3> QED BY <3>1, <3>2
  <2>5. ASSUME SourceOf[x] \in Guarded
        PROVE  \E m \in DOMAIN BR : BR[m].op = "delete_bronze" /\ x \in BR[m].rows
    <3>1. 1 \in DOMAIN B /\ B[1].op = "delete_bronze" /\ x \in B[1].rows
      BY <2>5, <1>3 DEF guarded
    <3>2. BR[1] = B[1] /\ 1 \in DOMAIN BR
      BY <3>1, <1>3, <1>4, ConcatLeft DEF BR
    <3> QED BY <3>1, <3>2
  <2> QED BY <2>2, <2>3, <2>4, <2>5
<1>12. ASSUME NEW n \in DOMAIN s
       PROVE  \/ s[n].op \in {"delete_bronze", "delete_records", "delete_links", "delete_facts",
                              "erase"}
              \/ s[n].op = "suppress" /\ s[n].rows = known /\ n > Len(BRL)
  <2>1. Len(BRL) \in Nat /\ Len(BRLF) = Len(BRL) + Len(F) /\ Len(F) \in Nat
    BY <1>6, <1>9 DEF BRLF
  <2>2. (n \in DOMAIN BRLFS /\ s[n] = BRLFS[n]) \/ s[n].op = "erase"
    BY <1>1, <1>8, <1>9, Concat
  <2>3. ASSUME n \in DOMAIN BRLFS
        PROVE  \/ n \in DOMAIN BRLF /\ BRLFS[n] = BRLF[n]
               \/ BRLFS[n].op = "suppress" /\ BRLFS[n].rows = known /\ n > Len(BRLF)
    BY <1>7, <1>9, <2>3, Concat DEF BRLFS
  <2>4. ASSUME NEW m \in DOMAIN BRLF
        PROVE  (m \in DOMAIN BRL /\ BRLF[m] = BRL[m]) \/ BRLF[m].op = "delete_facts"
    BY <1>6, <1>9, Concat DEF BRLF
  <2>5. ASSUME NEW m \in DOMAIN BRL
        PROVE  (m \in DOMAIN BR /\ BRL[m] = BR[m]) \/ BRL[m].op = "delete_links"
    BY <1>5, <1>9, Concat DEF BRL
  <2>6. ASSUME NEW m \in DOMAIN BR
        PROVE  BR[m].op = "delete_bronze" \/ BR[m].op = "delete_records"
    BY <1>3, <1>4, Concat DEF BR
  <2>7. n \in DOMAIN BRLF => BRLF[n].op \in {"delete_bronze", "delete_records", "delete_links",
                                             "delete_facts"}
    BY <2>4, <2>5, <2>6
  <2>8. n \in Nat
    BY <1>1, <1>8, <1>9
  <2> QED BY <2>1, <2>2, <2>3, <2>7, <2>8
<1>13. s \in Seq(Statements)
  BY <1>1, <1>8, <1>9
<1>14. ASSUME NEW n \in DOMAIN s, n > Len(BRL), NEW m \in DOMAIN BRL
       PROVE  m \in 1..(n - 1) /\ s[m] = BRL[m]
  <2>1. n \in Nat /\ Len(BRL) \in Nat
    BY <1>9, <1>13
  <2>2. s[m] = BRL[m] /\ m \in 1..Len(BRL)
    BY <1>10
  <2> QED BY <2>1, <2>2, <1>14
<1>15. ASSUME NEW n \in DOMAIN s, s[n].op = "suppress", NEW x \in s[n].rows
       PROVE  /\ \E m \in 1..(n - 1) : s[m].op = "delete_records" /\ x \in s[m].rows
              /\ \E m \in 1..(n - 1) : s[m].op = "delete_links" /\ x \in s[m].rows
              /\ SourceOf[x] \in Guarded =>
                   \E m \in 1..(n - 1) : s[m].op = "delete_bronze" /\ x \in s[m].rows
  <2>1. x \in known /\ n > Len(BRL)
    BY <1>12, <1>15
  <2> QED BY <2>1, <1>11, <1>14
<1> QED BY <1>12, <1>13, <1>15

----
(* The steps of a job through its plan *)

LEMMA AdvanceIs ==
  ASSUME TypeInv, NEW j \in Jobs, Advance(j)
  PROVE  /\ plan' \in [Jobs -> Seq(Statements)] /\ plan[j] # <<>>
         /\ \A i \in Jobs \ {j} : plan'[i] = plan[i]
         /\ \A n \in DOMAIN plan'[j] :
              n \in Nat /\ n + 1 \in DOMAIN plan[j] /\ plan'[j][n] = plan[j][n + 1]
         /\ UNCHANGED <<ops, crashes, reading, alone>>
<1>1. plan \in [Jobs -> Seq(Statements)] /\ plan[j] \in Seq(Statements) /\ plan[j] # <<>>
  BY DEF TypeInv, Advance
<1>2. plan' = [plan EXCEPT ![j] = Tail(plan[j])]
  BY DEF Advance
<1>3. Tail(plan[j]) \in Seq(Statements)
  BY <1>1
<1>4. plan'[j] = Tail(plan[j]) /\ \A i \in Jobs \ {j} : plan'[i] = plan[i]
  BY <1>1, <1>2
<1>5. plan' \in [Jobs -> Seq(Statements)]
  BY <1>1, <1>2, <1>3
<1>6. UNCHANGED <<ops, crashes, reading, alone>>
  BY DEF Advance
<1> QED BY <1>1, <1>4, <1>5, <1>6, Shift

\* Every step of a job through its plan, and its end, leaves of each plan what
\* was there.
LEMMA PlansShrink ==
  ASSUME TypeInv, NEW j \in Jobs, Advance(j) \/ Crash(j), NEW i \in Jobs,
         NEW n \in DOMAIN plan'[i]
  PROVE  \E m \in DOMAIN plan[i] : plan'[i][n] = plan[i][m]
<1>1. CASE Advance(j)
  BY <1>1, AdvanceIs
<1>2. CASE Crash(j)
  <2>1. plan' = [plan EXCEPT ![j] = <<>>] /\ plan \in [Jobs -> Seq(Statements)]
    BY <1>2 DEF Crash, TypeInv
  <2> QED BY <2>1
<1> QED BY <1>1, <1>2

\* The first statement of a plan, and its rows.
LEMMA FirstIs ==
  ASSUME TypeInv, NEW j \in Jobs, NEW op, Next1(j, op)
  PROVE  /\ plan[j] \in Seq(Statements) /\ plan[j] # <<>>
         /\ 1 \in DOMAIN plan[j] /\ plan[j][1].op = op /\ Rows(j) = plan[j][1].rows
         /\ Head(plan[j]) = plan[j][1]
         /\ op \in OfIds => Rows(j) \subseteq Ids
         /\ op = "verdicts" => Rows(j) \subseteq Band \X Verdicts
         /\ op = "facts" => Rows(j) \subseteq Ids \X Persons
         /\ op \in {"persons", "erase"} => Rows(j) \subseteq Persons
         /\ op = "links" => Rows(j) \subseteq Link /\ Head(plan[j]).seen \subseteq Link
<1>1. plan[j] # <<>> /\ Head(plan[j]).op = op
  BY DEF Next1
<1>2. /\ plan[j] \in Seq(Statements) /\ 1 \in DOMAIN plan[j]
      /\ Head(plan[j]) = plan[j][1] /\ plan[j][1] \in Statements
  BY <1>1, NextStatement
<1> QED BY <1>1, <1>2, StatementType DEF Rows

\* What comes before a statement is still to come, or it is what is done now.
LEMMA BeforeAdvance ==
  ASSUME TypeInv, NEW j \in Jobs, Advance(j), NEW n \in DOMAIN plan'[j], NEW op, NEW row,
         Before(j, n + 1, op, row)
  PROVE  Before(j, n, op, row)' \/ (plan[j][1].op = op /\ row \in plan[j][1].rows)
<1>1. /\ n \in Nat /\ plan' \in [Jobs -> Seq(Statements)]
      /\ \A k \in DOMAIN plan'[j] : plan'[j][k] = plan[j][k + 1]
  BY AdvanceIs
<1>2. PICK m \in 1..n : plan[j][m].op = op /\ row \in plan[j][m].rows
  BY <1>1 DEF Before
<1>3. CASE m = 1
  BY <1>2, <1>3
<1>4. CASE m # 1
  <2>1. m - 1 \in 1..(n - 1)
    BY <1>1, <1>4
  <2>2. m - 1 \in DOMAIN plan'[j] /\ (m - 1) + 1 = m
    <3>1. plan'[j] \in Seq(Statements) /\ n \in 1..Len(plan'[j])
      BY <1>1
    <3> QED BY <2>1, <3>1, <1>1
  <2>3. plan'[j][m - 1] = plan[j][m]
    BY <1>1, <2>2
  <2> QED BY <1>2, <2>1, <2>3 DEF Before
<1> QED BY <1>3, <1>4

----
(* The shape of the state *)

LEMMA InitInv == Init => Inv
<1> SUFFICES ASSUME Init PROVE Inv
  OBVIOUS
<1>1. MaxPerson \in Nat /\ MaxOps \in Nat /\ MaxCrashes \in Nat
  BY ResolutionAssumption
<1>2. TypeOK
  BY <1>1 DEF Init, TypeOK, Nobody, NoFact
<1>3. TypeInv
  <2>1. NotReading \in Readings
    BY <1>1 DEF NotReading, Readings, NoFact
  <2>2. <<>> \in Seq(Statements)
    OBVIOUS
  <2> QED BY <1>2, <2>1, <2>2 DEF Init, TypeInv
<1>4. \A j \in Jobs : plan[j] = <<>>
  BY DEF Init
<1>5. LinkInv
  BY <1>4 DEF Init, LinkInv, LinkPlans, AtMostOne, ActiveLinks
<1>6. PersonInv
  BY <1>4 DEF Init, PersonInv, PersonPlans, LinkedPersonExists
<1>7. BusyInv
  BY <1>4 DEF Init, BusyInv, NotReading
<1>8. ErasureInv /\ ForgottenInv
  BY DEF Init, ErasureInv, ForgottenInv
<1> QED BY <1>3, <1>5, <1>6, <1>7, <1>8 DEF Inv

\* A MERGE keeps one row per key.
LEMMA MergeType ==
  ASSUME links \subseteq Link, Keyed(links), NEW rows \in SUBSET Link, Keyed(rows)
  PROVE  MergeLinks(rows) \subseteq Link /\ Keyed(MergeLinks(rows))
<1>1. \A l, k \in Link : SameKey(l, k) => SameKey(k, l)
  BY DEF SameKey
<1>2. MergeLinks(rows) \subseteq Link
  BY DEF MergeLinks
<1>3. ASSUME NEW l \in MergeLinks(rows), NEW k \in MergeLinks(rows), SameKey(l, k)
      PROVE  l = k
  <2>1. SameKey(k, l)
    BY <1>1, <1>2, <1>3
  <2>2. l \in links \/ l \in rows
    BY DEF MergeLinks
  <2>3. k \in links \/ k \in rows
    BY DEF MergeLinks
  <2>4. l \in rows \/ ~\E i \in rows : SameKey(l, i)
    BY DEF MergeLinks
  <2>5. k \in rows \/ ~\E i \in rows : SameKey(k, i)
    BY DEF MergeLinks
  <2> QED BY <1>3, <2>1, <2>2, <2>3, <2>4, <2>5 DEF Keyed
<1> QED BY <1>2, <1>3 DEF Keyed

LEMMA ExecuteType ==
  ASSUME TypeInv, LinkInv, NEW j \in Jobs, Execute(j)
  PROVE  TypeInv' /\ Advance(j)
<1>1. Advance(j)
  BY DEF Execute, WriteBronze, WriteRecords, WriteVerdicts, WriteFacts, WritePersons, WriteLinks,
         DeleteBronze, DeleteRecords, DeleteLinks, DeleteFacts, Suppress, WriteTombstone
<1>2. /\ plan' \in [Jobs -> Seq(Statements)]
      /\ UNCHANGED <<ops, crashes, reading, alone>>
  BY <1>1, AdvanceIs
<1> USE DEF TypeInv, TypeOK
<1>3. MaxPerson \in Nat
  BY ResolutionAssumption
<1>4. CASE WriteBronze(j)
  <2>1. Rows(j) \subseteq Ids
    BY <1>4, FirstIs DEF WriteBronze, OfIds
  <2> QED BY <1>2, <1>4, <2>1 DEF WriteBronze
<1>5. CASE WriteRecords(j)
  <2>1. Rows(j) \subseteq Ids
    BY <1>5, FirstIs DEF WriteRecords, OfIds
  <2> QED BY <1>2, <1>5, <2>1 DEF WriteRecords, Allowed
<1>6. CASE WriteVerdicts(j)
  <2>1. Rows(j) \subseteq Band \X Verdicts
    BY <1>6, FirstIs DEF WriteVerdicts
  <2>2. ASSUME NEW b \in Band, \E a \in Rows(j) : a[1] = b
        PROVE  (CHOOSE a \in Rows(j) : a[1] = b)[2] \in Verdicts
    BY <2>1, <2>2
  <2>3. verdict' \in [Band -> Verdicts \cup {"none"}]
    BY <1>6, <2>2 DEF WriteVerdicts
  <2> QED BY <1>2, <1>6, <2>3 DEF WriteVerdicts
<1>7. CASE WriteFacts(j)
  <2>1. Rows(j) \subseteq Ids \X Persons
    BY <1>7, FirstIs DEF WriteFacts
  <2>2. ASSUME NEW x \in Ids, \E a \in Rows(j) : a[1] = x
        PROVE  (CHOOSE a \in Rows(j) : a[1] = x)[2] \in Persons
    BY <2>1, <2>2
  <2>3. Persons \subseteq 0..NoFact
    BY <1>3 DEF Persons, NoFact
  <2>4. fact' \in [Ids -> 0..NoFact]
    BY <1>7, <2>2, <2>3 DEF WriteFacts
  <2> QED BY <1>2, <1>7, <2>4 DEF WriteFacts
<1>8. CASE WritePersons(j)
  BY <1>2, <1>8 DEF WritePersons
<1>9. CASE WriteLinks(j)
  <2>1. Rows(j) \subseteq Link /\ Keyed(Rows(j))
    BY <1>9, FirstIs DEF WriteLinks, LinkInv, LinkPlans, GoodLinks
  <2>2. Keyed(links)
    BY DEF Keyed
  <2>3. links' \subseteq Link /\ Keyed(links')
    BY <1>9, <2>1, <2>2, MergeType DEF WriteLinks
  <2>4. stale' \subseteq Ids
    BY <1>9, <2>1 DEF WriteLinks, Link
  <2> QED BY <1>2, <1>9, <2>3, <2>4 DEF WriteLinks, Keyed
<1>10. CASE DeleteBronze(j)
  BY <1>2, <1>10 DEF DeleteBronze
<1>11. CASE DeleteRecords(j)
  BY <1>2, <1>11 DEF DeleteRecords
<1>12. CASE DeleteLinks(j)
  BY <1>2, <1>12 DEF DeleteLinks
<1>13. CASE DeleteFacts(j)
  <2>1. NoFact \in 0..NoFact
    BY <1>3 DEF NoFact
  <2>2. fact' \in [Ids -> 0..NoFact]
    BY <1>13, <2>1 DEF DeleteFacts
  <2> QED BY <1>2, <1>13, <2>2 DEF DeleteFacts
<1>14. CASE Suppress(j)
  <2>1. Rows(j) \subseteq Ids
    BY <1>14, FirstIs DEF Suppress, OfIds
  <2> QED BY <1>2, <1>14, <2>1 DEF Suppress
<1>15. CASE WriteTombstone(j)
  BY <1>2, <1>15 DEF WriteTombstone
<1>16. TypeInv'
  BY <1>4, <1>5, <1>6, <1>7, <1>8, <1>9, <1>10, <1>11, <1>12, <1>13, <1>14, <1>15 DEF Execute
<1> QED BY <1>1, <1>16

----
(* How the jobs set out *)

LEMMA SetOutIs ==
  ASSUME TypeInv, NEW j \in Jobs, SetOut(j)
  PROVE  /\ plan[j] = <<>> /\ (j \in Resolvers => ~reading[j].busy)
         /\ alone' \subseteq {j} /\ (j \in alone' => Others(j) = {})
         /\ UNCHANGED <<tables, crashes, stale, forgotten>>
BY DEF SetOut, Busy

\* A job that sets out with a plan.
LEMMA PlannedType ==
  ASSUME TypeInv, NEW o \in Operators, SetOut(o), NEW s \in Seq(Statements),
         plan' = [plan EXCEPT ![o] = s], ops' \in 0..MaxOps, UNCHANGED reading
  PROVE  /\ TypeInv'
         /\ plan'[o] = s /\ \A i \in Jobs \ {o} : plan'[i] = plan[i]
<1>1. o \in Jobs
  BY DEF Jobs
<1>2. /\ plan' \in [Jobs -> Seq(Statements)]
      /\ plan'[o] = s /\ \A i \in Jobs \ {o} : plan'[i] = plan[i]
  BY <1>1 DEF TypeInv
<1>3. alone' \subseteq Jobs /\ UNCHANGED <<tables, crashes, stale, forgotten>>
  BY <1>1, SetOutIs
<1>4. TypeOK'
  BY <1>3 DEF TypeInv, TypeOK, tables
<1> QED BY <1>2, <1>4 DEF TypeInv

LEMMA ScrapeIs ==
  ASSUME TypeInv, NEW o \in Operators, NEW x \in Ids, Scrape(o, x)
  PROVE  /\ TypeInv'
         /\ \A i \in Jobs \ {o} : plan'[i] = plan[i]
         /\ \A n \in DOMAIN plan'[o] : plan'[o][n].op \in {"bronze", "records"}
         /\ SetOut(o) /\ UNCHANGED reading
<1> DEFINE B == Statement("bronze", {x})
           R == Statement("records", {x} \cap {y \in Ids : SourceOf[y] = Showcase})
<1>1. SetOut(o) /\ plan' = [plan EXCEPT ![o] = B \o R] /\ UNCHANGED <<ops, reading>>
  BY DEF Scrape
<1>2. B \in Seq(Statements) /\ \A n \in DOMAIN B : B[n].op = "bronze"
  BY StatementIs DEF OfIds
<1>3. R \in Seq(Statements) /\ \A n \in DOMAIN R : R[n].op = "records"
  <2>1. {x} \cap {y \in Ids : SourceOf[y] = Showcase} \subseteq Ids
    OBVIOUS
  <2> QED BY <2>1, StatementIs DEF OfIds
<1> HIDE DEF B, R
<1>4. B \o R \in Seq(Statements)
  BY <1>2, <1>3
<1>5. \A n \in DOMAIN (B \o R) : (B \o R)[n].op \in {"bronze", "records"}
  BY <1>2, <1>3, Concat
<1>6. ops' \in 0..MaxOps
  BY <1>1 DEF TypeInv, TypeOK
<1> QED BY <1>1, <1>4, <1>5, <1>6, PlannedType

LEMMA OpsGrow ==
  ASSUME TypeInv, ops < MaxOps, ops' = ops + 1
  PROVE  ops' \in 0..MaxOps
BY ResolutionAssumption DEF TypeInv, TypeOK

\* The two rows of an unmerge.
Retracted(link) == [link EXCEPT !.active = FALSE]
Moved(link, to) == NewLink(link.id, to, "human_review")

LEMMA UnmergeIs ==
  ASSUME TypeInv, NEW o \in Operators, NEW link \in links, NEW to \in Persons,
         Unmerge(o, link, to)
  PROVE  /\ TypeInv'
         /\ \A i \in Jobs \ {o} : plan'[i] = plan[i]
         /\ \A n \in DOMAIN plan'[o] :
              /\ plan'[o][n].op = "links"
              /\ plan'[o][n].rows = {Retracted(link), Moved(link, to)}
              /\ plan'[o][n].seen = ActiveLinks(link.id)
         /\ link \in Link /\ link.active /\ to # link.person
         /\ SetOut(o) /\ UNCHANGED reading
<1> DEFINE rows == {Retracted(link), Moved(link, to)}
           s == LinkStatement(rows)
<1>1. /\ SetOut(o) /\ plan' = [plan EXCEPT ![o] = s] /\ UNCHANGED reading
      /\ ops < MaxOps /\ ops' = ops + 1 /\ link.active /\ to # link.person
  BY DEF Unmerge, Retracted, Moved
<1>2. links \subseteq Link /\ link \in Link
  BY DEF TypeInv, TypeOK
<1>3. Retracted(link) \in Link /\ Retracted(link).id = link.id
  BY <1>2 DEF Retracted, Link
<1>4. Moved(link, to) \in Link /\ Moved(link, to).id = link.id
  BY <1>2 DEF Moved, NewLink, Link, Methods
<1>5. UNION {ActiveLinks(l.id) : l \in rows} = ActiveLinks(link.id)
  BY <1>3, <1>4
<1>6. rows \in SUBSET Link
  BY <1>3, <1>4
<1> HIDE DEF rows
<1>7. /\ s \in Seq(Statements)
      /\ \A n \in DOMAIN s :
           s[n].op = "links" /\ s[n].rows = rows /\ s[n].seen = ActiveLinks(link.id)
  BY <1>2, <1>5, <1>6, LinkStatementIs
<1> HIDE DEF s
<1>8. ops' \in 0..MaxOps
  BY <1>1, OpsGrow
<1>9. TypeInv' /\ plan'[o] = s /\ \A i \in Jobs \ {o} : plan'[i] = plan[i]
  BY <1>1, <1>7, <1>8, PlannedType
<1> QED BY <1>1, <1>2, <1>7, <1>9 DEF rows

LEMMA EraseIs ==
  ASSUME TypeInv, NEW o \in Operators, NEW p \in Persons, Erase(o, p)
  PROVE  /\ TypeInv'
         /\ \A i \in Jobs \ {o} : plan'[i] = plan[i]
         /\ plan'[o] = ErasurePlan(p)
         /\ SetOut(o) /\ UNCHANGED reading
<1>1. /\ SetOut(o) /\ plan' = [plan EXCEPT ![o] = ErasurePlan(p)] /\ UNCHANGED reading
      /\ ops < MaxOps /\ ops' = ops + 1
  BY DEF Erase
<1>2. links \subseteq Link
  BY DEF TypeInv, TypeOK
<1>3. ErasurePlan(p) \in Seq(Statements)
  BY <1>2, ErasurePlanIs
<1>4. ops' \in 0..MaxOps
  BY <1>1, OpsGrow
<1> QED BY <1>1, <1>3, <1>4, PlannedType

LEMMA StartIs ==
  ASSUME TypeInv, NEW e \in Resolvers, StartResolving(e)
  PROVE  /\ TypeInv' /\ SetOut(e) /\ UNCHANGED plan
         /\ reading'[e].record = record /\ reading'[e].busy
         /\ \A i \in Resolvers \ {e} : reading'[i] = reading[i]
<1> DEFINE r == [bronze |-> bronze, fact |-> fact, record |-> record, busy |-> TRUE]
<1>1. SetOut(e) /\ reading' = [reading EXCEPT ![e] = r] /\ UNCHANGED <<ops, plan>>
  BY DEF StartResolving, BeginReading
<1>2. r \in Readings
  BY DEF TypeInv, TypeOK, Readings
<1>3. e \in Jobs
  BY DEF Jobs
<1>4. alone' \subseteq Jobs /\ UNCHANGED <<tables, crashes, stale, forgotten>>
  BY <1>1, <1>3, SetOutIs
<1>5. TypeOK'
  BY <1>1, <1>4 DEF TypeInv, TypeOK, tables
<1>6. /\ reading' \in [Resolvers -> Readings] /\ reading'[e] = r
      /\ \A i \in Resolvers \ {e} : reading'[i] = reading[i]
  BY <1>1, <1>2 DEF TypeInv
<1> QED BY <1>1, <1>5, <1>6 DEF TypeInv

\* A run of a resolver, with what it has come to.
LEMMA RunIs ==
  ASSUME TypeInv, NEW e \in Resolvers, Resolve(e)
  PROVE  \E run, fresh : \E answers \in SUBSET (Band \X Verdicts) :
           /\ RunOK(run, fresh) /\ run.views = Views(e)
           /\ \A l \in links : l.active => l.id \in DOMAIN run.linked
           /\ plan' = [plan EXCEPT ![e] = ResolutionPlan(run, fresh, answers)]
<1> DEFINE asked(linked) == Asked(Views(e), DOMAIN linked)
<1>1. PICK linked \in LinkMaps : \E matched \in SUBSET asked(linked) :
        \E fresh \in Allocations(RunOf(e, linked, matched)) :
          plan' = [plan EXCEPT ![e] = ResolutionPlan(RunOf(e, linked, matched), fresh,
                                                     Answers(asked(linked), matched))]
  BY DEF Resolve
<1>2. PICK matched \in SUBSET asked(linked) :
        \E fresh \in Allocations(RunOf(e, linked, matched)) :
          plan' = [plan EXCEPT ![e] = ResolutionPlan(RunOf(e, linked, matched), fresh,
                                                     Answers(asked(linked), matched))]
  BY <1>1
<1> DEFINE run == RunOf(e, linked, matched)
           answers == Answers(asked(linked), matched)
<1>3. PICK fresh \in Allocations(run) : plan' = [plan EXCEPT ![e] = ResolutionPlan(run, fresh, answers)]
  BY <1>2
<1>4. links \subseteq Link /\ record \subseteq Ids /\ reading[e] \in Readings
  BY DEF TypeInv, TypeOK
<1>5. DOMAIN linked = {l.id : l \in {k \in links : k.active}}
  BY DEF LinkMaps
<1>6. linked \in [DOMAIN linked -> {l.person : l \in links}]
  BY DEF LinkMaps
<1>7. DOMAIN linked \subseteq Ids /\ linked \in [DOMAIN linked -> Persons]
  <2>1. {l.person : l \in links} \subseteq Persons
    BY <1>4 DEF Link
  <2>2. DOMAIN linked \subseteq Ids
    BY <1>4, <1>5 DEF Link
  <2> QED BY <1>6, <2>1, <2>2
<1>8. reading[e].record \subseteq Ids /\ reading[e].bronze \subseteq Ids
      /\ reading[e].fact \in [Ids -> 0..NoFact]
  BY <1>4 DEF Readings
<1>9. Views(e) \subseteq Ids /\ Normalized(e) \subseteq Ids
  BY <1>8 DEF Views, Normalized
<1>10. asked(linked) \subseteq Band /\ \A b \in asked(linked) : b \subseteq Views(e)
  BY DEF Asked
<1>11. answers \in SUBSET (Band \X Verdicts)
  BY <1>10 DEF Answers, Verdicts
<1>12. \A m \in run.matches : m \subseteq Views(e)
  BY <1>10 DEF RunOf
<1>13. /\ run.views = Views(e) /\ run.records = Normalized(e) /\ run.linked = linked
       /\ run.fact = reading[e].fact
  BY DEF RunOf
<1> HIDE DEF run, answers
<1>14. RunOK(run, fresh)
  BY <1>3, <1>7, <1>8, <1>9, <1>12, <1>13 DEF RunOK
<1>15. \A l \in links : l.active => l.id \in DOMAIN run.linked
  BY <1>5, <1>13
<1> QED BY <1>3, <1>11, <1>13, <1>14, <1>15

\* Its links: one to an identity in view, none of which has an active link, and
\* each after the row of its person.
LEMMA ResolveIs ==
  ASSUME TypeInv, NEW e \in Resolvers, Resolve(e)
  PROVE  /\ TypeInv'
         /\ \A i \in Jobs \ {e} : plan'[i] = plan[i]
         /\ \A i \in Resolvers \ {e} : reading'[i] = reading[i]
         /\ reading'[e] = NotReading /\ reading[e].busy
         /\ UNCHANGED <<tables, ghosts>>
         /\ \A n \in DOMAIN plan'[e] :
              /\ plan'[e][n].op \in {"verdicts", "facts", "persons", "links", "records"}
              /\ plan'[e][n].op = "links" =>
                   /\ plan'[e][n].rows \subseteq Link
                   /\ \A l \in plan'[e][n].rows :
                        /\ l.id \in Views(e) /\ ActiveLinks(l.id) = {} /\ l.active
                        /\ \E m \in 1..(n - 1) :
                             plan'[e][m].op = "persons" /\ l.person \in plan'[e][m].rows
                   /\ \A l, k \in plan'[e][n].rows : l.id = k.id => l = k
                   /\ plan'[e][n].seen = {}
<1>1. PICK run, fresh : \E answers \in SUBSET (Band \X Verdicts) :
        /\ RunOK(run, fresh) /\ run.views = Views(e)
        /\ \A l \in links : l.active => l.id \in DOMAIN run.linked
        /\ plan' = [plan EXCEPT ![e] = ResolutionPlan(run, fresh, answers)]
  BY RunIs
<1>2. PICK answers \in SUBSET (Band \X Verdicts) :
        /\ RunOK(run, fresh) /\ run.views = Views(e)
        /\ \A l \in links : l.active => l.id \in DOMAIN run.linked
        /\ plan' = [plan EXCEPT ![e] = ResolutionPlan(run, fresh, answers)]
  BY <1>1
<1> DEFINE s == ResolutionPlan(run, fresh, answers)
           new == NewLinks(run, fresh)
<1>3. links \subseteq Link /\ e \in Jobs
  BY DEF TypeInv, TypeOK, Jobs
<1>4. /\ s \in Seq(Statements)
      /\ \A n \in DOMAIN s :
           /\ s[n].op \in {"verdicts", "facts", "persons", "links", "records"}
           /\ s[n].op = "links" =>
                /\ s[n].rows = new
                /\ s[n].seen = UNION {ActiveLinks(l.id) : l \in new}
                /\ \A l \in new : \E m \in 1..(n - 1) :
                     s[m].op = "persons" /\ l.person \in s[m].rows
  BY <1>2, <1>3, ResolutionPlanIs
<1>5. \A l \in new : l \in Link /\ l.active /\ l.id \in run.views \ DOMAIN run.linked
  BY <1>2, NewLinkIs
<1>6. \A l \in new : ActiveLinks(l.id) = {}
  BY <1>2, <1>5 DEF ActiveLinks
<1>7. \A l, k \in new : l.id = k.id => l = k
  BY NewLinkOnce
<1>8. UNION {ActiveLinks(l.id) : l \in new} = {}
  BY <1>6
<1> HIDE DEF s, new
<1>9. /\ plan' \in [Jobs -> Seq(Statements)] /\ plan'[e] = s
      /\ \A i \in Jobs \ {e} : plan'[i] = plan[i]
  BY <1>2, <1>3, <1>4 DEF TypeInv, s
<1>10. /\ reading[e].busy /\ reading' = [reading EXCEPT ![e] = NotReading]
       /\ UNCHANGED <<crashes, tables, ops, ghosts>>
  BY DEF Resolve, EndReading
<1>11. NotReading \in Readings
  BY ResolutionAssumption DEF NotReading, Readings, NoFact
<1>12. /\ reading' \in [Resolvers -> Readings] /\ reading'[e] = NotReading
       /\ \A i \in Resolvers \ {e} : reading'[i] = reading[i]
  BY <1>10, <1>11 DEF TypeInv
<1>13. TypeInv'
  BY <1>9, <1>10, <1>12 DEF TypeInv, TypeOK, tables, ghosts
<1>14. ASSUME NEW n \in DOMAIN s, s[n].op = "links"
       PROVE  /\ s[n].rows \subseteq Link
              /\ \A l \in s[n].rows :
                   /\ l.id \in Views(e) /\ ActiveLinks(l.id) = {} /\ l.active
                   /\ \E m \in 1..(n - 1) : s[m].op = "persons" /\ l.person \in s[m].rows
              /\ \A l, k \in s[n].rows : l.id = k.id => l = k
              /\ s[n].seen = {}
  <2>1. /\ s[n].rows = new /\ s[n].seen = {}
        /\ \A l \in new : \E m \in 1..(n - 1) : s[m].op = "persons" /\ l.person \in s[m].rows
    BY <1>4, <1>8, <1>14
  <2>2. \A l \in new : l \in Link /\ l.active /\ l.id \in Views(e) /\ ActiveLinks(l.id) = {}
    BY <1>2, <1>5, <1>6
  <2> QED BY <2>1, <2>2, <1>7
<1>15. \A n \in DOMAIN s : s[n].op \in {"verdicts", "facts", "persons", "links", "records"}
  BY <1>4
<1>16. UNCHANGED <<tables, ghosts>>
  BY <1>10
<1>17. plan'[e] = s
  BY <1>9
<1>18. \A n \in DOMAIN plan'[e] :
         plan'[e][n].op \in {"verdicts", "facts", "persons", "links", "records"}
  BY <1>15, <1>17
<1>19. ASSUME NEW n \in DOMAIN plan'[e], plan'[e][n].op = "links"
       PROVE  /\ plan'[e][n].rows \subseteq Link
              /\ \A l \in plan'[e][n].rows :
                   /\ l.id \in Views(e) /\ ActiveLinks(l.id) = {} /\ l.active
                   /\ \E m \in 1..(n - 1) :
                        plan'[e][m].op = "persons" /\ l.person \in plan'[e][m].rows
              /\ \A l, k \in plan'[e][n].rows : l.id = k.id => l = k
              /\ plan'[e][n].seen = {}
  BY <1>14, <1>17, <1>19
<1> QED BY <1>9, <1>10, <1>12, <1>13, <1>16, <1>18, <1>19

LEMMA CrashIs ==
  ASSUME TypeInv, NEW j \in Jobs, Crash(j)
  PROVE  /\ TypeInv' /\ plan'[j] = <<>> /\ \A i \in Jobs \ {j} : plan'[i] = plan[i]
         /\ UNCHANGED <<tables, reading, ghosts>>
<1>1. /\ crashes < MaxCrashes /\ crashes' = crashes + 1 /\ plan' = [plan EXCEPT ![j] = <<>>]
      /\ UNCHANGED <<tables, ops, reading, ghosts>>
  BY DEF Crash
<1>2. crashes' \in 0..MaxCrashes
  BY <1>1, ResolutionAssumption DEF TypeInv, TypeOK
<1>3. <<>> \in Seq(Statements)
  OBVIOUS
<1>4. /\ plan' \in [Jobs -> Seq(Statements)] /\ plan'[j] = <<>>
      /\ \A i \in Jobs \ {j} : plan'[i] = plan[i]
  BY <1>1, <1>3 DEF TypeInv
<1> QED BY <1>1, <1>2, <1>4 DEF TypeInv, TypeOK, tables, ghosts

LEMMA Steps ==
  ASSUME TypeInv, [Next]_vars
  PROVE  \/ \E e \in Resolvers : StartResolving(e)
         \/ \E e \in Resolvers : Resolve(e)
         \/ \E o \in Operators : \E x \in Ids : Scrape(o, x)
         \/ \E o \in Operators : \E link \in links : \E to \in Persons : Unmerge(o, link, to)
         \/ \E o \in Operators : \E p \in Persons : Erase(o, p)
         \/ \E j \in Jobs : Execute(j)
         \/ \E j \in Jobs : Crash(j)
         \/ UNCHANGED vars
<1>1. {k.person : k \in links} \subseteq Persons
  BY DEF TypeInv, TypeOK, Link
<1>2. OneOf(Unused) \subseteq Persons
  BY DEF OneOf, Unused
<1>3. CASE \E e \in Resolvers : StartResolving(e) \/ Resolve(e)
  BY <1>3
<1>4. CASE \E o \in Operators : Operate(o)
  BY <1>1, <1>2, <1>4 DEF Operate
<1>5. CASE \E j \in Jobs : Execute(j) \/ Crash(j)
  BY <1>5
<1> QED BY <1>3, <1>4, <1>5 DEF Next

LEMMA TypeStep ==
  ASSUME TypeInv, LinkInv, [Next]_vars
  PROVE  TypeInv'
<1>1. CASE UNCHANGED vars
  BY <1>1 DEF vars, tables, ghosts, TypeInv, TypeOK
<1> QED BY <1>1, Steps, StartIs, ResolveIs, ScrapeIs, UnmergeIs, EraseIs, ExecuteType, CrashIs

----
(* Links *)

LEMMA LinkPlansKept ==
  ASSUME NEW i \in Jobs, LinkPlans(i), stale \subseteq stale', UNCHANGED forgotten,
         \A n \in DOMAIN plan'[i] : \E m \in DOMAIN plan[i] : plan'[i][n] = plan[i][m]
  PROVE  LinkPlans(i)'
<1> SUFFICES ASSUME NEW n \in DOMAIN plan'[i], plan'[i][n].op = "links"
             PROVE  GoodLinks(plan[i][n])' /\ (i \in Resolvers => plan'[i][n].seen = {})
  BY DEF LinkPlans
<1>1. PICK m \in DOMAIN plan[i] : plan'[i][n] = plan[i][m]
  OBVIOUS
<1>2. GoodLinks(plan[i][m]) /\ (i \in Resolvers => plan[i][m].seen = {})
  BY <1>1 DEF LinkPlans
<1> QED BY <1>1, <1>2 DEF GoodLinks, After

LEMMA LinkPlansSame ==
  ASSUME NEW i \in Jobs, LinkPlans(i), UNCHANGED <<stale, forgotten>>, plan'[i] = plan[i]
  PROVE  LinkPlans(i)'
BY LinkPlansKept

\* What an unmerge leaves of the links of its identity: the new one.
LEMMA UnmergePlans ==
  ASSUME Inv, NEW o \in Operators, NEW link \in links, NEW to \in Persons,
         Unmerge(o, link, to)
  PROVE  LinkPlans(o)'
<1> DEFINE old == Retracted(link)
           new == Moved(link, to)
<1>1. TypeInv /\ LinkInv /\ ForgottenInv
  BY DEF Inv
<1>2. /\ \A n \in DOMAIN plan'[o] :
           /\ plan'[o][n].op = "links"
           /\ plan'[o][n].rows = {old, new}
           /\ plan'[o][n].seen = ActiveLinks(link.id)
      /\ link \in Link /\ link.active /\ to # link.person /\ SetOut(o)
  BY <1>1, UnmergeIs
<1>3. UNCHANGED <<stale, forgotten>>
  BY <1>2 DEF SetOut
<1>4. /\ old.id = link.id /\ old.person = link.person /\ old.method = link.method /\ ~old.active
      /\ new.id = link.id /\ new.person = to
  BY <1>2 DEF Retracted, Moved, NewLink, Link
<1>5. Keyed({old, new})
  BY <1>2, <1>4 DEF Keyed, SameKey
<1>6. ASSUME link.id \notin stale
      PROVE  \A l \in ActiveLinks(link.id) : SameKey(l, old)
  <2>1. link \in ActiveLinks(link.id) /\ link.id \in Ids
    BY <1>2 DEF ActiveLinks, Link
  <2>2. \A l \in ActiveLinks(link.id) : l = link
    BY <1>1, <1>6, <2>1 DEF LinkInv, AtMostOne
  <2> QED BY <1>4, <2>2 DEF SameKey
<1>7. link.id \notin forgotten
  BY <1>1 DEF ForgottenInv
<1>8. o \notin Resolvers
  BY ResolutionAssumption
<1> HIDE DEF old, new
<1>9. ASSUME NEW n \in DOMAIN plan'[o]
      PROVE  GoodLinks(plan[o][n])'
  <2> DEFINE st == plan'[o][n]
  <2>1. st.rows = {old, new} /\ st.seen = ActiveLinks(link.id)
    BY <1>2
  <2> HIDE DEF st
  <2>2. \A l \in st.rows : l.id = link.id
    BY <1>4, <2>1
  <2>3. link.id \notin stale => AtMostOne(After(st, link.id))
    <3>1. link.id \notin stale => {l \in st.seen : l.id = link.id
                                     /\ ~\E k \in st.rows : SameKey(l, k)} = {}
      BY <1>6, <2>1
    <3>2. {k \in st.rows : k.id = link.id /\ k.active} \subseteq {new}
      BY <1>4, <2>1
    <3> QED BY <3>1, <3>2 DEF After, AtMostOne
  <2>4. /\ Keyed(st.rows)
        /\ \A l \in st.rows : l.id \notin stale' => AtMostOne(After(st, l.id))
        /\ \A l \in st.rows : l.id \notin forgotten'
    BY <1>3, <1>5, <1>7, <2>1, <2>2, <2>3
  <2> QED BY <2>4 DEF GoodLinks, After, Keyed, AtMostOne, st
<1> QED BY <1>8, <1>9 DEF LinkPlans

\* What a run leaves of the links of an identity: the one it adds.
LEMMA ResolvePlans ==
  ASSUME Inv, NEW e \in Resolvers, Resolve(e)
  PROVE  LinkPlans(e)'
<1>1. TypeInv /\ LinkInv /\ ForgottenInv
  BY DEF Inv
<1>2. UNCHANGED <<stale, forgotten>>
  BY <1>1, ResolveIs DEF ghosts
<1>3. \A x \in Views(e) : x \notin forgotten
  BY <1>1 DEF ForgottenInv, Views, Normalized
<1> SUFFICES ASSUME NEW n \in DOMAIN plan'[e], plan'[e][n].op = "links"
             PROVE  GoodLinks(plan[e][n])' /\ plan'[e][n].seen = {}
  BY DEF LinkPlans
<1> DEFINE st == plan'[e][n]
<1>4. /\ \A l \in st.rows : l.id \in Views(e)
      /\ \A l, k \in st.rows : l.id = k.id => l = k
      /\ st.seen = {}
  BY <1>1, ResolveIs
<1> HIDE DEF st
<1>5. \A x : AtMostOne(After(st, x))
  BY <1>4 DEF AtMostOne, After
<1>6. Keyed(st.rows)
  BY <1>4 DEF Keyed, SameKey
<1>7. /\ \A l \in st.rows : l.id \notin stale' => AtMostOne(After(st, l.id))
      /\ \A l \in st.rows : l.id \notin forgotten'
  BY <1>2, <1>3, <1>4, <1>5
<1> QED BY <1>4, <1>6, <1>7 DEF GoodLinks, After, Keyed, AtMostOne, st

\* Nobody else is under way when a job that ran alone suppresses.
LEMMA AloneSuppress ==
  ASSUME Inv, NEW j \in Jobs, Suppress(j), j \in alone
  PROVE  /\ \A i \in Jobs \ {j} : plan[i] = <<>>
         /\ \A n \in DOMAIN plan[j] : plan[j][n].op \notin {"bronze", "records", "links"}
         /\ \A e \in Resolvers : reading[e] = NotReading
<1>1. TypeInv /\ BusyInv /\ ErasureInv
  BY DEF Inv
<1>2. plan[j] # <<>> /\ 1 \in DOMAIN plan[j] /\ plan[j][1].op = "suppress"
  BY <1>1, FirstIs DEF Suppress
<1>3. Others(j) = {}
  BY <1>1, <1>2 DEF BusyInv, Busy
<1>4. \A i \in Jobs \ {j} : ~Busy(i)
  BY <1>3 DEF Others
<1>5. \A n \in DOMAIN plan[j] : plan[j][n].op \notin {"bronze", "records", "links"}
  BY <1>1, <1>2 DEF ErasureInv, ErasurePlans
<1>6. ASSUME NEW e \in Resolvers PROVE reading[e] = NotReading
  <2>1. ~reading[e].busy
    BY <1>1, <1>2, <1>4 DEF BusyInv, Busy, Jobs
  <2> QED BY <1>1, <2>1 DEF BusyInv
<1> QED BY <1>4, <1>5, <1>6 DEF Busy

LEMMA LinkPlansStep ==
  ASSUME Inv, [Next]_vars, NEW i \in Jobs
  PROVE  LinkPlans(i)'
<1>1. TypeInv /\ LinkPlans(i)
  BY DEF Inv, LinkInv
<1>2. ASSUME NEW e \in Resolvers, StartResolving(e)
      PROVE  LinkPlans(i)'
  BY <1>1, <1>2, StartIs, LinkPlansSame DEF SetOut
<1>3. ASSUME NEW e \in Resolvers, Resolve(e)
      PROVE  LinkPlans(i)'
  BY <1>1, <1>3, ResolveIs, ResolvePlans, LinkPlansSame DEF ghosts
<1>4. ASSUME NEW o \in Operators, NEW x \in Ids, Scrape(o, x)
      PROVE  LinkPlans(i)'
  <2>1. CASE i = o
    <3>1. \A n \in DOMAIN plan'[o] : plan'[o][n].op \in {"bronze", "records"}
      BY <1>1, <1>4, ScrapeIs
    <3> QED BY <2>1, <3>1 DEF LinkPlans
  <2>2. CASE i # o
    BY <1>1, <1>4, <2>2, ScrapeIs, LinkPlansSame DEF SetOut
  <2> QED BY <2>1, <2>2
<1>5. ASSUME NEW o \in Operators, NEW link \in links, NEW to \in Persons, Unmerge(o, link, to)
      PROVE  LinkPlans(i)'
  BY <1>1, <1>5, UnmergeIs, UnmergePlans, LinkPlansSame DEF SetOut
<1>6. ASSUME NEW o \in Operators, NEW p \in Persons, Erase(o, p)
      PROVE  LinkPlans(i)'
  <2>1. CASE i = o
    <3>1. plan'[o] = ErasurePlan(p) /\ links \subseteq Link
      BY <1>1, <1>6, EraseIs DEF TypeInv, TypeOK
    <3>2. \A n \in DOMAIN plan'[o] : plan'[o][n].op # "links"
      BY <3>1, ErasurePlanIs
    <3> QED BY <2>1, <3>2 DEF LinkPlans
  <2>2. CASE i # o
    BY <1>1, <1>6, <2>2, EraseIs, LinkPlansSame DEF SetOut
  <2> QED BY <2>1, <2>2
<1>7. ASSUME NEW j \in Jobs, Execute(j)
      PROVE  LinkPlans(i)'
  <2>1. Advance(j)
    BY <1>1, <1>7, ExecuteType DEF Inv
  <2>2. \A n \in DOMAIN plan'[i] : \E m \in DOMAIN plan[i] : plan'[i][n] = plan[i][m]
    BY <1>1, <2>1, PlansShrink
  <2>3. CASE Suppress(j) /\ j \in alone
    <3>1. \A n \in DOMAIN plan'[i] : plan'[i][n].op # "links"
      BY <2>2, <2>3, AloneSuppress
    <3> QED BY <3>1 DEF LinkPlans
  <2>4. CASE ~(Suppress(j) /\ j \in alone)
    <3>1. stale \subseteq stale' /\ UNCHANGED forgotten
      BY <1>7, <2>4 DEF Execute, WriteBronze, WriteRecords, WriteVerdicts, WriteFacts,
         WritePersons, WriteLinks, DeleteBronze, DeleteRecords, DeleteLinks, DeleteFacts,
         Suppress, WriteTombstone
    <3> QED BY <1>1, <2>2, <3>1, LinkPlansKept
  <2> QED BY <2>3, <2>4
<1>8. ASSUME NEW j \in Jobs, Crash(j)
      PROVE  LinkPlans(i)'
  <2>1. \A n \in DOMAIN plan'[i] : \E m \in DOMAIN plan[i] : plan'[i][n] = plan[i][m]
    BY <1>1, <1>8, PlansShrink
  <2> QED BY <1>1, <1>8, <2>1, CrashIs, LinkPlansKept DEF ghosts
<1>9. CASE UNCHANGED vars
  BY <1>1, <1>9, LinkPlansSame DEF vars, ghosts
<1> QED BY <1>1, <1>2, <1>3, <1>4, <1>5, <1>6, <1>7, <1>8, <1>9, Steps

\* Writing links of an identity that has not changed leaves what was planned.
LEMMA WriteLinksIs ==
  ASSUME Inv, NEW j \in Jobs, WriteLinks(j), NEW x \in Ids, x \notin stale'
  PROVE  \/ ActiveLinks(x)' = ActiveLinks(x)
         \/ /\ \E l \in Rows(j) : l.id = x
            /\ ActiveLinks(x) = {l \in Head(plan[j]).seen : l.id = x}
            /\ ActiveLinks(x)' = After(plan[j][1], x)
<1> DEFINE st == plan[j][1]
<1>1. TypeInv /\ LinkPlans(j)
  BY DEF Inv, LinkInv
<1>2. /\ st.op = "links" /\ Rows(j) = st.rows /\ Head(plan[j]) = st /\ 1 \in DOMAIN plan[j]
      /\ st.rows \subseteq Link
  BY <1>1, FirstIs DEF WriteLinks
<1>3. links' = MergeLinks(st.rows)
  BY <1>2 DEF WriteLinks
<1>4. stale' = stale \cup {y \in {l.id : l \in st.rows} : ActiveLinks(y) # {l \in st.seen : l.id = y}}
  BY <1>2 DEF WriteLinks
<1> HIDE DEF st
<1>5. ActiveLinks(x)' = {l \in links' : l.id = x /\ l.active}
  BY DEF ActiveLinks
<1>6. CASE \E l \in st.rows : l.id = x
  <2>1. ActiveLinks(x) = {l \in st.seen : l.id = x}
    BY <1>4, <1>6
  <2>2. {l \in links : l.id = x /\ l.active} = {l \in st.seen : l.id = x}
    BY <2>1 DEF ActiveLinks
  <2>3. ActiveLinks(x)' = After(st, x)
    <3>1. ASSUME NEW l \in ActiveLinks(x)' PROVE l \in After(st, x)
      <4>1. l \in links' /\ l.id = x /\ l.active
        BY <1>5, <3>1
      <4>2. (l \in links /\ ~\E k \in st.rows : SameKey(l, k)) \/ l \in st.rows
        BY <1>3, <4>1 DEF MergeLinks
      <4>3. l \in links => l \in st.seen
        BY <2>2, <4>1
      <4> QED BY <4>1, <4>2, <4>3 DEF After
    <3>2. ASSUME NEW l \in After(st, x) PROVE l \in ActiveLinks(x)'
      <4>1. CASE l \in st.seen /\ l.id = x /\ ~\E k \in st.rows : SameKey(l, k)
        <5>1. l \in links /\ l.active
          BY <2>2, <4>1
        <5>2. l \in links'
          BY <1>3, <4>1, <5>1 DEF MergeLinks
        <5> QED BY <1>5, <4>1, <5>1, <5>2
      <4>2. CASE l \in st.rows /\ l.id = x /\ l.active
        <5>1. l \in links'
          BY <1>3, <4>2 DEF MergeLinks
        <5> QED BY <1>5, <4>2, <5>1
      <4> QED BY <3>2, <4>1, <4>2 DEF After
    <3> QED BY <3>1, <3>2
  <2> QED BY <1>2, <1>6, <2>1, <2>3 DEF st
<1>7. CASE \A l \in st.rows : l.id # x
  <2>1. ASSUME NEW l, l.id = x PROVE l \in links' <=> l \in links
    BY <1>3, <1>7, <2>1 DEF MergeLinks, SameKey
  <2>2. ActiveLinks(x)' = ActiveLinks(x)
    BY <1>5, <2>1 DEF ActiveLinks
  <2> QED BY <2>2
<1> QED BY <1>6, <1>7

LEMMA ActiveStep ==
  ASSUME Inv, [Next]_vars, NEW x \in Ids, x \notin stale'
  PROVE  AtMostOne(ActiveLinks(x))' /\ x \notin stale
<1>1. TypeInv /\ LinkInv
  BY DEF Inv
<1>2. ASSUME UNCHANGED <<links, stale>>
      PROVE  AtMostOne(ActiveLinks(x))' /\ x \notin stale
  BY <1>1, <1>2 DEF LinkInv, AtMostOne, ActiveLinks
<1>3. ASSUME NEW j \in Jobs, Execute(j)
      PROVE  AtMostOne(ActiveLinks(x))' /\ x \notin stale
  <2>1. CASE WriteLinks(j)
    <3>1. x \notin stale
      BY <2>1 DEF WriteLinks
    <3>2. AtMostOne(ActiveLinks(x))
      BY <1>1, <3>1 DEF LinkInv
    <3>3. CASE ActiveLinks(x)' = ActiveLinks(x)
      BY <3>1, <3>2, <3>3 DEF AtMostOne
    <3>4. CASE (\E l \in Rows(j) : l.id = x) /\ ActiveLinks(x)' = After(plan[j][1], x)
      <4>1. /\ plan[j][1].op = "links" /\ Rows(j) = plan[j][1].rows /\ 1 \in DOMAIN plan[j]
        BY <1>1, <2>1, FirstIs DEF WriteLinks
      <4>2. GoodLinks(plan[j][1])
        BY <1>1, <4>1 DEF LinkInv, LinkPlans
      <4>3. AtMostOne(After(plan[j][1], x))
        BY <3>1, <3>4, <4>1, <4>2 DEF GoodLinks
      <4> QED BY <3>1, <3>4, <4>3 DEF AtMostOne
    <3> QED BY <2>1, <3>3, <3>4, WriteLinksIs
  <2>2. CASE DeleteLinks(j)
    <3>1. links' \subseteq links /\ x \notin stale
      BY <2>2 DEF DeleteLinks
    <3>2. AtMostOne(ActiveLinks(x))
      BY <1>1, <3>1 DEF LinkInv
    <3> QED BY <3>1, <3>2 DEF AtMostOne, ActiveLinks
  <2>3. CASE ~WriteLinks(j) /\ ~DeleteLinks(j)
    <3>1. UNCHANGED <<links, stale>>
      BY <1>3, <2>3 DEF Execute, WriteBronze, WriteRecords, WriteVerdicts, WriteFacts,
         WritePersons, DeleteBronze, DeleteRecords, DeleteFacts, Suppress, WriteTombstone
    <3> QED BY <1>2, <3>1
  <2> QED BY <2>1, <2>2, <2>3
<1>4. ASSUME NEW o \in Operators, SetOut(o) PROVE UNCHANGED <<links, stale>>
  BY <1>4 DEF SetOut, tables
<1>5. ASSUME NEW e \in Resolvers, StartResolving(e) PROVE UNCHANGED <<links, stale>>
  BY <1>5 DEF StartResolving, SetOut, tables
<1>6. ASSUME NEW e \in Resolvers, Resolve(e) PROVE UNCHANGED <<links, stale>>
  BY <1>6 DEF Resolve, tables, ghosts
<1>7. ASSUME NEW j \in Jobs, Crash(j) PROVE UNCHANGED <<links, stale>>
  BY <1>7 DEF Crash, tables, ghosts
<1>8. CASE UNCHANGED vars
  BY <1>2, <1>8 DEF vars, tables, ghosts
<1> QED BY <1>1, <1>2, <1>3, <1>4, <1>5, <1>6, <1>7, <1>8, Steps DEF Scrape, Unmerge, Erase

LEMMA LinkStep ==
  ASSUME Inv, [Next]_vars
  PROVE  LinkInv'
BY LinkPlansStep, ActiveStep DEF LinkInv

----
(* Persons *)

\* A statement that is led goes on being led when its job goes on.
LEMMA PersonPlansKept ==
  ASSUME TypeInv, NEW i \in Jobs, PersonPlans(i), plan'[i] = plan[i],
         \A p \in Persons : person[p] # "none" => person'[p] # "none"
  PROVE  PersonPlans(i)'
<1> SUFFICES ASSUME NEW n \in DOMAIN plan'[i], plan'[i][n].op = "links",
                    NEW l \in plan'[i][n].rows, l.active, l.method # "human_review"
             PROVE  Led(l.person, i, n)'
  BY DEF PersonPlans
<1>1. Led(l.person, i, n) /\ n \in DOMAIN plan[i] /\ plan[i][n].op = "links"
      /\ l \in plan[i][n].rows
  BY DEF PersonPlans
<1>2. plan[i][n] \in Statements
  BY <1>1 DEF TypeInv
<1>3. l.person \in Persons
  BY <1>1, <1>2, StatementType DEF Link
<1> QED BY <1>1, <1>3 DEF Led, Before

LEMMA PersonPlansAdvance ==
  ASSUME TypeInv, NEW j \in Jobs, PersonPlans(j), Advance(j),
         \A p \in Persons : person[p] # "none" => person'[p] # "none",
         plan[j][1].op = "persons" => \A p \in plan[j][1].rows : person'[p] # "none"
  PROVE  PersonPlans(j)'
<1> SUFFICES ASSUME NEW n \in DOMAIN plan'[j], plan'[j][n].op = "links",
                    NEW l \in plan'[j][n].rows, l.active, l.method # "human_review"
             PROVE  Led(l.person, j, n)'
  BY DEF PersonPlans
<1>1. n + 1 \in DOMAIN plan[j] /\ plan'[j][n] = plan[j][n + 1] /\ plan[j] \in Seq(Statements)
  BY AdvanceIs DEF TypeInv
<1>2. Led(l.person, j, n + 1)
  BY <1>1 DEF PersonPlans
<1>3. plan[j][n + 1] \in Statements
  BY <1>1
<1>4. l.person \in Persons
  BY <1>1, <1>3, StatementType DEF Link
<1>5. CASE person[l.person] # "none"
  BY <1>4, <1>5 DEF Led
<1>6. CASE Before(j, n + 1, "persons", l.person)
  <2>1. Before(j, n, "persons", l.person)' \/ person'[l.person] # "none"
    BY <1>6, BeforeAdvance
  <2> QED BY <2>1 DEF Led
<1> QED BY <1>2, <1>5, <1>6 DEF Led

LEMMA PersonsStay ==
  ASSUME TypeInv, [Next]_vars
  PROVE  \A p \in Persons : person[p] # "none" => person'[p] # "none"
<1>1. ASSUME UNCHANGED person
      PROVE  \A p \in Persons : person[p] # "none" => person'[p] # "none"
  BY <1>1
<1>2. ASSUME NEW j \in Jobs, Execute(j)
      PROVE  \A p \in Persons : person[p] # "none" => person'[p] # "none"
  <2>1. CASE WritePersons(j)
    BY <2>1 DEF WritePersons
  <2>2. CASE WriteTombstone(j)
    BY <2>2 DEF WriteTombstone
  <2>3. CASE ~WritePersons(j) /\ ~WriteTombstone(j)
    BY <1>1, <1>2, <2>3 DEF Execute, WriteBronze, WriteRecords, WriteVerdicts, WriteFacts,
       WriteLinks, DeleteBronze, DeleteRecords, DeleteLinks, DeleteFacts, Suppress
  <2> QED BY <2>1, <2>2, <2>3
<1>3. ASSUME NEW j \in Jobs, SetOut(j) \/ Crash(j)
      PROVE  UNCHANGED person
  BY <1>3 DEF SetOut, Crash, tables
<1>4. ASSUME NEW e \in Resolvers, Resolve(e)
      PROVE  UNCHANGED person
  BY <1>4 DEF Resolve, tables
<1>5. CASE UNCHANGED vars
  BY <1>1, <1>5 DEF vars, tables
<1> QED BY <1>1, <1>2, <1>3, <1>4, <1>5, Steps DEF Scrape, Unmerge, Erase, StartResolving, Jobs

LEMMA PersonPlansStep ==
  ASSUME Inv, [Next]_vars, NEW i \in Jobs
  PROVE  PersonPlans(i)'
<1>1. TypeInv /\ LinkInv /\ PersonPlans(i)
  BY DEF Inv, PersonInv
<1>2. \A p \in Persons : person[p] # "none" => person'[p] # "none"
  BY <1>1, PersonsStay
<1>3. ASSUME plan'[i] = plan[i] PROVE PersonPlans(i)'
  BY <1>1, <1>2, <1>3, PersonPlansKept
<1>4. ASSUME \A n \in DOMAIN plan'[i] : plan'[i][n].op # "links" PROVE PersonPlans(i)'
  BY <1>4 DEF PersonPlans
<1>5. ASSUME NEW e \in Resolvers, StartResolving(e) PROVE PersonPlans(i)'
  BY <1>1, <1>3, <1>5, StartIs
<1>6. ASSUME NEW e \in Resolvers, Resolve(e) PROVE PersonPlans(i)'
  <2>1. CASE i = e
    <3>1. ASSUME NEW n \in DOMAIN plan'[e], plan'[e][n].op = "links", NEW l \in plan'[e][n].rows
          PROVE  \E m \in 1..(n - 1) : plan'[e][m].op = "persons" /\ l.person \in plan'[e][m].rows
      BY <1>1, <1>6, <3>1, ResolveIs
    <3> QED BY <2>1, <3>1 DEF PersonPlans, Led, Before
  <2>2. CASE i # e
    BY <1>1, <1>3, <1>6, <2>2, ResolveIs
  <2> QED BY <2>1, <2>2
<1>7. ASSUME NEW o \in Operators, NEW x \in Ids, Scrape(o, x) PROVE PersonPlans(i)'
  <2>1. i # o => plan'[i] = plan[i]
    BY <1>1, <1>7, ScrapeIs
  <2>2. \A n \in DOMAIN plan'[o] : plan'[o][n].op \in {"bronze", "records"}
    BY <1>1, <1>7, ScrapeIs
  <2> QED BY <1>3, <1>4, <2>1, <2>2
<1>8. ASSUME NEW o \in Operators, NEW link \in links, NEW to \in Persons, Unmerge(o, link, to)
      PROVE  PersonPlans(i)'
  <2>1. CASE i = o
    <3>1. /\ \A n \in DOMAIN plan'[o] : plan'[o][n].rows = {Retracted(link), Moved(link, to)}
          /\ link \in Link
      BY <1>1, <1>8, UnmergeIs
    <3>2. ~Retracted(link).active /\ Moved(link, to).method = "human_review"
      BY <3>1 DEF Retracted, Moved, NewLink, Link
    <3>3. \A n \in DOMAIN plan'[o] : \A l \in plan'[o][n].rows :
            ~(l.active /\ l.method # "human_review")
      BY <3>1, <3>2
    <3> QED BY <2>1, <3>3 DEF PersonPlans
  <2>2. CASE i # o
    BY <1>1, <1>3, <1>8, <2>2, UnmergeIs
  <2> QED BY <2>1, <2>2
<1>9. ASSUME NEW o \in Operators, NEW p \in Persons, Erase(o, p) PROVE PersonPlans(i)'
  <2>1. i # o => plan'[i] = plan[i]
    BY <1>1, <1>9, EraseIs
  <2>2. plan'[o] = ErasurePlan(p) /\ links \subseteq Link
    BY <1>1, <1>9, EraseIs DEF TypeInv, TypeOK
  <2>3. \A n \in DOMAIN plan'[o] : plan'[o][n].op # "links"
    BY <2>2, ErasurePlanIs
  <2> QED BY <1>3, <1>4, <2>1, <2>3
<1>10. ASSUME NEW j \in Jobs, Execute(j) PROVE PersonPlans(i)'
  <2>1. Advance(j)
    BY <1>1, <1>10, ExecuteType
  <2>2. i # j => plan'[i] = plan[i]
    BY <1>1, <2>1, AdvanceIs
  <2>3. ASSUME plan[j][1].op = "persons"
        PROVE  \A p \in plan[j][1].rows : person'[p] # "none"
    <3>1. plan[j] # <<>> /\ Head(plan[j]) = plan[j][1] /\ plan[j][1] \in Statements
      BY <1>1, <2>1, NextStatement DEF Advance
    <3>2. WritePersons(j)
      BY <1>10, <2>3, <3>1 DEF Execute, Next1, WriteBronze, WriteRecords, WriteVerdicts, WriteFacts,
         WriteLinks, DeleteBronze, DeleteRecords, DeleteLinks, DeleteFacts, Suppress, WriteTombstone
    <3>3. Rows(j) = plan[j][1].rows /\ Rows(j) \subseteq Persons
      BY <1>1, <3>2, FirstIs DEF WritePersons
    <3> QED BY <3>2, <3>3 DEF WritePersons
  <2> QED BY <1>1, <1>2, <1>3, <2>1, <2>2, <2>3, PersonPlansAdvance
<1>11. ASSUME NEW j \in Jobs, Crash(j) PROVE PersonPlans(i)'
  BY <1>1, <1>3, <1>4, <1>11, CrashIs
<1>12. CASE UNCHANGED vars
  BY <1>3, <1>12 DEF vars
<1> QED BY <1>1, <1>5, <1>6, <1>7, <1>8, <1>9, <1>10, <1>11, <1>12, Steps

LEMMA LinkedPersonStep ==
  ASSUME Inv, [Next]_vars
  PROVE  LinkedPersonExists'
<1>1. TypeInv /\ LinkInv /\ LinkedPersonExists /\ \A i \in Jobs : PersonPlans(i)
  BY DEF Inv, PersonInv
<1>2. \A p \in Persons : person[p] # "none" => person'[p] # "none"
  BY <1>1, PersonsStay
<1>3. \A l \in links : l.person \in Persons
  BY <1>1 DEF TypeInv, TypeOK, Link
<1>4. ASSUME links' \subseteq links PROVE LinkedPersonExists'
  BY <1>1, <1>2, <1>3, <1>4 DEF LinkedPersonExists
<1>5. ASSUME NEW j \in Jobs, Execute(j) PROVE LinkedPersonExists'
  <2>1. CASE WriteLinks(j)
    <3>1. /\ plan[j][1].op = "links" /\ 1 \in DOMAIN plan[j]
          /\ Rows(j) = plan[j][1].rows /\ Rows(j) \subseteq Link
      BY <1>1, <2>1, FirstIs DEF WriteLinks
    <3>2. \A l \in Rows(j) : l.active /\ l.method # "human_review" => Led(l.person, j, 1)
      BY <1>1, <3>1 DEF PersonPlans
    <3>3. \A l \in Rows(j) : l.active /\ l.method # "human_review" => person'[l.person] # "none"
      BY <1>2, <3>1, <3>2 DEF Led, Before, Link
    <3>4. \A l \in links' : l \in links \/ l \in Rows(j)
      BY <2>1 DEF WriteLinks, MergeLinks
    <3> QED BY <1>1, <1>2, <1>3, <3>3, <3>4 DEF LinkedPersonExists
  <2>2. CASE ~WriteLinks(j)
    <3>1. links' \subseteq links
      BY <1>5, <2>2 DEF Execute, WriteBronze, WriteRecords, WriteVerdicts, WriteFacts,
         WritePersons, DeleteBronze, DeleteRecords, DeleteLinks, DeleteFacts, Suppress,
         WriteTombstone
    <3> QED BY <1>4, <3>1
  <2> QED BY <2>1, <2>2
<1>6. ASSUME NEW j \in Jobs, SetOut(j) \/ Crash(j) PROVE LinkedPersonExists'
  BY <1>4, <1>6 DEF SetOut, Crash, tables
<1>7. ASSUME NEW e \in Resolvers, Resolve(e) PROVE LinkedPersonExists'
  BY <1>4, <1>7 DEF Resolve, tables
<1>8. CASE UNCHANGED vars
  BY <1>4, <1>8 DEF vars, tables
<1> QED BY <1>1, <1>5, <1>6, <1>7, <1>8, Steps DEF Scrape, Unmerge, Erase, StartResolving, Jobs

LEMMA PersonStep ==
  ASSUME Inv, [Next]_vars
  PROVE  PersonInv'
BY PersonPlansStep, LinkedPersonStep DEF PersonInv

----
(* Who runs beside whom *)

LEMMA BusyStep ==
  ASSUME Inv, [Next]_vars
  PROVE  BusyInv'
<1>1. TypeInv /\ LinkInv /\ BusyInv
  BY DEF Inv
<1>2. /\ \A e \in Resolvers : reading[e].busy => plan[e] = <<>>
      /\ \A e \in Resolvers : ~reading[e].busy => reading[e] = NotReading
      /\ \A j \in alone : Busy(j) => Others(j) = {}
  BY <1>1 DEF BusyInv
<1>3. alone \subseteq Jobs
  BY <1>1 DEF TypeInv, TypeOK
<1>4. ~NotReading.busy
  BY DEF NotReading
\* Nobody becomes busy.
<1>5. ASSUME UNCHANGED alone, \A i \in Jobs : Busy(i)' => Busy(i)
      PROVE  \A j \in alone' : Busy(j)' => Others(j)' = {}
  BY <1>2, <1>3, <1>5 DEF Others
\* One sets out.
<1>6. ASSUME NEW k \in Jobs, SetOut(k), \A i \in Jobs \ {k} : Busy(i)' => Busy(i)
      PROVE  \A j \in alone' : Busy(j)' => Others(j)' = {}
  <2>1. alone' \subseteq {k} /\ (k \in alone' => Others(k) = {})
    BY <1>1, <1>6, SetOutIs
  <2> QED BY <1>6, <2>1 DEF Others
<1>7. ASSUME NEW e \in Resolvers, StartResolving(e) PROVE BusyInv'
  <2>1. /\ SetOut(e) /\ UNCHANGED plan /\ reading'[e].busy /\ plan[e] = <<>>
        /\ \A i \in Resolvers \ {e} : reading'[i] = reading[i]
    BY <1>1, <1>7, StartIs, SetOutIs DEF Jobs
  <2>2. \A i \in Jobs \ {e} : Busy(i)' => Busy(i)
    BY <2>1 DEF Busy
  <2>3. \A j \in alone' : Busy(j)' => Others(j)' = {}
    BY <1>6, <2>1, <2>2 DEF Jobs
  <2> QED BY <1>2, <2>1, <2>3 DEF BusyInv
<1>8. ASSUME NEW e \in Resolvers, Resolve(e) PROVE BusyInv'
  <2>1. /\ \A i \in Jobs \ {e} : plan'[i] = plan[i]
        /\ \A i \in Resolvers \ {e} : reading'[i] = reading[i]
        /\ reading'[e] = NotReading /\ reading[e].busy /\ UNCHANGED alone
    BY <1>1, <1>8, ResolveIs DEF ghosts
  <2>2. \A i \in Jobs : Busy(i)' => Busy(i)
    BY <2>1 DEF Busy
  <2>3. \A j \in alone' : Busy(j)' => Others(j)' = {}
    BY <1>5, <2>1, <2>2
  <2>4. \A i \in Resolvers : reading'[i].busy => plan'[i] = <<>>
    BY <1>2, <1>4, <2>1 DEF Jobs
  <2>5. \A i \in Resolvers : ~reading'[i].busy => reading'[i] = NotReading
    BY <1>2, <2>1
  <2> QED BY <2>3, <2>4, <2>5 DEF BusyInv
<1>9. ASSUME NEW o \in Operators, SetOut(o), \A i \in Jobs \ {o} : plan'[i] = plan[i],
             UNCHANGED reading
      PROVE  BusyInv'
  <2>1. o \in Jobs /\ o \notin Resolvers
    BY ResolutionAssumption DEF Jobs
  <2>2. \A i \in Jobs \ {o} : Busy(i)' => Busy(i)
    BY <1>9 DEF Busy
  <2>3. \A j \in alone' : Busy(j)' => Others(j)' = {}
    BY <1>6, <1>9, <2>1, <2>2
  <2> QED BY <1>2, <1>9, <2>1, <2>3 DEF BusyInv, Jobs
<1>10. ASSUME NEW j \in Jobs, Execute(j) \/ Crash(j) PROVE BusyInv'
  <2>1. Advance(j) \/ Crash(j)
    BY <1>1, <1>10, ExecuteType
  <2>2. plan[j] # <<>> /\ (\A i \in Jobs \ {j} : plan'[i] = plan[i]) /\ UNCHANGED <<reading, alone>>
    BY <1>1, <2>1, AdvanceIs, CrashIs DEF Crash, ghosts
  <2>3. \A i \in Jobs : Busy(i)' => Busy(i)
    BY <2>2 DEF Busy
  <2>4. \A i \in alone' : Busy(i)' => Others(i)' = {}
    BY <1>5, <2>2, <2>3
  <2> QED BY <1>2, <2>2, <2>4 DEF BusyInv, Jobs
<1>11. CASE UNCHANGED vars
  BY <1>2, <1>11 DEF vars, ghosts, BusyInv, Busy, Others
<1>12. ASSUME NEW o \in Operators, NEW x \in Ids, Scrape(o, x) PROVE BusyInv'
  BY <1>1, <1>9, <1>12, ScrapeIs
<1>13. ASSUME NEW o \in Operators, NEW link \in links, NEW to \in Persons, Unmerge(o, link, to)
       PROVE  BusyInv'
  BY <1>1, <1>9, <1>13, UnmergeIs
<1>14. ASSUME NEW o \in Operators, NEW p \in Persons, Erase(o, p) PROVE BusyInv'
  BY <1>1, <1>9, <1>14, EraseIs
<1> QED BY <1>1, <1>7, <1>8, <1>10, <1>11, <1>12, <1>13, <1>14, Steps

----
(* Erasure *)

\* What a statement does that neither scrapes, nor loads records, nor links.
LEMMA TakingAway ==
  ASSUME TypeInv, NEW j \in Jobs, Execute(j), plan[j][1].op \notin {"bronze", "records", "links"}
  PROVE  /\ bronze' \subseteq bronze /\ record' \subseteq record /\ links' \subseteq links
         /\ plan[j][1].op = "delete_bronze" => bronze' = bronze \ plan[j][1].rows
         /\ plan[j][1].op = "delete_records" => record' = record \ plan[j][1].rows
         /\ plan[j][1].op = "delete_links" => \A l \in links' : l.id \notin plan[j][1].rows
<1> DEFINE op == plan[j][1].op
<1>1. \A k \in {"bronze", "records", "verdicts", "facts", "persons", "links", "delete_bronze",
                "delete_records", "delete_links", "delete_facts", "suppress", "erase"} :
        Next1(j, k) => op = k /\ Rows(j) = plan[j][1].rows
  BY FirstIs
<1>2. ~Next1(j, "bronze") /\ ~Next1(j, "records") /\ ~Next1(j, "links")
  BY <1>1
<1> HIDE DEF op
<1>3. CASE DeleteBronze(j)
  BY <1>1, <1>3 DEF DeleteBronze, op
<1>4. CASE DeleteRecords(j)
  BY <1>1, <1>4 DEF DeleteRecords, op
<1>5. CASE DeleteLinks(j)
  BY <1>1, <1>5 DEF DeleteLinks, op
<1>6. CASE WriteVerdicts(j) \/ WriteFacts(j) \/ WritePersons(j) \/ DeleteFacts(j) \/ Suppress(j)
           \/ WriteTombstone(j)
  BY <1>1, <1>6 DEF WriteVerdicts, WriteFacts, WritePersons, DeleteFacts, Suppress,
     WriteTombstone, op
<1> QED BY <1>2, <1>3, <1>4, <1>5, <1>6 DEF Execute, WriteBronze, WriteRecords, WriteLinks

LEMMA ErasurePlansAdvance ==
  ASSUME TypeInv, NEW j \in Jobs, ErasurePlans(j), Execute(j), Advance(j)
  PROVE  ErasurePlans(j)'
<1>1. /\ plan[j] \in Seq(Statements) /\ plan[j] # <<>>
      /\ \A k \in DOMAIN plan'[j] :
           k \in Nat /\ k + 1 \in DOMAIN plan[j] /\ plan'[j][k] = plan[j][k + 1]
  BY AdvanceIs DEF TypeInv
<1> SUFFICES ASSUME NEW n \in DOMAIN plan'[j], plan'[j][n].op = "suppress"
             PROVE  /\ \A m \in DOMAIN plan'[j] : plan'[j][m].op \notin {"bronze", "records", "links"}
                    /\ \A x \in plan'[j][n].rows :
                         /\ x \in record' => Before(j, n, "delete_records", x)'
                         /\ SourceOf[x] \in Guarded /\ x \in bronze'
                              => Before(j, n, "delete_bronze", x)'
                         /\ (\E l \in links' : l.id = x) => Before(j, n, "delete_links", x)'
  BY DEF ErasurePlans
<1>2. n + 1 \in DOMAIN plan[j] /\ plan'[j][n] = plan[j][n + 1]
  BY <1>1
<1>3. \A m \in DOMAIN plan[j] : plan[j][m].op \notin {"bronze", "records", "links"}
  BY <1>2 DEF ErasurePlans
<1>4. 1 \in DOMAIN plan[j]
  BY <1>1
<1>5. plan[j][1].op \notin {"bronze", "records", "links"}
  BY <1>3, <1>4
<1>6. ASSUME NEW x \in plan'[j][n].rows
      PROVE  /\ x \in record' => Before(j, n, "delete_records", x)'
             /\ SourceOf[x] \in Guarded /\ x \in bronze' => Before(j, n, "delete_bronze", x)'
             /\ (\E l \in links' : l.id = x) => Before(j, n, "delete_links", x)'
  <2>1. /\ x \in record => Before(j, n + 1, "delete_records", x)
        /\ SourceOf[x] \in Guarded /\ x \in bronze => Before(j, n + 1, "delete_bronze", x)
        /\ (\E l \in links : l.id = x) => Before(j, n + 1, "delete_links", x)
    BY <1>2, <1>6 DEF ErasurePlans
  <2>2. \A op : Before(j, n + 1, op, x) =>
          Before(j, n, op, x)' \/ (plan[j][1].op = op /\ x \in plan[j][1].rows)
    BY BeforeAdvance
  <2>3. x \in record' => Before(j, n, "delete_records", x)'
    BY <1>5, <2>1, <2>2, TakingAway
  <2>4. SourceOf[x] \in Guarded /\ x \in bronze' => Before(j, n, "delete_bronze", x)'
    BY <1>5, <2>1, <2>2, TakingAway
  <2>5. (\E l \in links' : l.id = x) => Before(j, n, "delete_links", x)'
    BY <1>5, <2>1, <2>2, TakingAway
  <2> QED BY <2>3, <2>4, <2>5
<1> QED BY <1>1, <1>3, <1>6

\* Plans without a suppression have nothing to keep, and others keep it while
\* the tables stay as they are.
LEMMA ErasurePlansNone ==
  ASSUME NEW j \in Jobs, \A n \in DOMAIN plan'[j] : plan'[j][n].op # "suppress"
  PROVE  ErasurePlans(j)'
BY DEF ErasurePlans

LEMMA ErasurePlansSame ==
  ASSUME NEW j \in Jobs, ErasurePlans(j), plan'[j] = plan[j], UNCHANGED <<bronze, record, links>>
  PROVE  ErasurePlans(j)'
BY DEF ErasurePlans, Before

LEMMA ErasureStep ==
  ASSUME Inv, [Next]_vars
  PROVE  ErasureInv'
<1>1. TypeInv /\ LinkInv /\ BusyInv /\ ErasureInv
  BY DEF Inv
<1>2. alone \subseteq Jobs /\ \A j \in alone : ErasurePlans(j)
  BY <1>1 DEF TypeInv, TypeOK, ErasureInv
<1>3. ASSUME NEW k \in Jobs, SetOut(k), ErasurePlans(k)' PROVE ErasureInv'
  BY <1>1, <1>3, SetOutIs DEF ErasureInv
<1>4. ASSUME NEW e \in Resolvers, StartResolving(e) PROVE ErasureInv'
  <2>1. e \in Jobs /\ SetOut(e) /\ plan'[e] = plan[e] /\ plan[e] = <<>>
    BY <1>1, <1>4, StartIs, SetOutIs DEF Jobs
  <2>2. ErasurePlans(e)'
    BY <2>1, ErasurePlansNone
  <2> QED BY <1>3, <2>1, <2>2
<1>5. ASSUME NEW e \in Resolvers, Resolve(e) PROVE ErasureInv'
  <2>1. /\ e \in Jobs /\ UNCHANGED <<bronze, record, links, alone>>
        /\ \A i \in Jobs \ {e} : plan'[i] = plan[i]
        /\ \A n \in DOMAIN plan'[e] :
             plan'[e][n].op \in {"verdicts", "facts", "persons", "links", "records"}
    BY <1>1, <1>5, ResolveIs DEF Jobs, tables, ghosts
  <2>2. ErasurePlans(e)'
    BY <2>1, ErasurePlansNone
  <2>3. \A j \in alone : ErasurePlans(j)'
    BY <1>2, <2>1, <2>2, ErasurePlansSame
  <2> QED BY <2>1, <2>3 DEF ErasureInv
<1>6. ASSUME NEW o \in Operators, NEW x \in Ids, Scrape(o, x) PROVE ErasureInv'
  <2>1. /\ o \in Jobs /\ SetOut(o)
        /\ \A n \in DOMAIN plan'[o] : plan'[o][n].op \in {"bronze", "records"}
    BY <1>1, <1>6, ScrapeIs DEF Jobs
  <2>2. ErasurePlans(o)'
    BY <2>1, ErasurePlansNone
  <2> QED BY <1>3, <2>1, <2>2
<1>7. ASSUME NEW o \in Operators, NEW link \in links, NEW to \in Persons, Unmerge(o, link, to)
      PROVE  ErasureInv'
  <2>1. o \in Jobs /\ SetOut(o) /\ \A n \in DOMAIN plan'[o] : plan'[o][n].op = "links"
    BY <1>1, <1>7, UnmergeIs DEF Jobs
  <2>2. ErasurePlans(o)'
    BY <2>1, ErasurePlansNone
  <2> QED BY <1>3, <2>1, <2>2
<1>8. ASSUME NEW o \in Operators, NEW p \in Persons, Erase(o, p) PROVE ErasureInv'
  <2>1. o \in Jobs /\ SetOut(o) /\ plan'[o] = ErasurePlan(p) /\ links \subseteq Link
    BY <1>1, <1>8, EraseIs DEF Jobs, TypeInv, TypeOK
  <2>2. \A n \in DOMAIN plan'[o] :
          /\ plan'[o][n].op \notin {"bronze", "records", "links"}
          /\ plan'[o][n].op = "suppress" => \A x \in plan'[o][n].rows :
               /\ \E m \in 1..(n - 1) :
                    plan'[o][m].op = "delete_records" /\ x \in plan'[o][m].rows
               /\ \E m \in 1..(n - 1) :
                    plan'[o][m].op = "delete_links" /\ x \in plan'[o][m].rows
               /\ SourceOf[x] \in Guarded => \E m \in 1..(n - 1) :
                    plan'[o][m].op = "delete_bronze" /\ x \in plan'[o][m].rows
    BY <2>1, ErasurePlanIs
  <2>3. ErasurePlans(o)'
    BY <2>2 DEF ErasurePlans, Before
  <2> QED BY <1>3, <2>1, <2>3
<1>9. ASSUME NEW k \in Jobs, Execute(k) PROVE ErasureInv'
  <2>1. /\ Advance(k) /\ UNCHANGED alone /\ plan[k] # <<>>
        /\ \A i \in Jobs \ {k} : plan'[i] = plan[i]
    BY <1>1, <1>9, ExecuteType, AdvanceIs
  <2>2. ASSUME NEW j \in alone, j # k PROVE ErasurePlans(j)'
    <3>1. k \in Jobs \ {j} /\ Busy(k)
      BY <2>1, <2>2 DEF Busy
    <3>2. ~Busy(j)
      BY <1>1, <3>1 DEF BusyInv, Others
    <3>3. plan'[j] = <<>>
      BY <1>2, <2>1, <2>2, <3>2 DEF Busy
    <3> QED BY <1>2, <3>3, ErasurePlansNone
  <2>3. k \in alone => ErasurePlans(k)'
    BY <1>1, <1>2, <1>9, <2>1, ErasurePlansAdvance
  <2> QED BY <2>1, <2>2, <2>3 DEF ErasureInv
<1>10. ASSUME NEW k \in Jobs, Crash(k) PROVE ErasureInv'
  <2>1. /\ plan'[k] = <<>> /\ \A i \in Jobs \ {k} : plan'[i] = plan[i]
        /\ UNCHANGED <<bronze, record, links, alone>>
    BY <1>1, <1>10, CrashIs DEF tables, ghosts
  <2>2. ErasurePlans(k)'
    BY <2>1, ErasurePlansNone
  <2>3. \A j \in alone : ErasurePlans(j)'
    BY <1>2, <2>1, <2>2, ErasurePlansSame
  <2> QED BY <2>1, <2>3 DEF ErasureInv
<1>11. CASE UNCHANGED vars
  <2>1. UNCHANGED <<bronze, record, links, alone, plan>>
    BY <1>11 DEF vars, tables, ghosts
  <2>2. \A j \in alone : ErasurePlans(j)'
    BY <1>2, <2>1, ErasurePlansSame
  <2> QED BY <2>1, <2>2 DEF ErasureInv
<1> QED BY <1>1, <1>4, <1>5, <1>6, <1>7, <1>8, <1>9, <1>10, <1>11, Steps

\* What ForgottenInv says of one identity.
Unknown(x) ==
  /\ x \in suppressed /\ x \notin record
  /\ SourceOf[x] \in Guarded => x \notin bronze
  /\ \A l \in links : l.id # x
  /\ \A e \in Resolvers : x \notin reading[e].record

\* When a job that ran alone suppresses an identity, it is nowhere any more.
LEMMA SuppressForgets ==
  ASSUME Inv, NEW j \in Jobs, Suppress(j), j \in alone, NEW x \in Rows(j)
  PROVE  Unknown(x)'
<1>1. TypeInv /\ ErasureInv
  BY DEF Inv
<1>2. plan[j][1].op = "suppress" /\ 1 \in DOMAIN plan[j] /\ Rows(j) = plan[j][1].rows
  BY <1>1, FirstIs DEF Suppress
<1>3. \A op : ~Before(j, 1, op, x)
  BY DEF Before
<1>4. /\ x \notin record /\ ~(SourceOf[x] \in Guarded /\ x \in bronze)
      /\ ~\E l \in links : l.id = x
  BY <1>1, <1>2, <1>3 DEF ErasureInv, ErasurePlans
<1>5. \A e \in Resolvers : reading[e].record = {}
  BY AloneSuppress DEF NotReading
<1>6. x \in suppressed' /\ UNCHANGED <<bronze, record, links, reading>>
  BY DEF Suppress, Advance
<1> QED BY <1>4, <1>5, <1>6 DEF Unknown

\* No statement brings back what has been forgotten.
LEMMA ExecuteForgets ==
  ASSUME Inv, NEW j \in Jobs, Execute(j), NEW x \in forgotten, Unknown(x)
  PROVE  Unknown(x)'
<1>1. TypeInv /\ LinkInv
  BY DEF Inv
<1>2. UNCHANGED reading
  BY <1>1, ExecuteType DEF Advance
<1>3. CASE WriteBronze(j)
  BY <1>2, <1>3 DEF WriteBronze, Allowed, Unknown
<1>4. CASE WriteRecords(j)
  BY <1>2, <1>4 DEF WriteRecords, Allowed, Unknown
<1>5. CASE WriteLinks(j)
  <2>1. plan[j][1].op = "links" /\ 1 \in DOMAIN plan[j] /\ Rows(j) = plan[j][1].rows
    BY <1>1, <1>5, FirstIs DEF WriteLinks
  <2>2. \A l \in Rows(j) : l.id # x
    BY <1>1, <2>1 DEF LinkInv, LinkPlans, GoodLinks
  <2>3. \A l \in links' : l.id # x
    BY <1>5, <2>2 DEF WriteLinks, MergeLinks, Unknown
  <2> QED BY <1>2, <1>5, <2>3 DEF WriteLinks, Unknown
<1>6. CASE DeleteBronze(j) \/ DeleteRecords(j) \/ DeleteLinks(j)
  BY <1>2, <1>6 DEF DeleteBronze, DeleteRecords, DeleteLinks, Unknown
<1>7. CASE WriteVerdicts(j) \/ WriteFacts(j) \/ WritePersons(j) \/ DeleteFacts(j) \/ Suppress(j)
           \/ WriteTombstone(j)
  BY <1>2, <1>7 DEF WriteVerdicts, WriteFacts, WritePersons, DeleteFacts, Suppress,
     WriteTombstone, Unknown
<1> QED BY <1>3, <1>4, <1>5, <1>6, <1>7 DEF Execute

LEMMA ForgottenStep ==
  ASSUME Inv, [Next]_vars
  PROVE  ForgottenInv'
<1>1. TypeInv /\ LinkInv /\ \A x \in forgotten : Unknown(x)
  BY DEF Inv, ForgottenInv, Unknown
<1>2. ASSUME \A x \in forgotten' : Unknown(x)' PROVE ForgottenInv'
  BY <1>2 DEF ForgottenInv, Unknown
<1>3. ASSUME UNCHANGED <<tables, forgotten>>, \A e \in Resolvers :
               reading'[e].record \subseteq reading[e].record \cup record
      PROVE  \A x \in forgotten' : Unknown(x)'
  BY <1>1, <1>3 DEF tables, Unknown
<1>4. ASSUME NEW j \in Jobs, Execute(j)
      PROVE  \A x \in forgotten' : Unknown(x)'
  <2>1. CASE Suppress(j) /\ j \in alone
    <3>1. forgotten' = forgotten \cup Rows(j)
      BY <2>1 DEF Suppress
    <3> QED BY <1>1, <1>4, <2>1, <3>1, SuppressForgets, ExecuteForgets
  <2>2. CASE ~(Suppress(j) /\ j \in alone)
    <3>1. UNCHANGED forgotten
      BY <1>4, <2>2 DEF Execute, WriteBronze, WriteRecords, WriteVerdicts, WriteFacts,
         WritePersons, WriteLinks, DeleteBronze, DeleteRecords, DeleteLinks, DeleteFacts,
         Suppress, WriteTombstone
    <3> QED BY <1>1, <1>4, <3>1, ExecuteForgets
  <2> QED BY <2>1, <2>2
<1>5. ASSUME NEW e \in Resolvers, StartResolving(e)
      PROVE  \A x \in forgotten' : Unknown(x)'
  <2>1. UNCHANGED <<tables, forgotten>>
    BY <1>5 DEF StartResolving, SetOut
  <2> QED BY <1>1, <1>3, <1>5, <2>1, StartIs
<1>6. ASSUME NEW e \in Resolvers, Resolve(e)
      PROVE  \A x \in forgotten' : Unknown(x)'
  <2>1. UNCHANGED <<tables, forgotten>> /\ reading'[e].record = {}
        /\ \A i \in Resolvers \ {e} : reading'[i] = reading[i]
    BY <1>1, <1>6, ResolveIs DEF ghosts, NotReading
  <2> QED BY <1>3, <2>1
<1>7. ASSUME NEW o \in Operators, SetOut(o), UNCHANGED reading
      PROVE  \A x \in forgotten' : Unknown(x)'
  BY <1>3, <1>7 DEF SetOut
<1>8. ASSUME NEW j \in Jobs, Crash(j)
      PROVE  \A x \in forgotten' : Unknown(x)'
  BY <1>3, <1>8 DEF Crash, ghosts
<1>9. CASE UNCHANGED vars
  BY <1>2, <1>3, <1>9 DEF vars, ghosts
<1> QED BY <1>1, <1>2, <1>4, <1>5, <1>6, <1>7, <1>8, <1>9, Steps DEF Scrape, Unmerge, Erase

----
(* The theorems *)

LEMMA InvStep == Inv /\ [Next]_vars => Inv'
BY TypeStep, LinkStep, PersonStep, BusyStep, ErasureStep, ForgottenStep DEF Inv

LEMMA Invariance == Spec => []Inv
BY InitInv, InvStep, PTL DEF Spec

\* The tables keep their shape, and silver.person_source_link one row per
\* link_id (MERGE, tools/db.py), whatever jobs run beside each other.
THEOREM TypeCorrect == Spec => []TypeOK
<1>1. Inv => TypeOK
  BY DEF Inv, TypeInv
<1> QED BY <1>1, Invariance, PTL

\* At most one link of an identity is active, unless a job wrote links of an
\* identity that had changed since it read them: for any number of resolutions,
\* unmerges and erasures in any interleaving, and wherever they die.
THEOREM OneLink == Spec => []OneActiveLink
<1>1. Inv => OneActiveLink
  <2> SUFFICES ASSUME Inv, NEW x \in Ids \ stale PROVE Cardinality(ActiveLinks(x)) <= 1
    BY DEF OneActiveLink
  <2>1. AtMostOne(ActiveLinks(x))
    BY DEF Inv, LinkInv
  <2>2. CASE ActiveLinks(x) = {}
    BY <2>2, FS_EmptySet
  <2>3. CASE ActiveLinks(x) # {}
    <3>1. PICK l \in ActiveLinks(x) : TRUE
      BY <2>3
    <3>2. ActiveLinks(x) = {l}
      BY <2>1, <3>1 DEF AtMostOne
    <3> QED BY <3>2, FS_Singleton
  <2> QED BY <2>2, <2>3
<1> QED BY <1>1, Invariance, PTL

\* An active link a run has made leads to a person of the table, also when the
\* run died between any two of its statements: persons are written first.
THEOREM LinkedPersons == Spec => []LinkedPersonExists
<1>1. Inv => LinkedPersonExists
  BY DEF Inv, PersonInv
<1> QED BY <1>1, Invariance, PTL

\* What an erasure that ran alone has taken away stays away, whatever is scraped,
\* resolved or corrected later.
THEOREM ErasedForGood == Spec => []ErasedStaysErased
<1>1. Inv => ErasedStaysErased
  BY DEF Inv, ForgottenInv, ErasedStaysErased, ActiveLinks
<1> QED BY <1>1, Invariance, PTL

\* No resolution changes whom an identity is linked to after an analyst has
\* decided it, unless it had read other links.
THEOREM CorrectionsStand == Spec => CorrectionStands
<1> DEFINE Stands ==
      \A x \in Ids \ stale' :
        (\E l \in ActiveLinks(x) : l.method = "human_review")
          /\ ActiveLinks(x)' # ActiveLinks(x) => ~\E e \in Resolvers : WriteLinks(e)
<1>1. Inv /\ [Next]_vars => [Stands]_vars
  <2> SUFFICES ASSUME Inv, NEW x \in Ids, x \notin stale', ActiveLinks(x) # {},
                      ActiveLinks(x)' # ActiveLinks(x), NEW e \in Resolvers, WriteLinks(e)
               PROVE  FALSE
    OBVIOUS
  <2>1. e \in Jobs /\ TypeInv /\ LinkInv
    BY DEF Jobs, Inv
  <2>2. ActiveLinks(x) = {l \in Head(plan[e]).seen : l.id = x}
    BY <2>1, WriteLinksIs
  <2>3. plan[e][1].op = "links" /\ 1 \in DOMAIN plan[e] /\ Head(plan[e]) = plan[e][1]
    BY <2>1, FirstIs DEF WriteLinks
  <2>4. Head(plan[e]).seen = {}
    BY <2>1, <2>3 DEF LinkInv, LinkPlans
  <2> QED BY <2>2, <2>4
<1> QED BY <1>1, Invariance, PTL DEF Spec, CorrectionStands

====
