---- MODULE Parts_proofs ----
(***************************************************************************)
(* Proofs about the parts that keep to themselves.  A behaviour of Parts    *)
(* leaves all of them but one at rest, so its steps are steps of each part  *)
(* or stutter: what a part keeps, Parts keeps.                              *)
(***************************************************************************)
EXTENDS Parts, HttpClient_proofs, FiniteSetTheorems

----
(* The batches of GraphQL.                                                   *)

\* The places of a sequence, and of what is made of it.
SizeOf(s) == Len(s)

LEMMA PlacesOf ==
  ASSUME NEW S, NEW s \in Seq(S)
  PROVE  /\ SizeOf(s) \in Nat
         /\ \A i : i \in DOMAIN s <=> i \in Nat /\ i > 0 /\ i <= SizeOf(s)
         /\ \A i \in DOMAIN s : s[i] \in S
BY LenProperties DEF SizeOf

LEMMA PlacesOfTail ==
  ASSUME NEW S, NEW s \in Seq(S), s # <<>>
  PROVE  /\ Head(s) = s[1] /\ Head(s) \in S /\ Tail(s) \in Seq(S)
         /\ SizeOf(s) \in Nat /\ SizeOf(s) > 0 /\ SizeOf(Tail(s)) = SizeOf(s) - 1
         /\ \A i \in Nat : i > 0 /\ i < SizeOf(s) => Tail(s)[i] = s[i + 1]
<1>1. /\ Head(s) \in S /\ Tail(s) \in Seq(S) /\ Len(Tail(s)) = Len(s) - 1
      /\ \A i \in 1..Len(Tail(s)) : Tail(s)[i] = s[i + 1]
  BY HeadTailProperties
<1>2. Head(s) = s[1] /\ Len(s) \in Nat /\ Len(s) > 0
  OBVIOUS
<1> DEFINE n == Len(s)
           t == Tail(s)
<1>3. n \in Nat /\ Len(t) = n - 1 /\ \A i \in 1..Len(t) : t[i] = s[i + 1]
  BY <1>1, <1>2
<1> HIDE DEF n, t
<1>4. \A i \in Nat : i > 0 /\ i < n => t[i] = s[i + 1]
  BY <1>3
<1> QED BY <1>1, <1>2, <1>4 DEF n, t, SizeOf

LEMMA PlacesOfPart ==
  ASSUME NEW S, NEW s \in Seq(S), NEW m \in Nat, NEW n \in Nat, m <= n, n <= SizeOf(s)
  PROVE  /\ SubSeq(s, m + 1, n) \in Seq(S)
         /\ SizeOf(SubSeq(s, m + 1, n)) = n - m
         /\ \A i \in Nat : i > 0 /\ i <= n - m => SubSeq(s, m + 1, n)[i] = s[i + m]
<1>1. \A i \in (m + 1)..n : s[i] \in S
  BY PlacesOf
<1> DEFINE r == SubSeq(s, m + 1, n)
<1>2. /\ r \in Seq(S) /\ Len(r) = IF m + 1 <= n THEN n - (m + 1) + 1 ELSE 0
      /\ \A i \in 1..(n - (m + 1) + 1) : r[i] = s[m + 1 + i - 1]
  BY <1>1, SubSeqProperties
<1> HIDE DEF r
<1>3. Len(r) = n - m
  BY <1>2
<1>4. ASSUME NEW i \in Nat, i > 0, i <= n - m
      PROVE  r[i] = s[i + m]
  <2>1. i \in 1..(n - (m + 1) + 1) /\ m + 1 + i - 1 = i + m
    BY <1>4
  <2> QED BY <1>2, <2>1
<1> QED BY <1>2, <1>3, <1>4 DEF r, SizeOf

LEMMA PlacesOfFront ==
  ASSUME NEW S, NEW s \in Seq(S), NEW n \in Nat, n <= SizeOf(s)
  PROVE  /\ SubSeq(s, 1, n) \in Seq(S)
         /\ SizeOf(SubSeq(s, 1, n)) = n
         /\ \A i \in Nat : i > 0 /\ i <= n => SubSeq(s, 1, n)[i] = s[i]
<1>1. \A i \in 1..n : s[i] \in S
  BY PlacesOf
<1> DEFINE r == SubSeq(s, 1, n)
<1>2. /\ r \in Seq(S) /\ Len(r) = IF 1 <= n THEN n - 1 + 1 ELSE 0
      /\ \A i \in 1..(n - 1 + 1) : r[i] = s[1 + i - 1]
  BY <1>1, SubSeqProperties
<1> HIDE DEF r
<1>3. Len(r) = n
  BY <1>2
<1>4. ASSUME NEW i \in Nat, i > 0, i <= n
      PROVE  r[i] = s[i]
  <2>1. i \in 1..(n - 1 + 1) /\ 1 + i - 1 = i
    BY <1>4
  <2> QED BY <1>2, <2>1
<1> QED BY <1>2, <1>3, <1>4 DEF r, SizeOf

Joined(l, r, t) == <<l, r>> \o t

LEMMA PlacesOfJoin ==
  ASSUME NEW S, NEW l \in S, NEW r \in S, NEW t \in Seq(S)
  PROVE  /\ Joined(l, r, t) \in Seq(S)
         /\ SizeOf(Joined(l, r, t)) = SizeOf(t) + 2
         /\ Joined(l, r, t)[1] = l /\ Joined(l, r, t)[2] = r
         /\ \A i \in Nat : i > 0 /\ i <= SizeOf(t) => Joined(l, r, t)[i + 2] = t[i]
<1> DEFINE two == <<l, r>>
           n == Len(t)
           h == two \o t
<1>1. two \in Seq(S) /\ Len(two) = 2 /\ two[1] = l /\ two[2] = r
  OBVIOUS
<1>2. n \in Nat
  OBVIOUS
<1> HIDE DEF two
<1>3. /\ h \in Seq(S) /\ Len(h) = Len(two) + Len(t)
      /\ \A i \in 1..(Len(two) + Len(t)) : h[i] = IF i <= Len(two) THEN two[i] ELSE t[i - Len(two)]
  BY <1>1, ConcatProperties
<1> HIDE DEF h
<1>4. /\ Len(h) = 2 + n
      /\ \A i \in 1..(2 + n) : h[i] = IF i <= 2 THEN two[i] ELSE t[i - 2]
  BY <1>1, <1>3
<1> HIDE DEF n
<1>5. h[1] = two[1] /\ h[2] = two[2]
  BY <1>2, <1>4
<1>6. ASSUME NEW i \in Nat, i > 0, i <= n
      PROVE  h[i + 2] = t[i]
  <2>1. i + 2 \in 1..(2 + n) /\ ~(i + 2 <= 2) /\ i + 2 - 2 = i
    BY <1>2, <1>6
  <2> QED BY <1>4, <2>1
<1>7. Len(h) = n + 2
  BY <1>2, <1>4
<1> QED BY <1>1, <1>3, <1>5, <1>6, <1>7 DEF h, n, two, SizeOf, Joined

\* k is in the place a of batch i.
Holds(q, i, a, k) == i \in DOMAIN q /\ a \in DOMAIN q[i] /\ q[i][a] = k

\* The keys of all batches, and that each has one place only.
Queued(q) == UNION {Gql!ToSet(q[i]) : i \in DOMAIN q}
Apart(q) ==
  \A i, j \in DOMAIN q : \A a \in DOMAIN q[i], b \in DOMAIN q[j] :
    q[i][a] = q[j][b] => i = j /\ a = b

LEMMA QueuedHas ==
  ASSUME NEW q, NEW k
  PROVE  k \in Queued(q) <=> \E i, a : Holds(q, i, a, k)
BY DEF Queued, Holds, Gql!ToSet

LEMMA ApartHas ==
  ASSUME NEW q
  PROVE  Apart(q) <=> \A i, j, a, b, k : Holds(q, i, a, k) /\ Holds(q, j, b, k) => i = j /\ a = b
BY DEF Apart, Holds

LEMMA SetHas ==
  ASSUME NEW s, NEW k
  PROVE  k \in Gql!ToSet(s) <=> \E a : a \in DOMAIN s /\ s[a] = k
BY DEF Gql!ToSet

\* A sequence of n elements, as far as its places go.
Shape(s, n) == n \in Nat /\ \A i : i \in DOMAIN s <=> (i \in Nat /\ i > 0 /\ i <= n)

\* t is q, a sequence of n elements, without the first.
IsTail(t, q, n) ==
  /\ n > 0 /\ Shape(q, n) /\ Shape(t, n - 1)
  /\ \A j \in Nat : j > 0 /\ j < n => t[j] = q[j + 1]

LEMMA TailShape ==
  ASSUME NEW q, NEW t, NEW n, IsTail(t, q, n), NEW i, NEW a, NEW k
  PROVE  /\ (Holds(t, i, a, k) => (i \in Nat /\ i > 0 /\ Holds(q, i + 1, a, k)))
         /\ ((Holds(q, i, a, k) /\ i # 1) => (i \in Nat /\ i > 1 /\ Holds(t, i - 1, a, k)))
         /\ (Holds(q, 1, a, k) <=> (a \in DOMAIN q[1] /\ q[1][a] = k))
<1>1. n \in Nat /\ \A j : j \in DOMAIN q <=> (j \in Nat /\ j > 0 /\ j <= n)
  BY DEF IsTail, Shape
<1>2. \A j : j \in DOMAIN t <=> (j \in Nat /\ j > 0 /\ j < n)
  BY <1>1 DEF IsTail, Shape
<1>3. \A j \in Nat : j > 0 /\ j < n => t[j] = q[j + 1]
  BY DEF IsTail
<1>5. ASSUME Holds(t, i, a, k)
      PROVE  i \in Nat /\ i > 0 /\ Holds(q, i + 1, a, k)
  <2>1. i \in Nat /\ i > 0 /\ i < n /\ a \in DOMAIN t[i] /\ t[i][a] = k
    BY <1>2, <1>5 DEF Holds
  <2>2. t[i] = q[i + 1]
    BY <1>3, <2>1
  <2>3. i + 1 \in DOMAIN q
    BY <1>1, <2>1
  <2> QED BY <2>1, <2>2, <2>3 DEF Holds
<1>6. ASSUME Holds(q, i, a, k), i # 1
      PROVE  i \in Nat /\ i > 1 /\ Holds(t, i - 1, a, k)
  <2>1. i \in Nat /\ i > 1 /\ i <= n /\ a \in DOMAIN q[i] /\ q[i][a] = k
    BY <1>1, <1>6 DEF Holds
  <2> DEFINE j == i - 1
  <2>2. j \in Nat /\ j > 0 /\ j < n /\ j + 1 = i
    BY <1>1, <2>1
  <2> HIDE DEF j
  <2>3. t[j] = q[i]
    BY <1>3, <2>2
  <2>4. j \in DOMAIN t
    BY <1>2, <2>2
  <2>5. Holds(t, j, a, k)
    BY <2>1, <2>3, <2>4 DEF Holds
  <2> QED BY <2>1, <2>5 DEF j
<1>7. Holds(q, 1, a, k) <=> (a \in DOMAIN q[1] /\ q[1][a] = k)
  <2>1. n > 0
    BY DEF IsTail
  <2>2. 1 \in DOMAIN q
    BY <1>1, <2>1
  <2> QED BY <2>2 DEF Holds
<1> QED BY <1>5, <1>6, <1>7

\* Where a place of the halved queue is in the whole one.
PlaceI(i) == IF i <= 2 THEN 1 ELSE i - 1
PlaceA(m, i, a) == IF i = 2 THEN a + m ELSE a

\* h is q with its first element, of z places, cut in two after m.
IsHalved(h, q, n, z, m) ==
  /\ m \in Nat /\ m <= z
  /\ n > 0 /\ Shape(q, n) /\ Shape(q[1], z)
  /\ \A i \in DOMAIN q : \E s : Shape(q[i], s)
  /\ Shape(h, n + 1) /\ Shape(h[1], m) /\ Shape(h[2], z - m)
  /\ \A i \in Nat : i > 0 /\ i <= m => h[1][i] = q[1][i]
  /\ \A i \in Nat : i > 0 /\ i <= z - m => h[2][i] = q[1][i + m]
  /\ \A i \in Nat : i > 0 /\ i < n => h[i + 2] = q[i + 1]

LEMMA HalvedShape ==
  ASSUME NEW q, NEW h, NEW n, NEW z, NEW m, IsHalved(h, q, n, z, m)
  PROVE  /\ \A i, a, k : Holds(h, i, a, k) =>
              (/\ i \in Nat /\ i > 0 /\ a \in Nat /\ a > 0 /\ (i = 1 => a <= m)
               /\ Holds(q, PlaceI(i), PlaceA(m, i, a), k))
         /\ \A j, c, k : Holds(q, j, c, k) => \E i, a : Holds(h, i, a, k)
<1>a. /\ m \in Nat /\ m <= z /\ n > 0
      /\ \A i \in Nat : i > 0 /\ i <= m => h[1][i] = q[1][i]
      /\ \A i \in Nat : i > 0 /\ i <= z - m => h[2][i] = q[1][i + m]
      /\ \A i \in Nat : i > 0 /\ i < n => h[i + 2] = q[i + 1]
      /\ \A i \in DOMAIN q : \E s : Shape(q[i], s)
  BY DEF IsHalved
<1>1. /\ n \in Nat /\ z \in Nat
      /\ \A i : i \in DOMAIN q <=> (i \in Nat /\ i > 0 /\ i <= n)
      /\ \A i : i \in DOMAIN q[1] <=> (i \in Nat /\ i > 0 /\ i <= z)
      /\ \A i : i \in DOMAIN h[1] <=> (i \in Nat /\ i > 0 /\ i <= m)
  BY DEF IsHalved, Shape
<1>2. \A i : i \in DOMAIN h <=> (i \in Nat /\ i > 0 /\ i <= n + 1)
  BY DEF IsHalved, Shape
<1>3. \A i : i \in DOMAIN h[2] <=> (i \in Nat /\ i > 0 /\ i <= z - m)
  BY DEF IsHalved, Shape
<1>4. 1 \in DOMAIN q /\ 1 \in DOMAIN h /\ 2 \in DOMAIN h
  BY <1>a, <1>1, <1>2
<1>5. ASSUME NEW i, NEW a, NEW k, Holds(h, i, a, k)
       PROVE  /\ i \in Nat /\ i > 0 /\ a \in Nat /\ a > 0 /\ (i = 1 => a <= m)
              /\ Holds(q, PlaceI(i), PlaceA(m, i, a), k)
  <2>0. i \in Nat /\ i > 0 /\ i <= n + 1 /\ a \in DOMAIN h[i] /\ h[i][a] = k
    BY <1>a, <1>2, <1>5 DEF Holds
  <2>1. CASE i = 1
    <3>1. a \in Nat /\ a > 0 /\ a <= m /\ q[1][a] = k
      BY <1>a, <1>1, <2>0, <2>1
    <3>2. a \in DOMAIN q[1]
      BY <1>a, <1>1, <3>1
    <3>3. PlaceI(i) = 1 /\ PlaceA(m, i, a) = a
      BY <1>a, <2>1 DEF PlaceI, PlaceA
    <3>4. Holds(q, 1, a, k)
      BY <1>a, <1>4, <3>1, <3>2 DEF Holds
    <3> QED BY <1>a, <2>0, <3>1, <3>3, <3>4
  <2>2. CASE i = 2
    <3>1. a \in Nat /\ a > 0 /\ a <= z - m /\ q[1][a + m] = k
      BY <1>a, <1>3, <2>0, <2>2
    <3>2. a + m \in DOMAIN q[1]
      BY <1>a, <1>1, <3>1
    <3>3. PlaceI(i) = 1 /\ PlaceA(m, i, a) = a + m
      BY <1>a, <2>2 DEF PlaceI, PlaceA
    <3>4. Holds(q, 1, a + m, k)
      BY <1>a, <1>4, <3>1, <3>2 DEF Holds
    <3> QED BY <2>0, <2>2, <3>1, <3>3, <3>4
  <2>3. CASE i > 2
    <3> DEFINE j == i - 2
    <3>1. j \in Nat /\ j > 0 /\ j < n /\ j + 2 = i /\ j + 1 = i - 1
      BY <1>a, <1>1, <2>0, <2>3
    <3> HIDE DEF j
    <3>2. h[i] = q[i - 1]
      BY <1>a, <3>1
    <3>3. i - 1 \in DOMAIN q
      BY <1>a, <1>1, <2>0, <2>3
    <3>4. Holds(q, i - 1, a, k)
      BY <1>a, <2>0, <3>2, <3>3 DEF Holds
    <3>5. PICK s : Shape(q[i - 1], s)
      BY <1>a, <3>3
    <3>6. a \in Nat /\ a > 0
      BY <1>a, <2>0, <3>2, <3>5 DEF Shape
    <3>7. PlaceI(i) = i - 1 /\ PlaceA(m, i, a) = a
      BY <1>a, <2>0, <2>3 DEF PlaceI, PlaceA
    <3> QED BY <2>0, <2>3, <3>4, <3>6, <3>7
  <2> QED BY <2>0, <2>1, <2>2, <2>3
<1>6. ASSUME NEW j, NEW c, NEW k, Holds(q, j, c, k)
      PROVE  \E i, a : Holds(h, i, a, k)
  <2>0. j \in Nat /\ j > 0 /\ j <= n /\ c \in DOMAIN q[j] /\ q[j][c] = k
    BY <1>a, <1>1, <1>6 DEF Holds
  <2>1. CASE j > 1
    <3> DEFINE i == j - 1
    <3>1. i \in Nat /\ i > 0 /\ i < n /\ i + 1 = j /\ i + 2 = j + 1
      BY <1>a, <1>1, <2>0, <2>1
    <3> HIDE DEF i
    <3>2. h[j + 1] = q[j]
      BY <1>a, <3>1
    <3>3. j + 1 \in DOMAIN h
      BY <1>a, <1>1, <1>2, <2>0
    <3>4. Holds(h, j + 1, c, k)
      BY <1>a, <2>0, <3>2, <3>3 DEF Holds
    <3> QED BY <3>4
  <2>2. CASE j = 1
    <3>1. c \in Nat /\ c > 0 /\ c <= z /\ q[1][c] = k
      BY <1>a, <1>1, <2>0, <2>2
    <3>2. CASE c <= m
      <4>1. Holds(h, 1, c, k)
        BY <1>a, <1>1, <1>4, <3>1, <3>2 DEF Holds
      <4> QED BY <4>1
    <3>3. CASE c > m
      <4> DEFINE a == c - m
      <4>1. a \in Nat /\ a > 0 /\ a <= z - m /\ a + m = c
        BY <1>a, <1>1, <3>1, <3>3
      <4> HIDE DEF a
      <4>2. Holds(h, 2, a, k)
        BY <1>a, <1>3, <1>4, <3>1, <4>1 DEF Holds
      <4> QED BY <4>2
    <3> QED BY <1>a, <3>1, <3>2, <3>3
  <2> QED BY <2>0, <2>1, <2>2
<1> QED BY <1>5, <1>6

LEMMA ShapeOf ==
  ASSUME NEW S, NEW s \in Seq(S)
  PROVE  Shape(s, SizeOf(s))
BY PlacesOf DEF Shape

\* The batches after the first: where their keys are in the whole queue.
LEMMA TailHas ==
  ASSUME NEW S, NEW q \in Seq(Seq(S)), q # <<>>, NEW i, NEW a, NEW k
  PROVE  /\ (Holds(Tail(q), i, a, k) => (i \in Nat /\ i > 0 /\ Holds(q, i + 1, a, k)))
         /\ ((Holds(q, i, a, k) /\ i # 1) => (i \in Nat /\ i > 1 /\ Holds(Tail(q), i - 1, a, k)))
         /\ (Holds(q, 1, a, k) <=> (a \in DOMAIN Head(q) /\ Head(q)[a] = k))
<1>1. /\ Head(q) = q[1] /\ Tail(q) \in Seq(Seq(S))
      /\ SizeOf(q) > 0 /\ SizeOf(Tail(q)) = SizeOf(q) - 1
      /\ \A j \in Nat : j > 0 /\ j < SizeOf(q) => Tail(q)[j] = q[j + 1]
  BY PlacesOfTail
<1>2. Shape(q, SizeOf(q)) /\ Shape(Tail(q), SizeOf(Tail(q)))
  BY <1>1, ShapeOf
<1>3. IsTail(Tail(q), q, SizeOf(q))
  BY ONLY <1>1, <1>2 DEF IsTail
<1> QED BY ONLY <1>1, <1>3, TailShape

LEMMA FirstAway ==
  ASSUME NEW S, NEW q \in Seq(Seq(S)), q # <<>>, Apart(q)
  PROVE  /\ Tail(q) \in Seq(Seq(S)) /\ Head(q) \in Seq(S)
         /\ Apart(Tail(q))
         /\ Queued(q) = Gql!ToSet(Head(q)) \cup Queued(Tail(q))
         /\ Gql!ToSet(Head(q)) \cap Queued(Tail(q)) = {}
<1>1. Tail(q) \in Seq(Seq(S)) /\ Head(q) \in Seq(S)
  BY HeadTailProperties
<1>2. \A i, j, a, b, k : Holds(q, i, a, k) /\ Holds(q, j, b, k) => i = j /\ a = b
  BY ApartHas
<1>3. Apart(Tail(q))
  <2>1. ASSUME NEW i, NEW j, NEW a, NEW b, NEW k,
               Holds(Tail(q), i, a, k), Holds(Tail(q), j, b, k)
        PROVE  i = j /\ a = b
    <3>1. i \in Nat /\ j \in Nat /\ Holds(q, i + 1, a, k) /\ Holds(q, j + 1, b, k)
      BY <2>1, TailHas
    <3>2. i + 1 = j + 1 /\ a = b
      BY <1>2, <3>1
    <3> QED BY <3>1, <3>2
  <2> QED BY <2>1, ApartHas
<1>4. ASSUME NEW k, k \in Queued(q), k \notin Gql!ToSet(Head(q))
      PROVE  k \in Queued(Tail(q))
  <2>1. PICK i, a : Holds(q, i, a, k)
    BY <1>4, QueuedHas
  <2>2. i # 1
    <3>1. ~\E a1 : a1 \in DOMAIN Head(q) /\ Head(q)[a1] = k
      BY ONLY <1>4, SetHas
    <3>2. Holds(q, 1, a, k) <=> (a \in DOMAIN Head(q) /\ Head(q)[a] = k)
      BY TailHas
    <3> QED BY <2>1, <3>1, <3>2
  <2>3. Holds(Tail(q), i - 1, a, k)
    BY <2>1, <2>2, TailHas
  <2> QED BY <2>3, QueuedHas
<1>5. ASSUME NEW k, k \in Gql!ToSet(Head(q))
      PROVE  k \in Queued(q) /\ k \notin Queued(Tail(q))
  <2>0. PICK a : a \in DOMAIN Head(q) /\ Head(q)[a] = k
    BY ONLY <1>5, SetHas
  <2>1. Holds(q, 1, a, k)
    BY <2>0, TailHas
  <2>2. ASSUME NEW j, NEW b, Holds(Tail(q), j, b, k)
        PROVE  FALSE
    <3>1. j \in Nat /\ j > 0 /\ Holds(q, j + 1, b, k)
      BY <2>2, TailHas
    <3>2. j + 1 = 1
      BY <1>2, <2>1, <3>1
    <3> QED BY <3>1, <3>2
  <2> QED BY <2>1, <2>2, QueuedHas
<1>6. ASSUME NEW k, k \in Queued(Tail(q))
      PROVE  k \in Queued(q)
  <2>1. PICK i, a : Holds(Tail(q), i, a, k)
    BY <1>6, QueuedHas
  <2>2. Holds(q, i + 1, a, k)
    BY <2>1, TailHas
  <2> QED BY <2>2, QueuedHas
<1>7. Queued(q) = Gql!ToSet(Head(q)) \cup Queued(Tail(q))
  BY <1>4, <1>5, <1>6
<1>8. Gql!ToSet(Head(q)) \cap Queued(Tail(q)) = {}
  BY <1>5
<1> QED BY <1>1, <1>3, <1>7, <1>8

\* The two halves of the first batch, and the others after them.
Halved(q) ==
  LET b == Head(q)
      m == Len(b) \div 2
  IN  <<SubSeq(b, 1, m), SubSeq(b, m + 1, Len(b))>> \o Tail(q)

LEMMA Middle ==
  ASSUME NEW z \in Nat
  PROVE  z \div 2 \in Nat /\ z \div 2 <= z
OBVIOUS

LEMMA HalvedHas ==
  ASSUME NEW S, NEW q \in Seq(Seq(S)), q # <<>>
  PROVE  /\ Halved(q) \in Seq(Seq(S))
         /\ \E m \in Nat : \A i, a, k : Holds(Halved(q), i, a, k) =>
              (/\ i \in Nat /\ i > 0 /\ a \in Nat /\ a > 0 /\ (i = 1 => a <= m)
               /\ Holds(q, PlaceI(i), PlaceA(m, i, a), k))
         /\ \A j, c, k : Holds(q, j, c, k) => \E i, a : Holds(Halved(q), i, a, k)
<1> DEFINE b == Head(q)
           z == SizeOf(b)
           m == z \div 2
           l == SubSeq(b, 1, m)
           r == SubSeq(b, m + 1, z)
           t == Tail(q)
           n == SizeOf(q)
           h == Joined(l, r, t)
<1>1. /\ b = q[1] /\ b \in Seq(S) /\ t \in Seq(Seq(S)) /\ n \in Nat /\ n > 0 /\ SizeOf(t) = n - 1
      /\ \A i \in Nat : i > 0 /\ i < n => t[i] = q[i + 1]
  BY PlacesOfTail
<1>2. Shape(q, n) /\ Shape(b, z) /\ Shape(t, n - 1)
  BY <1>1, ShapeOf
<1>3. \A i \in DOMAIN q : \E s : Shape(q[i], s)
  <2>1. \A i \in DOMAIN q : q[i] \in Seq(S)
    BY PlacesOf
  <2> QED BY <2>1, ShapeOf
<1>4. z \in Nat /\ n \in Nat
  BY <1>2 DEF Shape
<1>5. h = Halved(q)
  BY DEF Halved, SizeOf, Joined
<1> HIDE DEF b, z
<1>6. m \in Nat /\ m <= z
  BY ONLY <1>4, Middle
<1> HIDE DEF m
<1>7. /\ l \in Seq(S) /\ SizeOf(l) = m
      /\ \A i \in Nat : i > 0 /\ i <= m => l[i] = b[i]
  <2>1. m <= SizeOf(b)
    BY <1>6 DEF z
  <2> QED BY ONLY <1>1, <1>6, <2>1, PlacesOfFront
<1>8. /\ r \in Seq(S) /\ SizeOf(r) = z - m
      /\ \A i \in Nat : i > 0 /\ i <= z - m => r[i] = b[i + m]
  <2>1. z <= SizeOf(b)
    BY ONLY <1>4 DEF z
  <2> QED BY ONLY <1>1, <1>4, <1>6, <2>1, PlacesOfPart
<1> HIDE DEF l, r, t
<1>9. /\ h \in Seq(Seq(S)) /\ SizeOf(h) = SizeOf(t) + 2 /\ h[1] = l /\ h[2] = r
      /\ \A i \in Nat : i > 0 /\ i <= SizeOf(t) => h[i + 2] = t[i]
  <2> DEFINE T == Seq(S)
  <2>1. l \in T /\ r \in T /\ t \in Seq(T)
    BY <1>1, <1>7, <1>8
  <2> HIDE DEF T
  <2>2. /\ h \in Seq(T) /\ SizeOf(h) = SizeOf(t) + 2 /\ h[1] = l /\ h[2] = r
        /\ \A i \in Nat : i > 0 /\ i <= SizeOf(t) => h[i + 2] = t[i]
    BY <2>1, PlacesOfJoin
  <2> QED BY <2>2 DEF T
<1> HIDE DEF h, n
<1>10. Shape(l, m) /\ Shape(r, z - m) /\ Shape(h, SizeOf(h))
  BY <1>7, <1>8, <1>9, ShapeOf
<1>11. SizeOf(h) = n + 1
  BY ONLY <1>1, <1>4, <1>9
<1>12. /\ Shape(h, n + 1) /\ Shape(h[1], m) /\ Shape(h[2], z - m) /\ Shape(q[1], z)
       /\ \A i \in Nat : i > 0 /\ i <= m => h[1][i] = q[1][i]
       /\ \A i \in Nat : i > 0 /\ i <= z - m => h[2][i] = q[1][i + m]
  BY ONLY <1>1, <1>2, <1>7, <1>8, <1>9, <1>10, <1>11
<1>13. \A i \in Nat : i > 0 /\ i < n => h[i + 2] = q[i + 1]
  <2>1. ASSUME NEW i \in Nat, i > 0, i < n
        PROVE  h[i + 2] = q[i + 1]
    <3>1. i <= n - 1
      BY ONLY <1>4, <2>1
    <3> QED BY ONLY <1>1, <1>9, <2>1, <3>1
  <2> QED BY <2>1
<1>14. IsHalved(h, q, n, z, m)
  BY ONLY <1>1, <1>2, <1>3, <1>6, <1>12, <1>13 DEF IsHalved
<1>15. /\ \A i, a, k : Holds(h, i, a, k) =>
            (/\ i \in Nat /\ i > 0 /\ a \in Nat /\ a > 0 /\ (i = 1 => a <= m)
             /\ Holds(q, PlaceI(i), PlaceA(m, i, a), k))
       /\ \A j, c, k : Holds(q, j, c, k) => \E i, a : Holds(h, i, a, k)
  BY ONLY <1>14, HalvedShape
<1> QED BY ONLY <1>5, <1>6, <1>9, <1>15

LEMMA HalvingKeeps ==
  ASSUME NEW S, NEW q \in Seq(Seq(S)), q # <<>>, Apart(q)
  PROVE  Halved(q) \in Seq(Seq(S)) /\ Apart(Halved(q)) /\ Queued(Halved(q)) = Queued(q)
<1> DEFINE h == Halved(q)
<1>1. /\ h \in Seq(Seq(S))
      /\ \A j, c, k : Holds(q, j, c, k) => \E i, a : Holds(h, i, a, k)
  BY HalvedHas
<1>2. PICK m \in Nat : \A i, a, k : Holds(h, i, a, k) =>
           (/\ i \in Nat /\ i > 0 /\ a \in Nat /\ a > 0 /\ (i = 1 => a <= m)
            /\ Holds(q, PlaceI(i), PlaceA(m, i, a), k))
  BY HalvedHas
<1>3. \A i, j, a, b, k : Holds(q, i, a, k) /\ Holds(q, j, b, k) => i = j /\ a = b
  BY ApartHas
<1> HIDE DEF h
<1>4. Queued(h) = Queued(q)
  <2>1. \A k : k \in Queued(h) <=> k \in Queued(q)
    BY ONLY <1>1, <1>2, QueuedHas
  <2> QED BY <2>1
<1>5. ASSUME NEW i, NEW j, NEW a, NEW b, NEW k, Holds(h, i, a, k), Holds(h, j, b, k)
      PROVE  i = j /\ a = b
  <2>1. /\ i \in Nat /\ i > 0 /\ a \in Nat /\ a > 0 /\ (i = 1 => a <= m)
        /\ j \in Nat /\ j > 0 /\ b \in Nat /\ b > 0 /\ (j = 1 => b <= m)
    BY ONLY <1>2, <1>5
  <2>2. PlaceI(i) = PlaceI(j) /\ PlaceA(m, i, a) = PlaceA(m, j, b)
    BY ONLY <1>2, <1>3, <1>5
  <2> QED BY ONLY m \in Nat, <2>1, <2>2 DEF PlaceI, PlaceA
<1>6. Apart(h)
  BY <1>5, ApartHas
<1> QED BY <1>1, <1>4, <1>6 DEF h

LEMMA FiniteImage ==
  ASSUME NEW S, NEW s \in Seq(S)
  PROVE  IsFiniteSet(Gql!ToSet(s))
<1>1. Len(s) \in Nat /\ DOMAIN s = 1..Len(s)
  OBVIOUS
<1>2. IsFiniteSet(DOMAIN s)
  BY <1>1, FS_Interval
<1>3. s \in Surjection(DOMAIN s, Gql!ToSet(s))
  BY <1>1 DEF Surjection, Gql!ToSet
<1> QED BY <1>2, <1>3, FS_Surjection

LEMMA SetToSeqIs ==
  ASSUME NEW S, IsFiniteSet(S)
  PROVE  /\ Cardinality(S) \in Nat
         /\ Gql!SetToSeq(S) \in [1..Cardinality(S) -> S]
         /\ \A i, j \in 1..Cardinality(S) : Gql!SetToSeq(S)[i] = Gql!SetToSeq(S)[j] => i = j
         /\ \A k \in S : \E i \in 1..Cardinality(S) : Gql!SetToSeq(S)[i] = k
<1> DEFINE n == Cardinality(S)
           D == 1..n
           f == Gql!SetToSeq(S)
<1>1. n \in Nat /\ ExistsBijection(D, S)
  BY FS_CardinalityType
<1>2. PICK g \in Bijection(D, S) : TRUE
  BY <1>1 DEF ExistsBijection
<1>3. g \in [D -> S] /\ IsInjective(g)
  BY <1>2 DEF Bijection, Injection
<1>4. f \in [D -> S] /\ IsInjective(f)
  BY <1>3 DEF Gql!SetToSeq, Gql!IsInjective, IsInjective, Gql!Cardinality, Cardinality
<1> HIDE DEF f
<1> DEFINE T == {f[i] : i \in D}
<1> HIDE DEF D
<1>5. f \in Bijection(D, T)
  BY <1>4 DEF Bijection, Injection, Surjection
<1>6. Cardinality(T) = n
  <2>1. ExistsBijection(1..n, T)
    BY <1>5 DEF ExistsBijection, D
  <2> HIDE DEF n, T
  <2> QED BY <1>1, <2>1, FS_CountingElements
<1>7. T \in SUBSET S
  BY <1>4
<1>8. T = S
  <2> HIDE DEF T
  <2> QED BY <1>6, <1>7, FS_Subset
<1>9. \A i, j \in D : f[i] = f[j] => i = j
  BY <1>4 DEF IsInjective
<1>10. \A k \in S : \E i \in D : f[i] = k
  BY <1>8
<1> QED BY <1>1, <1>4, <1>9, <1>10 DEF D, f

\* One batch for each key.
Singles(f, n) == [i \in 1..n |-> <<f[i]>>]

LEMMA SinglesHave ==
  ASSUME NEW S, NEW R \in SUBSET S, NEW n \in Nat, NEW f \in [1..n -> R],
         \A i, j \in 1..n : f[i] = f[j] => i = j,
         \A k \in R : \E i \in 1..n : f[i] = k
  PROVE  /\ Singles(f, n) \in Seq(Seq(S))
         /\ Apart(Singles(f, n)) /\ Queued(Singles(f, n)) = R
<1> DEFINE q == Singles(f, n)
<1>1. q \in Seq(Seq(S))
  <2>1. \A i \in 1..n : <<f[i]>> \in Seq(S)
    OBVIOUS
  <2> QED BY <2>1, IsASeq DEF Singles
<1>2. DOMAIN q = 1..n /\ \A i \in 1..n : q[i] = <<f[i]>>
  BY DEF Singles
<1> HIDE DEF q
<1>3. \A x, a, k : (a \in DOMAIN <<x>> /\ <<x>>[a] = k) <=> (a = 1 /\ x = k)
  OBVIOUS
<1>4. \A i, a, k : Holds(q, i, a, k) <=> (i \in 1..n /\ a = 1 /\ f[i] = k)
  BY ONLY <1>2, <1>3 DEF Holds
<1>5. Apart(q)
  <2>1. \A i, j, a, b, k : Holds(q, i, a, k) /\ Holds(q, j, b, k) => i = j /\ a = b
    BY <1>4
  <2> QED BY <2>1, ApartHas
<1>6. Queued(q) = R
  <2> DEFINE D == 1..n
  <2>1. (\A i \in D : f[i] \in R) /\ (\A k \in R : \E i \in D : f[i] = k)
    OBVIOUS
  <2>2. \A i, a, k : Holds(q, i, a, k) <=> (i \in D /\ a = 1 /\ f[i] = k)
    BY <1>4
  <2> HIDE DEF D
  <2>3. \A k : k \in Queued(q) <=> k \in R
    BY ONLY <2>1, <2>2, QueuedHas
  <2> QED BY <2>3
<1> QED BY <1>1, <1>5, <1>6 DEF q

----
(* A batch: each key is in one place, queued or settled.                     *)

Failing == IF retried THEN failures ELSE retryable

\* Where the keys are.
PlacesInv ==
  /\ queue \in Seq(Seq(Gql!AllKeys)) /\ Apart(queue) /\ retried \in BOOLEAN
  /\ Queued(queue) \cup results \cup missing \cup Failing = Gql!AllKeys
  /\ results \cap missing = {} /\ results \cap Failing = {} /\ missing \cap Failing = {}
  /\ Queued(queue) \cap (results \cup missing \cup Failing) = {}
  /\ ~retried => failures = {}
  /\ retryable \subseteq Gql!AllKeys

\* A key still queued has been asked in the round before at most.
AskedInv ==
  /\ asked \in [Gql!AllKeys -> Nat]
  /\ \A k \in Gql!AllKeys : asked[k] <= (IF retried THEN 2 ELSE 1)
  /\ \A k \in Queued(queue) : asked[k] <= (IF retried THEN 1 ELSE 0)

GqlInv == PlacesInv /\ AskedInv

LEMMA NothingQueued == Queued(<<>>) = {}
BY DEF Queued

LEMMA GqlStart == ASSUME Gql!Init PROVE GqlInv
<1> DEFINE q == <<BatchKeys>>
<1>1. BatchKeys \in Seq(STRING) /\ \A i, j \in DOMAIN BatchKeys : BatchKeys[i] = BatchKeys[j] => i = j
  BY BatchAssumption
<1>2. DOMAIN BatchKeys = 1..Len(BatchKeys) /\ Len(BatchKeys) \in Nat
  BY <1>1
<1>3. BatchKeys \in Seq(Gql!AllKeys)
  <2>1. \A i \in DOMAIN BatchKeys : BatchKeys[i] \in Gql!AllKeys
    BY DEF Gql!AllKeys, Gql!ToSet
  <2> QED BY <1>1, <2>1
<1>4. q \in Seq(Seq(Gql!AllKeys)) /\ DOMAIN q = {1} /\ q[1] = BatchKeys
  BY <1>3
<1> HIDE DEF q
<1>5. Apart(q)
  BY <1>1, <1>4 DEF Apart
<1>6. Queued(q) = Gql!AllKeys
  BY <1>4 DEF Queued, Gql!AllKeys
<1>7. queue = q /\ retried = FALSE /\ results = {} /\ missing = {} /\ retryable = {} /\ failures = {}
  BY DEF Gql!Init, q
<1>8. asked = [k \in Gql!AllKeys |-> 0]
  BY DEF Gql!Init
<1>9. PlacesInv
  BY <1>4, <1>5, <1>6, <1>7 DEF PlacesInv, Failing
<1>10. AskedInv
  BY <1>6, <1>7, <1>8 DEF AskedInv
<1> QED BY <1>9, <1>10 DEF GqlInv

\* The keys of the batch that is sent leave the queue.
LEMMA SentBatch ==
  ASSUME GqlInv, Gql!Sending
  PROVE  LET keys == Gql!ToSet(Gql!Batch) IN
         /\ Tail(queue) \in Seq(Seq(Gql!AllKeys)) /\ Apart(Tail(queue))
         /\ Queued(queue) = keys \cup Queued(Tail(queue))
         /\ keys \cap Queued(Tail(queue)) = {}
         /\ keys \subseteq Gql!AllKeys
<1>1. queue \in Seq(Seq(Gql!AllKeys)) /\ queue # <<>> /\ Apart(queue)
  BY DEF GqlInv, PlacesInv, Gql!Sending
<1>2. Queued(queue) \subseteq Gql!AllKeys
  BY DEF GqlInv, PlacesInv
<1> QED BY <1>1, <1>2, FirstAway DEF Gql!Batch

LEMMA AnsweredStep ==
  ASSUME GqlInv, NEW answer \in [Gql!AllKeys -> Gql!Answers], Gql!Answered(answer)
  PROVE  GqlInv'
<1> DEFINE keys == Gql!ToSet(Gql!Batch)
           rest == Queued(Tail(queue))
           failed == Gql!Failed(keys, answer)
<1>1. /\ Tail(queue) \in Seq(Seq(Gql!AllKeys)) /\ Apart(Tail(queue))
      /\ Queued(queue) = keys \cup rest /\ keys \cap rest = {} /\ keys \subseteq Gql!AllKeys
  BY SentBatch DEF Gql!Answered
<1>2. /\ queue' = Tail(queue) /\ retried' = retried
      /\ results' = results \cup {k \in keys : answer[k] = "object"}
      /\ missing' = missing \cup {k \in keys \ failed : answer[k] = "not found"}
      /\ retryable' = IF retried THEN retryable ELSE retryable \cup failed
      /\ failures' = IF retried THEN failures \cup failed ELSE failures
      /\ asked' = [k \in Gql!AllKeys |-> IF k \in keys THEN asked[k] + 1 ELSE asked[k]]
  BY DEF Gql!Answered
<1> DEFINE found == {k \in keys : answer[k] = "object"}
           gone == {k \in keys \ failed : answer[k] = "not found"}
<1>3. /\ found \cup gone \cup failed = keys
      /\ found \cap gone = {} /\ found \cap failed = {} /\ gone \cap failed = {}
  <2>0. \A k \in keys : answer[k] \in Gql!Answers
    BY <1>1
  <2> HIDE DEF keys
  <2>1. failed = {k \in keys : answer[k] = "other error" \/ (retried /\ answer[k] = "not found")}
    BY DEF Gql!Failed
  <2> HIDE DEF failed
  <2>2. "object" # "not found" /\ "object" # "other error"
    OBVIOUS
  <2>3. \A k \in keys : answer[k] = "object" \/ answer[k] = "not found" \/ answer[k] = "other error"
    BY <2>0 DEF Gql!Answers
  <2>4. \A k \in keys : k \in found \/ k \in gone \/ k \in failed
    BY <2>1, <2>3
  <2>5. failed \subseteq keys
    BY <2>1
  <2>6. found \cap failed = {}
    BY <2>1, <2>2
  <2> QED BY <2>2, <2>4, <2>5, <2>6
<1> HIDE DEF keys, rest, failed, found, gone
<1>4. Failing' = Failing \cup failed
  BY <1>2 DEF Failing
<1>5. /\ results' = results \cup found /\ missing' = missing \cup gone
      /\ Queued(queue)' = rest
  BY <1>2 DEF found, gone, rest
<1>6. /\ Queued(queue) \cup results \cup missing \cup Failing = Gql!AllKeys
      /\ results \cap missing = {} /\ results \cap Failing = {} /\ missing \cap Failing = {}
      /\ Queued(queue) \cap (results \cup missing \cup Failing) = {}
      /\ (~retried => failures = {}) /\ retryable \subseteq Gql!AllKeys /\ retried \in BOOLEAN
  BY DEF GqlInv, PlacesInv
<1>7. PlacesInv'
  <2>1. /\ rest \cup results' \cup missing' \cup Failing' = Gql!AllKeys
        /\ results' \cap missing' = {} /\ results' \cap Failing' = {} /\ missing' \cap Failing' = {}
        /\ rest \cap (results' \cup missing' \cup Failing') = {}
    BY ONLY <1>1, <1>3, <1>4, <1>5, <1>6
  <2>2. ~retried' => failures' = {}
    BY ONLY <1>2, <1>6
  <2>3. retryable' \subseteq Gql!AllKeys
    BY ONLY <1>1, <1>2, <1>3, <1>6
  <2>4. Gql!AllKeys' = Gql!AllKeys
    BY DEF Gql!AllKeys
  <2>5. queue' \in Seq(Seq(Gql!AllKeys)) /\ Apart(queue') /\ retried' \in BOOLEAN
    BY <1>1, <1>2, <1>6
  <2>6. Apart(queue)'
    BY <2>5
  <2> QED BY ONLY <1>5, <2>1, <2>2, <2>3, <2>4, <2>5, <2>6 DEF PlacesInv
<1>8. AskedInv'
  <2>1. /\ asked \in [Gql!AllKeys -> Nat]
        /\ \A k \in Gql!AllKeys : asked[k] <= (IF retried THEN 2 ELSE 1)
        /\ \A k \in Queued(queue) : asked[k] <= (IF retried THEN 1 ELSE 0)
    BY DEF GqlInv, AskedInv
  <2>2. asked' \in [Gql!AllKeys -> Nat]
    <3>1. \A k \in Gql!AllKeys : asked[k] \in Nat /\ asked[k] + 1 \in Nat
      BY ONLY <2>1
    <3> QED BY ONLY <1>2, <3>1
  <2>3. ASSUME NEW k \in Gql!AllKeys
        PROVE  asked'[k] <= (IF retried THEN 2 ELSE 1)
    <3>1. k \in keys => asked[k] <= (IF retried THEN 1 ELSE 0)
      BY ONLY <1>1, <2>1
    <3>2. asked[k] \in Nat /\ asked[k] <= (IF retried THEN 2 ELSE 1)
      BY ONLY <2>1, k \in Gql!AllKeys
    <3>3. asked'[k] = IF k \in keys THEN asked[k] + 1 ELSE asked[k]
      BY ONLY <1>2, k \in Gql!AllKeys
    <3> QED BY ONLY <3>1, <3>2, <3>3
  <2>4. ASSUME NEW k \in rest
        PROVE  asked'[k] <= (IF retried THEN 1 ELSE 0)
    <3>1. k \in Gql!AllKeys /\ k \notin keys /\ asked[k] <= (IF retried THEN 1 ELSE 0)
      BY ONLY <1>1, <1>6, <2>1, k \in rest
    <3>2. asked'[k] = asked[k]
      BY ONLY <1>2, <3>1
    <3> QED BY ONLY <3>1, <3>2
  <2>5. Gql!AllKeys' = Gql!AllKeys
    BY DEF Gql!AllKeys
  <2> QED BY ONLY <1>2, <1>5, <2>2, <2>3, <2>4, <2>5 DEF AskedInv
<1> QED BY <1>7, <1>8 DEF GqlInv

LEMMA HeavyStep ==
  ASSUME GqlInv, Gql!TooHeavy
  PROVE  GqlInv'
<1> DEFINE keys == Gql!ToSet(Gql!Batch)
           rest == Queued(Tail(queue))
<1>0. Gql!AllKeys' = Gql!AllKeys
  BY DEF Gql!AllKeys
<1>1. /\ Tail(queue) \in Seq(Seq(Gql!AllKeys)) /\ Apart(Tail(queue))
      /\ Queued(queue) = keys \cup rest /\ keys \cap rest = {} /\ keys \subseteq Gql!AllKeys
  BY SentBatch DEF Gql!TooHeavy
<1>2. /\ queue \in Seq(Seq(Gql!AllKeys)) /\ Apart(queue) /\ queue # <<>>
      /\ Queued(queue) \cup results \cup missing \cup Failing = Gql!AllKeys
      /\ results \cap missing = {} /\ results \cap Failing = {} /\ missing \cap Failing = {}
      /\ Queued(queue) \cap (results \cup missing \cup Failing) = {}
      /\ (~retried => failures = {}) /\ retryable \subseteq Gql!AllKeys /\ retried \in BOOLEAN
  BY DEF GqlInv, PlacesInv, Gql!TooHeavy, Gql!Sending
<1>3. /\ asked \in [Gql!AllKeys -> Nat]
      /\ \A k \in Gql!AllKeys : asked[k] <= (IF retried THEN 2 ELSE 1)
      /\ \A k \in Queued(queue) : asked[k] <= (IF retried THEN 1 ELSE 0)
  BY DEF GqlInv, AskedInv
<1>4. retried' = retried /\ results' = results /\ missing' = missing /\ asked' = asked
  BY DEF Gql!TooHeavy
<1>5. CASE Len(Gql!Batch) > 1
  <2>1. queue' = Halved(queue) /\ retryable' = retryable /\ failures' = failures
    BY <1>5 DEF Gql!TooHeavy, Gql!Split, Gql!Batch, Halved
  <2>2. queue' \in Seq(Seq(Gql!AllKeys)) /\ Apart(queue') /\ Queued(queue') = Queued(queue)
    BY <1>2, <2>1, HalvingKeeps
  <2>3. Failing' = Failing
    BY <1>4, <2>1 DEF Failing
  <2>4. Apart(queue)' /\ Queued(queue)' = Queued(queue)
    BY <2>2
  <2>5. PlacesInv'
    BY ONLY <1>0, <1>2, <1>4, <2>1, <2>2, <2>3, <2>4 DEF PlacesInv
  <2>6. AskedInv'
    BY ONLY <1>0, <1>3, <1>4, <2>4 DEF AskedInv
  <2> QED BY <2>5, <2>6 DEF GqlInv
<1>6. CASE ~(Len(Gql!Batch) > 1)
  <2>1. /\ queue' = Tail(queue)
        /\ retryable' = IF retried THEN retryable ELSE retryable \cup keys
        /\ failures' = IF retried THEN failures \cup keys ELSE failures
    BY <1>6 DEF Gql!TooHeavy
  <2> HIDE DEF keys, rest
  <2>2. Failing' = Failing \cup keys
    BY <1>4, <2>1 DEF Failing
  <2>3. queue' \in Seq(Seq(Gql!AllKeys)) /\ Apart(queue)' /\ Queued(queue)' = rest
    BY <1>1, <2>1 DEF rest
  <2>4. /\ rest \cup results' \cup missing' \cup Failing' = Gql!AllKeys
        /\ results' \cap missing' = {} /\ results' \cap Failing' = {} /\ missing' \cap Failing' = {}
        /\ rest \cap (results' \cup missing' \cup Failing') = {}
    BY ONLY <1>1, <1>2, <1>4, <2>2
  <2>5. (~retried' => failures' = {}) /\ retryable' \subseteq Gql!AllKeys
    BY ONLY <1>1, <1>2, <1>4, <2>1
  <2>6. PlacesInv'
    BY ONLY <1>0, <1>2, <1>4, <2>3, <2>4, <2>5 DEF PlacesInv
  <2>7. AskedInv'
    BY ONLY <1>0, <1>1, <1>3, <1>4, <2>3 DEF AskedInv
  <2> QED BY <2>6, <2>7 DEF GqlInv
<1> QED BY <1>5, <1>6

LEMMA AgainStep ==
  ASSUME GqlInv, Gql!AskAgain
  PROVE  GqlInv'
<1>0. Gql!AllKeys' = Gql!AllKeys
  BY DEF Gql!AllKeys
<1>1. /\ results \cup missing \cup retryable = Gql!AllKeys
      /\ results \cap missing = {} /\ results \cap retryable = {} /\ missing \cap retryable = {}
      /\ failures = {} /\ retryable \subseteq Gql!AllKeys
  BY NothingQueued DEF GqlInv, PlacesInv, Gql!AskAgain, Failing
<1>2. /\ retried' = TRUE /\ results' = results /\ missing' = missing /\ asked' = asked
      /\ retryable' = retryable /\ failures' = failures
      /\ queue' = Singles(Gql!SetToSeq(retryable), Cardinality(retryable))
  BY DEF Gql!AskAgain, Singles, Gql!Cardinality, Cardinality
<1>3. IsFiniteSet(Gql!AllKeys)
  BY BatchAssumption, FiniteImage DEF Gql!AllKeys
<1>4. IsFiniteSet(retryable)
  BY <1>1, <1>3, FS_Subset
<1>5. queue' \in Seq(Seq(Gql!AllKeys)) /\ Apart(queue') /\ Queued(queue') = retryable
  <2> DEFINE n == Cardinality(retryable)
             f == Gql!SetToSeq(retryable)
  <2>1. /\ n \in Nat /\ f \in [1..n -> retryable]
        /\ \A i, j \in 1..n : f[i] = f[j] => i = j
        /\ \A k \in retryable : \E i \in 1..n : f[i] = k
    BY <1>4, SetToSeqIs
  <2>2. retryable \in SUBSET Gql!AllKeys
    BY <1>1
  <2>3. queue' = Singles(f, n)
    BY <1>2
  <2> HIDE DEF n, f
  <2> QED BY ONLY <2>1, <2>2, <2>3, SinglesHave
<1>6. Apart(queue)' /\ Queued(queue)' = retryable /\ Failing' = {}
  BY <1>1, <1>2, <1>5 DEF Failing
<1>7. PlacesInv'
  BY ONLY <1>0, <1>1, <1>2, <1>5, <1>6 DEF PlacesInv
<1>8. asked \in [Gql!AllKeys -> Nat] /\ \A k \in Gql!AllKeys : asked[k] <= 1
  BY DEF GqlInv, AskedInv, Gql!AskAgain
<1>9. AskedInv'
  BY ONLY <1>0, <1>1, <1>2, <1>6, <1>8 DEF AskedInv
<1> QED BY <1>7, <1>9 DEF GqlInv

LEMMA GqlStep ==
  ASSUME GqlInv, [Gql!Next]_(Gql!vars)
  PROVE  GqlInv'
<1>1. CASE Gql!OtherStatus \/ UNCHANGED Gql!vars
  <2>1. /\ queue' = queue /\ retried' = retried /\ results' = results /\ missing' = missing
        /\ retryable' = retryable /\ failures' = failures /\ asked' = asked
    BY <1>1 DEF Gql!OtherStatus, Gql!vars
  <2>2. Gql!AllKeys' = Gql!AllKeys
    BY DEF Gql!AllKeys
  <2>3. Failing' = Failing /\ Apart(queue)' = Apart(queue) /\ Queued(queue)' = Queued(queue)
    BY <2>1 DEF Failing
  <2> QED BY <2>1, <2>2, <2>3 DEF GqlInv, PlacesInv, AskedInv
<1> QED BY <1>1, AnsweredStep, HeavyStep, AgainStep DEF Gql!Next

LEMMA GqlAlone == PartsSpec => Gql!Spec
<1>1. PartsInit => Gql!Init
  BY DEF PartsInit
<1>2. [PartsNext]_partVars => [Gql!Next]_(Gql!vars)
  BY DEF PartsNext, Only, partVars, gqlVars, Gql!vars
<1> QED BY <1>1, <1>2, PTL DEF PartsSpec, Gql!Spec

\* Halving and asking again lose no key and count none twice, however the
\* gateway and the aliases fail (client_gql.py).
THEOREM EveryKey == PartsSpec => []EveryKeyHasAnAnswer
<1>1. GqlInv => Gql!EveryKeyHasAnAnswer
  <2> SUFFICES ASSUME GqlInv PROVE Gql!EveryKeyHasAnAnswer
    OBVIOUS
  <2>1. ASSUME Gql!Done PROVE results \cup missing \cup failures = Gql!AllKeys
    BY <2>1, NothingQueued DEF Gql!Done, GqlInv, PlacesInv, Failing
  <2>2. results \cap failures = {} /\ missing \cap failures = {} /\ results \cap missing = {}
    BY DEF GqlInv, PlacesInv, Failing
  <2>3. \A k \in Gql!AllKeys : asked[k] <= 2
    BY DEF GqlInv, AskedInv
  <2> QED BY <2>1, <2>2, <2>3 DEF Gql!EveryKeyHasAnAnswer
<1>2. Gql!Init => GqlInv
  BY GqlStart
<1>3. GqlInv /\ [Gql!Next]_(Gql!vars) => GqlInv'
  BY GqlStep
<1>4. GqlInv => EveryKeyHasAnAnswer
  BY <1>1 DEF EveryKeyHasAnAnswer
<1> QED BY <1>2, <1>3, <1>4, GqlAlone, PTL DEF Gql!Spec

----
(* The deep dive. *)

Verdicts == Dive!Kinds \X Dive!Weeks

\* The verdicts bought are in the cache.
BoughtInv ==
  /\ answered \in [Verdicts -> Nat]
  /\ \A k \in Verdicts : answered[k] <= 1 /\ (answered[k] = 1 => k \in cache)

Stages == Len(StageB)

DiveOf(w, a, u, s, r, b, x) ==
  [on |-> TRUE, week |-> w, at |-> a, used |-> u, searches |-> s, rounds |-> r, bought |-> b,
   wasted |-> x]

\* What was bought is charged, held by the category at hand, or wasted.  A
\* category being asked about has no verdict yet, one that is not holds nothing.
Sound(w, a, u, s, r, b, x) ==
  /\ w \in Dive!Weeks /\ a \in Nat \ {0} /\ a <= Stages + 1
  /\ u \in Nat /\ s \in Nat /\ r \in Nat /\ b \in Nat /\ x \in Nat
  /\ u + s <= MaxSearches /\ r < MaxRounds
  /\ b <= MaxSearches * x + u + s
  /\ r = 0 => s = 0
  /\ r > 0 => a <= Stages /\ <<StageB[a], w>> \notin cache

DiveInv ==
  /\ week \in Dive!Weeks
  /\ cache \subseteq Verdicts
  /\ BoughtInv
  /\ \/ dive = Dive!Idle
     \/ \E w, a, u, s, r, b, x : dive = DiveOf(w, a, u, s, r, b, x) /\ Sound(w, a, u, s, r, b, x)

\* The record, field by field: the provers do not see at once that records of
\* so many fields are equal.
Fields == {"on", "week", "at", "used", "searches", "rounds", "bought", "wasted"}

LEMMA SameFields ==
  ASSUME NEW f, NEW g, f = [i \in Fields |-> f[i]], g = [i \in Fields |-> g[i]],
         f["on"] = g["on"], f["week"] = g["week"], f["at"] = g["at"], f["used"] = g["used"],
         f["searches"] = g["searches"], f["rounds"] = g["rounds"], f["bought"] = g["bought"],
         f["wasted"] = g["wasted"]
  PROVE  f = g
<1>1. \A i \in Fields : f[i] = g[i]
  BY DEF Fields
<1> HIDE DEF Fields
<1> QED BY <1>1

LEMMA DiveHasFields ==
  \A w, a, u, s, r, b, x :
    DiveOf(w, a, u, s, r, b, x) = [i \in Fields |-> DiveOf(w, a, u, s, r, b, x)[i]]
BY DEF Fields, DiveOf

LEMMA DiveIs ==
  ASSUME NEW w, NEW a, NEW u, NEW s, NEW r, NEW b, NEW x, NEW f, f = [i \in Fields |-> f[i]],
         f["on"] = DiveOf(w, a, u, s, r, b, x)["on"], f["week"] = w, f["at"] = a, f["used"] = u,
         f["searches"] = s, f["rounds"] = r, f["bought"] = b, f["wasted"] = x
  PROVE  f = DiveOf(w, a, u, s, r, b, x)
<1> DEFINE g == DiveOf(w, a, u, s, r, b, x)
<1>1. g = [i \in Fields |-> g[i]]
  BY DiveHasFields
<1>2. /\ g["week"] = w /\ g["at"] = a /\ g["used"] = u /\ g["searches"] = s
      /\ g["rounds"] = r /\ g["bought"] = b /\ g["wasted"] = x
  BY DEF DiveOf
<1>3. f["on"] = g["on"]
  OBVIOUS
<1> HIDE DEF g
<1>4. f = g
  BY <1>1, <1>2, <1>3, SameFields
<1> QED BY <1>4 DEF g

LEMMA DiveNumbers ==
  MaxSearches \in Nat /\ Stages \in Nat /\ MaxWeek \in Nat \ {0} /\ MaxRounds \in Nat /\ MaxRounds > 0
BY DiveAssumption DEF Stages

LEMMA KindOf ==
  ASSUME NEW i \in Nat \ {0}, i <= Stages PROVE StageB[i] \in Dive!Kinds
BY DiveAssumption DEF Dive!Kinds, Stages

LEMMA IdleIsOff == Dive!Idle.on = FALSE
BY DEF Dive!Idle

LEMMA OneMoreWasted ==
  ASSUME NEW m \in Nat, NEW w \in Nat PROVE m * (w + 1) = m * w + m /\ m * w \in Nat
OBVIOUS

\* The categories still to come, after a turn.
LEMMA TurnIsSound ==
  ASSUME NEW w \in Dive!Weeks, NEW a \in Nat \ {0}, NEW u \in Nat, NEW b \in Nat, NEW x \in Nat,
         a <= Stages, u <= MaxSearches, b <= MaxSearches * x + u,
         cache' \in SUBSET Verdicts
  PROVE  Sound(w, a + 1, u, 0, 0, b, x)'
<1>1. MaxSearches * x \in Nat
  BY DiveNumbers, OneMoreWasted
<1> QED BY <1>1, DiveNumbers DEF Sound

\* What a step does to a dive that is under way.
LEMMA WorkStep ==
  ASSUME NEW w, NEW a, NEW u, NEW s, NEW r, NEW b, NEW x,
         dive = DiveOf(w, a, u, s, r, b, x), Sound(w, a, u, s, r, b, x),
         cache \subseteq Verdicts, BoughtInv, a <= Stages,
         Dive!Cached \/ Dive!RunsOut \/ \E n \in 0..MaxSearches : Dive!Pause(n) \/ Dive!Verdict(n)
  PROVE  /\ \E w1, a1, u1, s1, r1, b1, x1 :
              dive' = DiveOf(w1, a1, u1, s1, r1, b1, x1) /\ Sound(w1, a1, u1, s1, r1, b1, x1)'
         /\ cache' \subseteq Verdicts /\ BoughtInv'
<1> DEFINE Ok == \E w1, a1, u1, s1, r1, b1, x1 :
              dive' = DiveOf(w1, a1, u1, s1, r1, b1, x1) /\ Sound(w1, a1, u1, s1, r1, b1, x1)'
<1>0. /\ w \in Dive!Weeks /\ a \in Nat \ {0}
      /\ u \in Nat /\ s \in Nat /\ r \in Nat /\ b \in Nat /\ x \in Nat
      /\ u + s <= MaxSearches
      /\ b <= MaxSearches * x + u + s
      /\ MaxSearches \in Nat /\ MaxSearches * x \in Nat
  BY DiveNumbers, OneMoreWasted DEF Sound
<1>1. /\ dive.week = w /\ dive.at = a /\ dive.used = u /\ dive.searches = s /\ dive.rounds = r
      /\ dive.bought = b /\ dive.wasted = x
  BY DEF DiveOf
<1>f. dive = [i \in Fields |-> dive[i]]
  BY DiveHasFields
<1>o. \A w1, a1, u1, s1, r1, b1, x1 : DiveOf(w1, a1, u1, s1, r1, b1, x1)["on"] = dive["on"]
  BY DEF DiveOf
<1>2. Dive!Key = <<StageB[a], w>> /\ Dive!Key \in Verdicts
  BY <1>0, <1>1, KindOf DEF Dive!Key, Dive!Category, Verdicts
<1>3. Dive!Remaining = MaxSearches - (u + s) /\ \A n \in Nat : Dive!Charged(n) = u + s + n
  BY <1>0, <1>1 DEF Dive!Remaining, Dive!Charged
<1>4. \A v : Dive!Turn(v) = DiveOf(w, a + 1, v, 0, 0, b, x)
  <2> SUFFICES ASSUME NEW v PROVE Dive!Turn(v) = DiveOf(w, a + 1, v, 0, 0, b, x)
    OBVIOUS
  <2> DEFINE t == Dive!Turn(v)
  <2>a. t = [i \in Fields |-> t[i]]
    BY <1>0, <1>1, <1>f DEF Dive!Turn
  <2>b. /\ t["week"] = w /\ t["at"] = a + 1 /\ t["used"] = v /\ t["searches"] = 0
        /\ t["rounds"] = 0 /\ t["bought"] = b /\ t["wasted"] = x
        /\ t["on"] = dive["on"]
    BY <1>0, <1>1, <1>f DEF Dive!Turn, Fields
  <2> HIDE DEF t
  <2>c. t = DiveOf(w, a + 1, v, 0, 0, b, x)
    BY <2>a, <2>b, <1>o, DiveIs
  <2> QED BY <2>c DEF t
<1>5. CASE Dive!Cached
  <2>1. r = 0 /\ s = 0
    BY <1>5, <1>1 DEF Dive!Cached, Sound
  <2>2. dive' = DiveOf(w, a + 1, u, 0, 0, b, x) /\ cache' = cache /\ answered' = answered
    BY <1>5, <1>1, <1>4 DEF Dive!Cached
  <2>3. Sound(w, a + 1, u, 0, 0, b, x)'
    BY <1>0, <2>1, <2>2, TurnIsSound
  <2> QED BY <2>2, <2>3 DEF BoughtInv
<1>6. CASE Dive!RunsOut
  <2> DEFINE x1 == IF s > 0 THEN x + 1 ELSE x
  <2>0. x1 = IF s > 0 THEN x + 1 ELSE x
    OBVIOUS
  <2> HIDE DEF x1
  <2>1. dive' = DiveOf(w, a + 1, u, 0, 0, b, x1) /\ cache' = cache /\ answered' = answered
    <3> DEFINE t == Dive!Turn(u)
    <3>1. /\ t = [i \in Fields |-> t[i]] /\ t["on"] = dive["on"]
          /\ t["week"] = w /\ t["at"] = a + 1 /\ t["used"] = u /\ t["searches"] = 0
          /\ t["rounds"] = 0 /\ t["bought"] = b /\ t["wasted"] = x
      BY <1>4, <1>o, DiveHasFields DEF DiveOf
    <3>2. dive' = [t EXCEPT !.wasted = IF s > 0 THEN @ + 1 ELSE @]
      BY <1>6, <1>1 DEF Dive!RunsOut
    <3> HIDE DEF t
    <3>a. dive' = [i \in Fields |-> dive'[i]]
      BY <3>1, <3>2, <2>0
    <3>b. /\ dive'["week"] = w /\ dive'["at"] = a + 1 /\ dive'["used"] = u /\ dive'["searches"] = 0
          /\ dive'["rounds"] = 0 /\ dive'["bought"] = b /\ dive'["wasted"] = x1
          /\ dive'["on"] = dive["on"]
      BY <3>1, <3>2, <2>0 DEF Fields
    <3>c. dive'["on"] = DiveOf(w, a + 1, u, 0, 0, b, x1)["on"]
      BY <3>b, <1>o
    <3>d. dive' = DiveOf(w, a + 1, u, 0, 0, b, x1)
      BY <3>a, <3>b, <3>c, DiveIs
    <3> QED BY <3>d, <1>6 DEF Dive!RunsOut
  <2>2. x1 \in Nat /\ b <= MaxSearches * x1 + u
    <3>1. CASE s > 0
      BY <3>1, <1>0, <2>0, OneMoreWasted
    <3>2. CASE s = 0
      BY <3>2, <1>0, <2>0
    <3> QED BY <3>1, <3>2, <1>0
  <2>3. u <= MaxSearches
    BY <1>0
  <2>4. Sound(w, a + 1, u, 0, 0, b, x1)'
    BY <1>0, <2>1, <2>2, <2>3, TurnIsSound
  <2> QED BY <2>1, <2>4 DEF BoughtInv
<1>7. ASSUME NEW n \in 0..MaxSearches, Dive!Pause(n)
      PROVE  Ok /\ cache' \subseteq Verdicts /\ BoughtInv'
  <2>1. dive' = DiveOf(w, a, u, s + n, r + 1, b + n, x) /\ cache' = cache /\ answered' = answered
    <3>a. dive' = [i \in Fields |-> dive'[i]]
      BY <1>7, <1>0, <1>1, <1>f DEF Dive!Pause
    <3>b. /\ dive'["week"] = w /\ dive'["at"] = a /\ dive'["used"] = u /\ dive'["searches"] = s + n
          /\ dive'["rounds"] = r + 1 /\ dive'["bought"] = b + n /\ dive'["wasted"] = x
          /\ dive'["on"] = dive["on"]
      BY <1>7, <1>0, <1>1, <1>f DEF Dive!Pause, Fields
    <3>c. dive'["on"] = DiveOf(w, a, u, s + n, r + 1, b + n, x)["on"]
      BY <3>b, <1>o
    <3>d. dive' = DiveOf(w, a, u, s + n, r + 1, b + n, x)
      BY <3>a, <3>b, <3>c, DiveIs
    <3> QED BY <3>d, <1>7 DEF Dive!Pause
  <2>2. n \in Nat /\ n <= MaxSearches - (u + s)
    <3>1. n \in Nat
      BY DiveNumbers
    <3>2. n <= MaxSearches - (u + s)
      BY <1>7, <1>3 DEF Dive!Pause
    <3> QED BY <3>1, <3>2
  <2>3. Dive!Key \notin cache
    BY <1>7, <1>0, <1>1, <1>2 DEF Dive!Pause, Dive!Asking, Sound
  <2>4. Sound(w, a, u, s + n, r + 1, b + n, x)'
    <3>0. r + 1 < MaxRounds
      BY <1>7, <1>1 DEF Dive!Pause
    <3>1. /\ s + n \in Nat /\ r + 1 \in Nat /\ b + n \in Nat /\ r + 1 > 0 /\ a <= Stages + 1
          /\ u + (s + n) <= MaxSearches
          /\ b + n <= MaxSearches * x + u + (s + n)
      BY <1>0, <2>2, DiveNumbers
    <3> QED BY <3>0, <3>1, <1>0, <1>2, <2>1, <2>3 DEF Sound
  <2> QED BY <2>1, <2>4 DEF BoughtInv
<1>8. ASSUME NEW n \in 0..MaxSearches, Dive!Verdict(n)
      PROVE  Ok /\ cache' \subseteq Verdicts /\ BoughtInv'
  <2>1. /\ dive' = DiveOf(w, a + 1, u + s + n, 0, 0, b + n, x)
        /\ cache' = cache \cup {Dive!Key}
        /\ answered' = [answered EXCEPT ![Dive!Key] = @ + 1]
    <3> DEFINE t == Dive!Turn(Dive!Charged(n))
    <3>1. Dive!Charged(n) = u + s + n
      BY <1>3, DiveNumbers
    <3>2. /\ t = [i \in Fields |-> t[i]] /\ t["on"] = dive["on"]
          /\ t["week"] = w /\ t["at"] = a + 1 /\ t["used"] = u + s + n /\ t["searches"] = 0
          /\ t["rounds"] = 0 /\ t["bought"] = b /\ t["wasted"] = x
      BY <3>1, <1>4, <1>o, DiveHasFields DEF DiveOf
    <3>3. dive' = [t EXCEPT !.bought = @ + n]
      BY <1>8 DEF Dive!Verdict
    <3> HIDE DEF t
    <3>a. dive' = [i \in Fields |-> dive'[i]]
      BY <3>2, <3>3
    <3>b. /\ dive'["week"] = w /\ dive'["at"] = a + 1 /\ dive'["used"] = u + s + n /\ dive'["searches"] = 0
          /\ dive'["rounds"] = 0 /\ dive'["bought"] = b + n /\ dive'["wasted"] = x
          /\ dive'["on"] = dive["on"]
      BY <3>2, <3>3 DEF Fields
    <3>c. dive'["on"] = DiveOf(w, a + 1, u + s + n, 0, 0, b + n, x)["on"]
      BY <3>b, <1>o
    <3>d. dive' = DiveOf(w, a + 1, u + s + n, 0, 0, b + n, x)
      BY <3>a, <3>b, <3>c, DiveIs
    <3> QED BY <3>d, <1>8 DEF Dive!Verdict, Dive!Key
  <2>2. n \in Nat /\ n <= MaxSearches - (u + s)
    <3>1. n \in Nat
      BY DiveNumbers
    <3>2. n <= MaxSearches - (u + s)
      BY <1>8, <1>3 DEF Dive!Verdict
    <3> QED BY <3>1, <3>2
  <2>3. Dive!Key \notin cache
    BY <1>8, <1>0, <1>1, <1>2 DEF Dive!Verdict, Dive!Asking, Sound
  <2>4. Sound(w, a + 1, u + s + n, 0, 0, b + n, x)'
    <3>1. /\ u + s + n \in Nat /\ b + n \in Nat
          /\ u + s + n <= MaxSearches
          /\ b + n <= MaxSearches * x + (u + s + n)
      BY <1>0, <2>2
    <3> QED BY <3>1, <1>0, <1>2, <2>1, TurnIsSound
  <2>5. BoughtInv'
    BY <1>2, <2>1, <2>3 DEF BoughtInv
  <2> QED BY <1>2, <2>1, <2>4, <2>5
<1> QED BY <1>5, <1>6, <1>7, <1>8

LEMMA DiveStep ==
  ASSUME DiveInv, [Dive!Next]_(Dive!vars)
  PROVE  DiveInv'
<1>u. /\ \A w, a, u, s, r, b, x : cache' = cache /\ Sound(w, a, u, s, r, b, x) => Sound(w, a, u, s, r, b, x)'
      /\ cache' = cache /\ answered' = answered /\ BoughtInv => BoughtInv'
  BY DEF Sound, BoughtInv
<1>1. CASE Dive!NextWeek
  <2>1. week' \in Dive!Weeks
    BY DiveNumbers, <1>1 DEF Dive!NextWeek, DiveInv, Dive!Weeks
  <2> QED BY <1>u, <1>1, <2>1 DEF Dive!NextWeek, DiveInv
<1>2. CASE Dive!Start
  <2>1. Dive!Begin = DiveOf(week, 1, 0, 0, 0, 0, 0)
    BY DEF Dive!Begin, DiveOf
  <2>2. Sound(week, 1, 0, 0, 0, 0, 0)'
    BY <1>2, DiveNumbers DEF Dive!Start, Sound, DiveInv
  <2> QED BY <1>2, <2>1, <2>2 DEF Dive!Start, DiveInv, BoughtInv
<1>3. CASE Dive!Cached \/ Dive!RunsOut \/ \E n \in 0..MaxSearches : Dive!Pause(n) \/ Dive!Verdict(n)
  <2>1. dive.on /\ dive.at <= Stages /\ week' = week
    BY <1>3 DEF Dive!Cached, Dive!RunsOut, Dive!Pause, Dive!Verdict, Dive!Asking, Dive!Working, Stages
  <2>2. PICK w, a, u, s, r, b, x :
          dive = DiveOf(w, a, u, s, r, b, x) /\ Sound(w, a, u, s, r, b, x)
    BY <2>1, IdleIsOff DEF DiveInv
  <2>3. a <= Stages
    BY <2>1, <2>2 DEF DiveOf
  <2>4. cache \subseteq Verdicts /\ BoughtInv /\ week \in Dive!Weeks
    BY DEF DiveInv
  <2>5. /\ \E w1, a1, u1, s1, r1, b1, x1 :
             dive' = DiveOf(w1, a1, u1, s1, r1, b1, x1) /\ Sound(w1, a1, u1, s1, r1, b1, x1)'
        /\ cache' \subseteq Verdicts /\ BoughtInv'
    BY <1>3, <2>2, <2>3, <2>4, WorkStep
  <2> QED BY <2>1, <2>4, <2>5 DEF DiveInv
<1>4. CASE Dive!Fails \/ Dive!Finish
  BY <1>4 DEF Dive!Fails, Dive!Finish, DiveInv, BoughtInv
<1>5. CASE UNCHANGED Dive!vars
  BY <1>u, <1>5 DEF Dive!vars, DiveInv
<1> QED BY <1>1, <1>2, <1>3, <1>4, <1>5 DEF Dive!Next

LEMMA DiveStart == ASSUME Dive!Init PROVE DiveInv
<1>1. answered = [k \in Verdicts |-> 0]
  BY DEF Dive!Init, Verdicts
<1> QED BY <1>1, DiveNumbers DEF Dive!Init, DiveInv, BoughtInv, Dive!Weeks

\* The parts' steps are those of the deep dive, or leave it alone.
LEMMA DiveAlone == PartsSpec => Dive!Spec
<1>1. PartsInit => Dive!Init
  BY DEF PartsInit
<1>2. [PartsNext]_partVars => [Dive!Next]_(Dive!vars)
  BY DEF PartsNext, Only, partVars, diveVars, Dive!vars
<1> QED BY <1>1, <1>2, PTL DEF PartsSpec, Dive!Spec

LEMMA DiveInvariance == PartsSpec => []DiveInv
<1>1. Dive!Init => DiveInv
  BY DiveStart
<1>2. DiveInv /\ [Dive!Next]_(Dive!vars) => DiveInv'
  BY DiveStep
<1> QED BY <1>1, <1>2, DiveAlone, PTL DEF Dive!Spec

\* However often the server pauses and whichever categories run out, the
\* categories of a dive share the budget (deepdive.py, _score_category).
THEOREM Budget == PartsSpec => []BudgetHolds
<1>1. DiveInv => Dive!BudgetHolds
  <2> SUFFICES ASSUME DiveInv, dive.on PROVE dive.bought <= MaxSearches * (1 + dive.wasted)
    BY DEF Dive!BudgetHolds
  <2>1. PICK w, a, u, s, r, b, x :
          dive = DiveOf(w, a, u, s, r, b, x) /\ Sound(w, a, u, s, r, b, x)
    BY IdleIsOff DEF DiveInv
  <2>2. dive.bought = b /\ dive.wasted = x
    BY <2>1 DEF DiveOf
  <2>3. /\ u \in Nat /\ s \in Nat /\ b \in Nat /\ x \in Nat /\ MaxSearches \in Nat
        /\ u + s <= MaxSearches /\ b <= MaxSearches * x + u + s
    BY <2>1, DiveNumbers DEF Sound
  <2>4. MaxSearches * (x + 1) = MaxSearches * x + MaxSearches /\ MaxSearches * x \in Nat
    BY <2>3, OneMoreWasted
  <2>5. b <= MaxSearches * (x + 1) /\ x + 1 = 1 + x
    BY <2>3, <2>4
  <2> QED BY <2>2, <2>5
<1> QED BY <1>1, DiveInvariance, PTL DEF BudgetHolds

\* A verdict is bought once a week, over dives that fail and are repeated.
THEOREM BoughtOnce == PartsSpec => []WeekIsBoughtOnce
<1>1. DiveInv => Dive!WeekIsBoughtOnce
  BY DEF DiveInv, BoughtInv, Verdicts, Dive!WeekIsBoughtOnce
<1> QED BY <1>1, DiveInvariance, PTL DEF WeekIsBoughtOnce
----
(* Ventures: what a repository has by itself does not depend on pitches.     *)

ByThemselves(all) == all \ Venture!AboutPitches(all)

\* Two states of silver that differ by facts about pitches only.
SameButPitches == ByThemselves(known)' = ByThemselves(known)

LEMMA SameFacts ==
  ASSUME SameButPitches, NEW f, f[1] \notin {"pitched", "pitcher"}
  PROVE  f \in known' <=> f \in known
BY DEF SameButPitches, ByThemselves, Venture!AboutPitches

LEMMA SameOf ==
  ASSUME SameButPitches, NEW kind, kind \notin {"pitched", "pitcher"}
  PROVE  {f \in known' : f[1] = kind} = {f \in known : f[1] = kind}
BY SameFacts

LEMMA SameKinds ==
  ASSUME SameButPitches
  PROVE  /\ Venture!Of("contribution")' = Venture!Of("contribution")
         /\ Venture!Of("officer")' = Venture!Of("officer")
         /\ Venture!Of("startup")' = Venture!Of("startup")
         /\ Venture!Of("like a venture")' = Venture!Of("like a venture")
         /\ \A r, c : <<"refers", r, c>> \in known' <=> <<"refers", r, c>> \in known
<1>1. \A kind : kind \notin {"pitched", "pitcher"} => Venture!Of(kind)' = Venture!Of(kind)
  BY SameOf DEF Venture!Of
<1>2. \A r, c : <<"refers", r, c>> \in known' <=> <<"refers", r, c>> \in known
  <2>1. \A r, c : <<"refers", r, c>>[1] = "refers"
    OBVIOUS
  <2> QED BY <2>1, SameFacts
<1> QED BY <1>1, <1>2

LEMMA SameSeeds ==
  ASSUME SameButPitches
  PROVE  /\ Venture!Gated' = Venture!Gated
         /\ \A v : Venture!RepoSeeds(v)' = Venture!RepoSeeds(v)
<1>1. Venture!Gated' = Venture!Gated
  BY SameKinds DEF Venture!Gated
<1>2. \A v : Venture!RepoMembers(v)' = Venture!RepoMembers(v)
  BY SameKinds DEF Venture!RepoMembers
<1>3. \A c : Venture!OfficerMembers(c)' = Venture!OfficerMembers(c)
  BY SameKinds DEF Venture!OfficerMembers
<1>4. \A v, c : Venture!Merges(v, c)' <=> Venture!Merges(v, c)
  BY <1>2, <1>3, SameKinds DEF Venture!Merges
<1>5. \A v : Venture!MatchingCompany(v)' = Venture!MatchingCompany(v)
  BY <1>4 DEF Venture!MatchingCompany
<1>6. \A v : Venture!RepoSeeds(v)' = Venture!RepoSeeds(v)
  <2> SUFFICES ASSUME NEW v PROVE Venture!RepoSeeds(v)' = Venture!RepoSeeds(v)
    OBVIOUS
  <2> DEFINE c == CHOOSE c \in Venture!MatchingCompany(v) : TRUE
  <2>1. (CHOOSE c1 \in Venture!MatchingCompany(v) : TRUE)' = c
    BY <1>5
  <2>2. Venture!MatchingCompany(v)' = {} <=> Venture!MatchingCompany(v) = {}
    BY <1>5
  <2>3. c' = c
    BY <2>1
  <2>4. Venture!RepoSeeds(v) = IF Venture!MatchingCompany(v) = {} THEN Venture!RepoMembers(v)
          ELSE Venture!MergeMembers(Venture!RepoMembers(v), Venture!OfficerMembers(c))
    BY DEF Venture!RepoSeeds
  <2>5. Venture!RepoSeeds(v)' = IF Venture!MatchingCompany(v)' = {} THEN Venture!RepoMembers(v)'
          ELSE Venture!MergeMembers(Venture!RepoMembers(v)', Venture!OfficerMembers(c)')
    BY DEF Venture!RepoSeeds
  <2> HIDE DEF c
  <2>6. Venture!OfficerMembers(c)' = Venture!OfficerMembers(c)
    BY <1>3, <2>3
  <2> QED BY <1>2, <2>2, <2>4, <2>5, <2>6
<1> QED BY <1>1, <1>6

\* As long as only pitches have become known since the last build, gold has
\* what each repository has by itself.
SeedsStand ==
  \A v \in Venture!Gated : \A x \in DOMAIN Venture!RepoSeeds(v) :
    <<v, x>> \in DOMAIN gold /\ gold[<<v, x>>] = Venture!RepoSeeds(v)[x]

SeedsInv ==
  /\ built \subseteq known /\ builds \in Nat
  /\ builds > 0 /\ ByThemselves(known) = ByThemselves(built) => SeedsStand

LEMMA MergedHas ==
  ASSUME NEW table, NEW new, NEW k
  PROVE  /\ k \in DOMAIN Venture!Merged(table, new) <=> k \in DOMAIN table \/ k \in DOMAIN new
         /\ k \in DOMAIN new => Venture!Merged(table, new)[k] = new[k]
         /\ k \in DOMAIN table /\ k \notin DOMAIN new => Venture!Merged(table, new)[k] = table[k]
BY DEF Venture!Merged

LEMMA RowsHave ==
  ASSUME NEW ventures
  PROVE  /\ \A v, x : <<v, x>> \in DOMAIN Venture!Rows(ventures)
                        <=> v \in DOMAIN ventures /\ x \in DOMAIN ventures[v]
         /\ \A v \in DOMAIN ventures : \A x \in DOMAIN ventures[v] :
              Venture!Rows(ventures)[<<v, x>>] = ventures[v][x]
         /\ \A k \in DOMAIN Venture!Rows(ventures) : k = <<k[1], k[2]>>
<1> DEFINE D == UNION {{v} \X DOMAIN ventures[v] : v \in DOMAIN ventures}
<1>1. /\ DOMAIN Venture!Rows(ventures) = D
      /\ \A k \in D : Venture!Rows(ventures)[k] = ventures[k[1]][k[2]]
  BY DEF Venture!Rows
<1>2. \A v, x : <<v, x>> \in D <=> v \in DOMAIN ventures /\ x \in DOMAIN ventures[v]
  OBVIOUS
<1>3. \A k \in D : k = <<k[1], k[2]>>
  OBVIOUS
<1> HIDE DEF D
<1>4. \A v, x : <<v, x>>[1] = v /\ <<v, x>>[2] = x
  OBVIOUS
<1> QED BY ONLY <1>1, <1>2, <1>3, <1>4

\* What a build writes of the repositories' own members.
LEMMA BuildWrites ==
  ASSUME Venture!Build
  PROVE  /\ \A v \in Venture!Gated : \A x \in DOMAIN Venture!RepoSeeds(v) :
              <<v, x>> \in DOMAIN gold' /\ gold'[<<v, x>>] = Venture!RepoSeeds(v)[x]
         /\ \A k \in DOMAIN gold : k = <<k[1], k[2]>> \/ gold'[k] = gold[k]
<1> DEFINE new == Venture!Rows(rows')
<1>1. rows' = Venture!Ventures /\ gold' = Venture!Merged(gold, new)
  BY DEF Venture!Build
<1>2. ASSUME NEW v \in Venture!Gated, NEW x \in DOMAIN Venture!RepoSeeds(v)
      PROVE  <<v, x>> \in DOMAIN gold' /\ gold'[<<v, x>>] = Venture!RepoSeeds(v)[x]
  <2>1. v \in DOMAIN rows' /\ rows'[v] = Venture!Absorbed(v)
    BY <1>1 DEF Venture!Ventures
  <2>2. x \in DOMAIN rows'[v] /\ rows'[v][x] = Venture!RepoSeeds(v)[x]
    BY <2>1 DEF Venture!Absorbed
  <2>3. <<v, x>> \in DOMAIN new /\ new[<<v, x>>] = Venture!RepoSeeds(v)[x]
    BY <2>1, <2>2, RowsHave
  <2> HIDE DEF new
  <2> QED BY <1>1, <2>3, MergedHas
<1>3. ASSUME NEW k \in DOMAIN gold
      PROVE  k = <<k[1], k[2]>> \/ gold'[k] = gold[k]
  <2>1. k \in DOMAIN new => k = <<k[1], k[2]>>
    BY RowsHave
  <2> HIDE DEF new
  <2> QED BY <1>1, <2>1, MergedHas
<1> QED BY <1>2, <1>3

LEMMA VentureStart == ASSUME Venture!Init PROVE SeedsInv
BY DEF Venture!Init, SeedsInv

LEMMA VentureStep ==
  ASSUME SeedsInv, [Venture!Next]_(Venture!vars)
  PROVE  SeedsInv'
<1>1. CASE Venture!Build
  <2>1. known' = known /\ built' = known /\ builds' = builds + 1
    BY <1>1 DEF Venture!Build
  <2>2. Venture!Gated' = Venture!Gated /\ \A v : Venture!RepoSeeds(v)' = Venture!RepoSeeds(v)
    BY <2>1, SameSeeds DEF SameButPitches, ByThemselves, Venture!AboutPitches
  <2>3. SeedsStand'
    BY <1>1, <2>2, BuildWrites DEF SeedsStand
  <2>4. builds' \in Nat
    BY <2>1 DEF SeedsInv
  <2> QED BY <2>1, <2>3, <2>4 DEF SeedsInv
<1>2. ASSUME NEW f, Venture!Learn(f)
      PROVE  SeedsInv'
  <2>1. known' = known \cup {f} /\ gold' = gold /\ built' = built /\ builds' = builds
    BY <1>2 DEF Venture!Learn
  <2>2. built' \subseteq known' /\ builds' \in Nat /\ built \subseteq known
    BY <2>1 DEF SeedsInv
  <2>3. ASSUME (builds > 0)', ByThemselves(known)' = ByThemselves(built)'
        PROVE  SeedsStand'
    <3>1. ByThemselves(built)' = ByThemselves(built)
      BY <2>1 DEF ByThemselves, Venture!AboutPitches
    <3>2. ByThemselves(known) \subseteq ByThemselves(known)'
      BY <2>1 DEF ByThemselves, Venture!AboutPitches
    <3>3. ByThemselves(built) \subseteq ByThemselves(known)
      BY <2>2 DEF ByThemselves, Venture!AboutPitches
    <3>4. SameButPitches /\ ByThemselves(known) = ByThemselves(built)
      BY <2>3, <3>1, <3>2, <3>3 DEF SameButPitches
    <3>5. SeedsStand
      BY <2>1, <2>3, <3>4 DEF SeedsInv
    <3>6. Venture!Gated' = Venture!Gated /\ \A v : Venture!RepoSeeds(v)' = Venture!RepoSeeds(v)
      BY <3>4, SameSeeds
    <3> QED BY <2>1, <3>5, <3>6 DEF SeedsStand
  <2> QED BY <2>2, <2>3 DEF SeedsInv
<1>3. CASE UNCHANGED Venture!vars
  <2>1. known' = known /\ gold' = gold /\ built' = built /\ builds' = builds
    BY <1>3 DEF Venture!vars
  <2>2. SameButPitches /\ ByThemselves(built)' = ByThemselves(built)
    BY <2>1 DEF SameButPitches, ByThemselves, Venture!AboutPitches
  <2>3. Venture!Gated' = Venture!Gated /\ \A v : Venture!RepoSeeds(v)' = Venture!RepoSeeds(v)
    BY <2>2, SameSeeds
  <2>4. SeedsStand' <=> SeedsStand
    BY <2>1, <2>3 DEF SeedsStand
  <2> QED BY <2>1, <2>2, <2>4 DEF SeedsInv, SameButPitches
<1> QED BY <1>1, <1>2, <1>3 DEF Venture!Next

LEMMA VentureAlone == PartsSpec => Venture!Spec
<1>1. PartsInit => Venture!Init
  BY DEF PartsInit
<1>2. [PartsNext]_partVars => [Venture!Next]_(Venture!vars)
  BY DEF PartsNext, Only, partVars, ventureVars, Venture!vars
<1> QED BY <1>1, <1>2, PTL DEF PartsSpec, Venture!Spec

LEMMA SeedsInvariance == PartsSpec => []SeedsInv
<1>1. Venture!Init => SeedsInv
  BY VentureStart
<1>2. SeedsInv /\ [Venture!Next]_(Venture!vars) => SeedsInv'
  BY VentureStep
<1> QED BY <1>1, <1>2, VentureAlone, PTL DEF Venture!Spec

\* A build that knows of new pitches only leaves the members repositories have
\* by themselves as they are (ventures.py, _absorb_pitches).
THEOREM RepoRowsKept == PartsSpec => PitchKeepsRepoRows
<1> DEFINE Stays ==
      builds' > builds /\ builds > 0 /\ known \ Venture!AboutPitches(known) = built \ Venture!AboutPitches(built)
       => \A k \in DOMAIN gold :
            k[1] \in Venture!Gated /\ k[2] \in DOMAIN Venture!RepoSeeds(k[1]) => gold'[k] = gold[k]
<1>1. SeedsInv /\ [Venture!Next]_(Venture!vars) => [Stays]_(Venture!vars)
  <2> SUFFICES ASSUME SeedsInv, Venture!Next, builds' > builds, builds > 0,
                      ByThemselves(known) = ByThemselves(built),
                      NEW k \in DOMAIN gold,
                      k[1] \in Venture!Gated, k[2] \in DOMAIN Venture!RepoSeeds(k[1])
               PROVE  gold'[k] = gold[k]
    BY DEF ByThemselves
  <2>1. ~\E f \in ToBeSeen : Venture!Learn(f)
    BY DEF Venture!Learn, SeedsInv
  <2>2. Venture!Build
    BY <2>1 DEF Venture!Next
  <2>3. k = <<k[1], k[2]>> \/ gold'[k] = gold[k]
    BY <2>2, BuildWrites
  <2>4. gold'[<<k[1], k[2]>>] = Venture!RepoSeeds(k[1])[k[2]]
    BY <2>2, BuildWrites
  <2>5. gold[<<k[1], k[2]>>] = Venture!RepoSeeds(k[1])[k[2]]
    BY DEF SeedsInv, SeedsStand
  <2> QED BY <2>3, <2>4, <2>5
<1>2. PartsSpec => [][SeedsInv /\ [Venture!Next]_(Venture!vars)]_(Venture!vars)
  BY SeedsInvariance, VentureAlone, PTL DEF Venture!Spec
<1> QED BY <1>1, <1>2, PTL DEF PitchKeepsRepoRows, Venture!PitchKeepsRepoRows

----
(* Matching: one person means connected.                                     *)

CP == INSTANCE Clusters_proofs

\* Pairs connect x with y.
Connects(x, y, pairs) == \E c \in Match!Components(pairs) : x \in c /\ y \in c

LEMMA SameComponents == \A pairs : Match!Components(pairs) = CP!Components(pairs)
BY DEF Match!Components, CP!Components, Match!ComponentOf, CP!ComponentOf, Match!Closed, CP!Closed

LEMMA JoinedOn ==
  ASSUME NEW pairs, NEW x, NEW y, NEW z, Connects(x, y, pairs), Connects(y, z, pairs)
  PROVE  Connects(x, z, pairs)
<1>1. PICK c \in Match!Components(pairs) : x \in c /\ y \in c
  BY DEF Connects
<1>2. PICK d \in Match!Components(pairs) : y \in d /\ z \in d
  BY DEF Connects
<1>3. c = d
  BY <1>1, <1>2, SameComponents, CP!ComponentsDisjoint
<1> QED BY <1>1, <1>2, <1>3 DEF Connects

LEMMA JoinedBack ==
  ASSUME NEW pairs, NEW x, NEW y, Connects(x, y, pairs)
  PROVE  Connects(y, x, pairs)
BY DEF Connects

\* More pairs never take apart.
LEMMA JoinedMore ==
  ASSUME NEW A, NEW B, A \subseteq B, NEW x, NEW y, Connects(x, y, A)
  PROVE  Connects(x, y, B)
<1>1. PICK c \in Match!Components(A) : x \in c /\ y \in c
  BY DEF Connects
<1>2. PICK a \in UNION A : c = Match!ComponentOf(a, A)
  BY <1>1 DEF Match!Components
<1>3. a \in UNION B /\ UNION A \subseteq UNION B
  OBVIOUS
<1>4. c \subseteq Match!ComponentOf(a, B)
  <2> SUFFICES ASSUME NEW z \in c
               PROVE  z \in UNION B /\ \A s \in Match!Closed(B) : a \in s => z \in s
    BY DEF Match!ComponentOf
  <2>0. z \in UNION A /\ \A s \in Match!Closed(A) : a \in s => z \in s
    BY <1>2 DEF Match!ComponentOf
  <2> SUFFICES ASSUME NEW s \in Match!Closed(B), a \in s
               PROVE  z \in s
    BY <1>3, <2>0
  <2>1. s \cap UNION A \in Match!Closed(A)
    <3>1. ASSUME NEW p \in A
          PROVE  p \cap (s \cap UNION A) = {} \/ p \subseteq s \cap UNION A
      <4>1. p \cap s = {} \/ p \subseteq s
        BY DEF Match!Closed
      <4> QED BY <4>1
    <3> QED BY <3>1 DEF Match!Closed
  <2>2. a \in s \cap UNION A
    BY <1>2
  <2> QED BY <2>0, <2>1, <2>2
<1>5. Match!ComponentOf(a, B) \in Match!Components(B)
  BY <1>3 DEF Match!Components
<1> QED BY <1>1, <1>4, <1>5 DEF Connects

LEMMA LeastOf ==
  ASSUME NEW S \in SUBSET Nat, S # {}
  PROVE  Match!Min(S) \in S /\ \A x \in S : Match!Min(S) <= x
<1>1. Match!Min(S) = CP!Min(S)
  BY DEF Match!Min, CP!Min
<1> QED BY <1>1, CP!MinOf

\* The two of a pair.
LEMMA TwoOf ==
  ASSUME NEW p \in Match!Pairs
  PROVE  /\ Match!Min(p) \in Ids /\ Match!Max(p) \in Ids /\ Match!Min(p) # Match!Max(p)
         /\ p = {Match!Min(p), Match!Max(p)}
<1>1. PICK a \in Ids, b \in Ids : p = {a, b} /\ a # b
  BY DEF Match!Pairs
<1>2. PICK x \in Ids, y \in Ids : p = {x, y} /\ x < y /\ x \in Nat /\ y \in Nat
  <2>1. a \in Nat /\ b \in Nat
    BY MatchAssumption
  <2>2. a < b \/ b < a
    BY <1>1, <2>1
  <2>3. CASE a < b
    BY <1>1, <2>1, <2>3
  <2>4. CASE b < a
    <3>1. p = {b, a}
      BY <1>1
    <3> QED BY <2>1, <2>4, <3>1
  <2> QED BY <2>2, <2>3, <2>4
<1>3. Match!Min(p) = x
  <2>1. \A z \in p : (\A w \in p : z <= w) <=> z = x
    BY <1>2
  <2>2. x \in p
    BY <1>2
  <2> QED BY <2>1, <2>2 DEF Match!Min
<1>4. Match!Max(p) = y
  <2>1. \A z \in p : (\A w \in p : z >= w) <=> z = y
    BY <1>2
  <2>2. y \in p
    BY <1>2
  <2> QED BY <2>1, <2>2 DEF Match!Max
<1> QED BY <1>2, <1>3, <1>4

\* A person has the name of an identity of its own, and its identities are
\* connected by what was taken.
NamedInv ==
  /\ personOf \in [Ids -> Nat] /\ taken \subseteq Match!Pairs
  /\ \A x \in Ids : personOf[x] # 0 => personOf[x] \in Ids /\ personOf[personOf[x]] = personOf[x]

ConnectedInv ==
  \A x, y \in Ids : personOf[x] = personOf[y] /\ personOf[x] # 0 /\ x # y => Connects(x, y, taken)

LEMMA PairsAreOfIds ==
  ASSUME NEW M \in SUBSET Match!Pairs
  PROVE  UNION M \subseteq Ids
BY DEF Match!Pairs

\* Where the person of an identity that was not linked comes from.
Alone(x, q, clusters) == q = x /\ \A c \in clusters : x \notin Match!Kept(c)
Made(x, q, c) == x \in Match!Kept(c) /\ q \in Match!Kept(c) /\ Match!Kept(c) \cap Match!Linked = {}
                   /\ q = Match!Min(Match!Kept(c))
Joins(x, q, c, m) == x \in Match!Kept(c) /\ m \in Match!Kept(c) /\ m \in Match!Linked /\ q = personOf[m]

LEMMA Origin ==
  ASSUME NamedInv, NEW M \in SUBSET Match!Pairs, NEW clusters, clusters = Match!Components(M),
         NEW x \in Ids, x \notin Match!Linked,
         NEW q, q = Match!NewPersonOf(clusters)[x], q # 0
  PROVE  \/ Alone(x, q, clusters)
         \/ \E c \in clusters : Made(x, q, c)
         \/ \E c \in clusters : \E m \in Ids : Joins(x, q, c, m)
<1>1. /\ q = IF x \in Match!Linked \/ x \notin Match!Views THEN personOf[x]
             ELSE IF Match!Of(clusters, x) = {} THEN x
             ELSE Match!PersonFor(Match!Kept(CHOOSE c \in Match!Of(clusters, x) : TRUE))
  BY DEF Match!NewPersonOf
<1>2. x \in Match!Views
  <2>1. x \notin Match!Views => q = personOf[x]
    BY <1>1
  <2>2. personOf[x] = 0
    BY DEF Match!Linked, Match!Nobody
  <2> QED BY <2>1, <2>2
<1>3. CASE Match!Of(clusters, x) = {}
  BY <1>1, <1>2, <1>3 DEF Alone, Match!Of
<1>4. CASE Match!Of(clusters, x) # {}
  <2>1. PICK c \in Match!Of(clusters, x) : q = Match!PersonFor(Match!Kept(c))
    BY <1>1, <1>2, <1>4
  <2>2. c \in clusters /\ x \in Match!Kept(c)
    BY <2>1 DEF Match!Of
  <2>3. Match!Kept(c) \subseteq Ids
    <3>1. c \subseteq UNION M
      BY <2>2, SameComponents, CP!ComponentsCovered
    <3>2. Match!Kept(c) \subseteq c
      BY DEF Match!Kept
    <3> QED BY <3>1, <3>2, PairsAreOfIds
  <2>4. CASE Match!Kept(c) \cap Match!Linked = {}
    <3>1. q = Match!Min(Match!Kept(c))
      BY <2>1, <2>4 DEF Match!PersonFor
    <3>2. Match!Kept(c) \in SUBSET Nat /\ Match!Kept(c) # {}
      BY <2>2, <2>3, MatchAssumption
    <3>3. Match!Min(Match!Kept(c)) \in Match!Kept(c)
      BY ONLY <3>2, LeastOf
    <3>4. Made(x, q, c)
      BY <2>2, <2>4, <3>1, <3>3 DEF Made
    <3> QED BY <2>2, <3>4
  <2>5. CASE Match!Kept(c) \cap Match!Linked # {}
    <3> DEFINE old == Match!Kept(c) \cap Match!Linked
               m == Match!Min(old)
    <3>1. q = personOf[m]
      BY <2>1, <2>5 DEF Match!PersonFor
    <3>2. old \in SUBSET Nat /\ old # {}
      BY <2>3, <2>5, MatchAssumption
    <3>3. m \in old
      BY ONLY <3>2, LeastOf
    <3>4. m \in Ids /\ Joins(x, q, c, m)
      BY <2>2, <2>3, <3>1, <3>3 DEF Joins
    <3> QED BY <2>2, <3>4
  <2> QED BY <2>4, <2>5
<1> QED BY <1>3, <1>4

LEMMA LinkedStay ==
  ASSUME NamedInv, NEW clusters, NEW x \in Ids, x \in Match!Linked
  PROVE  Match!NewPersonOf(clusters)[x] = personOf[x] /\ personOf[x] # 0
BY DEF Match!NewPersonOf, Match!Linked, Match!Nobody

\* Those one cluster keeps are connected by its pairs.
LEMMA KeptJoined ==
  ASSUME NEW M, NEW c \in Match!Components(M), NEW x \in Match!Kept(c), NEW y \in Match!Kept(c)
  PROVE  Connects(x, y, M)
BY DEF Connects, Match!Kept

\* No two clusters keep an identity.
LEMMA KeptOnce ==
  ASSUME NEW M, NEW c \in Match!Components(M), NEW d \in Match!Components(M),
         NEW x \in Match!Kept(c), x \in Match!Kept(d)
  PROVE  c = d
<1>1. x \in c /\ x \in d
  BY DEF Match!Kept
<1> QED BY <1>1, SameComponents, CP!ComponentsDisjoint

\* The clusters of a run: what they make of the persons.
LEMMA RunNames ==
  ASSUME NamedInv, NEW M \in SUBSET Match!InView, NEW clusters, clusters = Match!Components(M),
         NEW owner, owner = Match!NewPersonOf(clusters)
  PROVE  /\ owner \in [Ids -> Nat]
         /\ \A x \in Ids : owner[x] # 0 => owner[x] \in Ids /\ owner[owner[x]] = owner[x]
<1>0. M \in SUBSET Match!Pairs
  BY DEF Match!InView
<1>1. DOMAIN owner = Ids /\ owner = [x \in Ids |-> owner[x]]
  BY DEF Match!NewPersonOf
<1>2. ASSUME NEW x \in Ids, x \in Match!Linked
      PROVE  owner[x] = personOf[x] /\ owner[x] \in Ids /\ owner[owner[x]] = owner[x]
  <2>1. owner[x] = personOf[x] /\ personOf[x] # 0
    BY <1>2, LinkedStay
  <2>2. personOf[x] \in Ids /\ personOf[personOf[x]] = personOf[x]
    BY <2>1 DEF NamedInv
  <2>3. personOf[x] \in Match!Linked
    BY <2>1, <2>2 DEF Match!Linked, Match!Nobody
  <2>4. owner[personOf[x]] = personOf[personOf[x]]
    BY <2>2, <2>3, LinkedStay
  <2> QED BY <2>1, <2>2, <2>4
<1>3. ASSUME NEW x \in Ids, x \notin Match!Linked, owner[x] # 0
      PROVE  owner[x] \in Ids /\ owner[owner[x]] = owner[x]
  <2> DEFINE q == owner[x]
  <2>1. \/ Alone(x, q, clusters)
        \/ \E c \in clusters : Made(x, q, c)
        \/ \E c \in clusters : \E m \in Ids : Joins(x, q, c, m)
    BY <1>0, <1>3, Origin
  <2>2. CASE Alone(x, q, clusters)
    BY <2>2 DEF Alone
  <2>3. ASSUME NEW c \in clusters, Made(x, q, c)
        PROVE  q \in Ids /\ owner[q] = q
    <3>1. q \in Match!Kept(c) /\ q \notin Match!Linked /\ q = Match!Min(Match!Kept(c))
      BY <2>3 DEF Made
    <3>2. q \in UNION M
      <4>1. q \in c
        BY <3>1 DEF Match!Kept
      <4> QED BY <4>1, SameComponents, CP!ComponentsCovered
    <3>3. q \in Ids /\ q \in Match!Views
      BY <3>2 DEF Match!InView, Match!Views
    <3>4. c \in Match!Of(clusters, q)
      BY <3>1 DEF Match!Of
    <3>5. \A d \in Match!Of(clusters, q) : d = c
      BY <3>1, KeptOnce DEF Match!Of
    <3>6. (CHOOSE d \in Match!Of(clusters, q) : TRUE) = c
      BY <3>4, <3>5
    <3>7. owner[q] = Match!PersonFor(Match!Kept(c))
      BY <3>1, <3>3, <3>4, <3>6 DEF Match!NewPersonOf
    <3>8. Match!PersonFor(Match!Kept(c)) = Match!Min(Match!Kept(c))
      BY <2>3 DEF Made, Match!PersonFor
    <3> QED BY <3>1, <3>3, <3>7, <3>8
  <2>4. ASSUME NEW c \in clusters, NEW m \in Ids, Joins(x, q, c, m)
        PROVE  q \in Ids /\ owner[q] = q
    <3>1. m \in Match!Linked /\ q = personOf[m]
      BY <2>4 DEF Joins
    <3> QED BY <1>2, <3>1
  <2> QED BY <2>1, <2>2, <2>3, <2>4
<1>4. ASSUME NEW x \in Ids
      PROVE  owner[x] \in Nat
  <2>1. owner[x] = 0 \/ owner[x] \in Ids
    BY <1>2, <1>3
  <2>2. Ids \subseteq Nat
    BY MatchAssumption
  <2>3. CASE owner[x] = 0
    BY ONLY <2>3
  <2>4. CASE owner[x] \in Ids
    BY ONLY <2>2, <2>4
  <2> QED BY <2>1, <2>3, <2>4
<1> QED BY <1>1, <1>2, <1>3, <1>4

LEMMA RunConnects ==
  ASSUME NamedInv, ConnectedInv,
         NEW M \in SUBSET Match!InView, NEW clusters, clusters = Match!Components(M),
         NEW owner, owner = Match!NewPersonOf(clusters),
         NEW more, taken \subseteq more, M \subseteq more,
         NEW x \in Ids, NEW y \in Ids, owner[x] = owner[y], owner[x] # 0, x # y
  PROVE  Connects(x, y, more)
<1>0. M \in SUBSET Match!Pairs
  BY DEF Match!InView
<1> DEFINE q == owner[x]
\* A person there was before has its own name linked.
<1>1. ASSUME NEW m \in Ids, m \in Match!Linked
      PROVE  personOf[m] \in Ids /\ personOf[m] \in Match!Linked /\ personOf[m] # 0
  <2>1. personOf[m] # 0
    BY <1>1 DEF Match!Linked, Match!Nobody
  <2> QED BY <2>1 DEF NamedInv, Match!Linked, Match!Nobody
<1>2. ASSUME NEW m \in Ids, NEW n \in Ids, m \in Match!Linked, personOf[m] = personOf[n], m # n
      PROVE  Connects(m, n, more)
  <2>1. Connects(m, n, taken)
    BY <1>1, <1>2 DEF ConnectedInv
  <2> QED BY <2>1, JoinedMore
<1>3. ASSUME NEW c \in clusters, NEW a \in Match!Kept(c), NEW b \in Match!Kept(c)
      PROVE  Connects(a, b, more)
  <2>1. Connects(a, b, M)
    BY <1>3, KeptJoined
  <2> QED BY <2>1, JoinedMore
\* One linked before, the other not.
<1>4. ASSUME NEW u \in Ids, NEW w \in Ids, u \in Match!Linked, w \notin Match!Linked,
             personOf[u] = owner[w], owner[w] # 0
      PROVE  Connects(u, w, more)
  <2>0. owner[w] \in Match!Linked /\ owner[w] \in Ids
    BY <1>1, <1>4
  <2>1. ~Alone(w, owner[w], clusters)
    BY <1>4, <2>0 DEF Alone
  <2>2. ~\E c \in clusters : Made(w, owner[w], c)
    BY <2>0 DEF Made
  <2>3. PICK c \in clusters, m \in Ids : Joins(w, owner[w], c, m)
    BY <1>0, <1>4, <2>1, <2>2, Origin
  <2>4. w \in Match!Kept(c) /\ m \in Match!Kept(c) /\ m \in Match!Linked /\ personOf[u] = personOf[m]
    BY <1>4, <2>3 DEF Joins
  <2>5. Connects(m, w, more)
    BY <1>3, <2>4
  <2>6. u # m => Connects(u, m, more)
    BY <1>2, <1>4, <2>4
  <2> QED BY <2>5, <2>6, JoinedOn
\* Both new.
<1>5. ASSUME x \notin Match!Linked, y \notin Match!Linked
      PROVE  Connects(x, y, more)
  <2>1. \/ Alone(x, q, clusters)
        \/ \E c \in clusters : Made(x, q, c)
        \/ \E c \in clusters : \E m \in Ids : Joins(x, q, c, m)
    BY <1>0, <1>5, Origin
  <2>2. \/ Alone(y, q, clusters)
        \/ \E c \in clusters : Made(y, q, c)
        \/ \E c \in clusters : \E m \in Ids : Joins(y, q, c, m)
    BY <1>0, <1>5, Origin
  <2>3. ASSUME NEW c \in clusters, NEW m \in Ids, Joins(x, q, c, m)
        PROVE  Connects(x, y, more)
    <3>1. m \in Match!Linked /\ personOf[m] = owner[y] /\ x \in Match!Kept(c) /\ m \in Match!Kept(c)
      BY <2>3 DEF Joins
    <3>2. Connects(m, y, more)
      BY <1>4, <1>5, <3>1
    <3>3. Connects(x, m, more)
      BY <1>3, <3>1
    <3> QED BY <3>2, <3>3, JoinedOn
  <2>4. ASSUME NEW c \in clusters, NEW m \in Ids, Joins(y, q, c, m)
        PROVE  Connects(x, y, more)
    <3>1. m \in Match!Linked /\ personOf[m] = owner[x] /\ y \in Match!Kept(c) /\ m \in Match!Kept(c)
      BY <2>4 DEF Joins
    <3>2. Connects(m, x, more)
      BY <1>4, <1>5, <3>1
    <3>3. Connects(y, m, more)
      BY <1>3, <3>1
    <3>4. Connects(y, x, more)
      BY <3>2, <3>3, JoinedOn
    <3> QED BY <3>4, JoinedBack
  <2>5. ASSUME NEW c \in clusters, Made(x, q, c), NEW d \in clusters, Made(y, q, d)
        PROVE  Connects(x, y, more)
    <3>1. c = d
      BY <2>5, KeptOnce DEF Made
    <3> QED BY <1>3, <2>5, <3>1 DEF Made
  <2>6. ~(Alone(x, q, clusters) /\ Alone(y, q, clusters))
    BY DEF Alone
  <2>7. ~\E c \in clusters : Alone(x, q, clusters) /\ Made(y, q, c)
    BY DEF Alone, Made
  <2>8. ~\E c \in clusters : Alone(y, q, clusters) /\ Made(x, q, c)
    BY DEF Alone, Made
  <2> QED BY <2>1, <2>2, <2>3, <2>4, <2>5, <2>6, <2>7, <2>8
<1>6. CASE x \in Match!Linked /\ y \in Match!Linked
  BY <1>2, <1>6, LinkedStay
<1>7. CASE x \in Match!Linked /\ y \notin Match!Linked
  BY <1>4, <1>7, LinkedStay
<1>8. CASE x \notin Match!Linked /\ y \in Match!Linked
  <2>1. Connects(y, x, more)
    BY <1>4, <1>8, LinkedStay
  <2> QED BY <2>1, JoinedBack
<1> QED BY <1>5, <1>6, <1>7, <1>8

\* A run, spelled out.
RunWith(ruled, play, scoring) ==
  \E matched \in SUBSET Match!Asked(play, scoring) :
  \E unsure \in SUBSET (Match!Asked(play, scoring) \ matched) :
  \E found \in {Match!Banded(play, scoring, "auto") \cup matched},
     doubts \in {{p \in Match!InView : Match!ByNameAndOrg(p)}
       \cup Match!Banded(play, scoring, "review") \cup unsure} :
  \E clusters \in {Match!ClustersOf(ruled \cup found)} :
  \E owner \in {Match!NewPersonOf(clusters)} :
    /\ personOf' = owner
    /\ settled' = settled \cup Match!Asked(play, scoring)
    /\ review' = review \cup Match!PairReviews(doubts, owner, Match!Anchored(clusters))
                        \cup Match!EjectionReviews(clusters, owner)
    /\ doubted' = doubts
    /\ taken' = taken \cup found
         \cup {p \in Match!InView : Match!ByIdentifier(p) \/ Match!ByCrosslink(p) \/ Match!ByPitch(p)}

LEMMA RunIs ==
  ASSUME Match!Run
  PROVE  \E ruled \in {{p \in Match!InView : Match!AutoRule(p)}} :
         \E play \in {Match!InPlay(ruled)} : \E scoring \in Scorings : RunWith(ruled, play, scoring)
BY Zenon DEF Match!Run, RunWith

\* What a run takes is among the pairs in view, and it says so in `taken'.
LEMMA RunTakes ==
  ASSUME NamedInv, Match!Run
  PROVE  \E M \in SUBSET Match!InView :
           /\ personOf' = Match!NewPersonOf(Match!Components(M))
           /\ taken \subseteq taken' /\ M \subseteq taken' /\ taken' \subseteq Match!Pairs
<1> DEFINE ruled == {p \in Match!InView : Match!AutoRule(p)}
           play == Match!InPlay(ruled)
<1>1. PICK scoring \in Scorings : RunWith(ruled, play, scoring)
  BY RunIs
<1>2. PICK matched \in SUBSET Match!Asked(play, scoring) :
        \E found \in {Match!Banded(play, scoring, "auto") \cup matched} :
          /\ personOf' = Match!NewPersonOf(Match!ClustersOf(ruled \cup found))
          /\ taken' = taken \cup found
               \cup {p \in Match!InView : Match!ByIdentifier(p) \/ Match!ByCrosslink(p) \/ Match!ByPitch(p)}
  BY <1>1 DEF RunWith
<1> DEFINE found == Match!Banded(play, scoring, "auto") \cup matched
           M == {p \in ruled \cup found : ~(p \subseteq Match!Linked)}
<1>3. /\ personOf' = Match!NewPersonOf(Match!ClustersOf(ruled \cup found))
      /\ taken' = taken \cup found \cup ruled
  BY <1>2 DEF Match!AutoRule
<1>4. play \subseteq Match!InView
  BY DEF Match!InPlay
<1>5. found \subseteq Match!InView
  BY <1>4 DEF Match!Asked, Match!Banded
<1>6. Match!ClustersOf(ruled \cup found) = Match!Components(M)
  BY DEF Match!ClustersOf
<1>7. Match!InView \subseteq Match!Pairs /\ taken \subseteq Match!Pairs
  BY DEF Match!InView, NamedInv
<1>8. ruled \subseteq Match!InView
  OBVIOUS
<1> HIDE DEF ruled, found, play
<1>9. M \in SUBSET Match!InView
  BY <1>5, <1>8
<1>10. taken \subseteq taken' /\ M \subseteq taken' /\ taken' \subseteq Match!Pairs
  BY <1>3, <1>5, <1>7, <1>8
<1> QED BY <1>3, <1>6, <1>9, <1>10

MatchInv == NamedInv /\ ConnectedInv

LEMMA MatchStart == ASSUME Match!Init PROVE MatchInv
BY DEF Match!Init, MatchInv, NamedInv, ConnectedInv, Match!Nobody

LEMMA MatchStep ==
  ASSUME MatchInv, [Match!Next]_(Match!vars)
  PROVE  MatchInv'
<1>1. CASE Match!Run
  <2>1. PICK M \in SUBSET Match!InView :
           /\ personOf' = Match!NewPersonOf(Match!Components(M))
           /\ taken \subseteq taken' /\ M \subseteq taken' /\ taken' \subseteq Match!Pairs
    BY <1>1, RunTakes DEF MatchInv
  <2>2. /\ personOf' \in [Ids -> Nat]
        /\ \A x \in Ids : personOf'[x] # 0 => personOf'[x] \in Ids /\ personOf'[personOf'[x]] = personOf'[x]
    BY <2>1, RunNames DEF MatchInv
  <2>3. NamedInv'
    BY <2>1, <2>2 DEF NamedInv, Match!Pairs
  <2>4. \A x, y \in Ids : personOf'[x] = personOf'[y] /\ personOf'[x] # 0 /\ x # y => Connects(x, y, taken')
    BY <2>1, RunConnects DEF MatchInv
  <2>5. ConnectedInv'
    BY <2>4 DEF ConnectedInv
  <2> QED BY <2>3, <2>5 DEF MatchInv
<1>2. CASE (\E f \in ToBeSaid : Match!Learn(f)) \/ UNCHANGED Match!vars
  <2>1. personOf' = personOf /\ taken' = taken
    BY <1>2 DEF Match!Learn, Match!vars
  <2> QED BY <2>1 DEF MatchInv, NamedInv, ConnectedInv, Match!Pairs
<1> QED BY <1>1, <1>2 DEF Match!Next

LEMMA MatchAlone == PartsSpec => Match!Spec
<1>1. PartsInit => Match!Init
  BY DEF PartsInit
<1>2. [PartsNext]_partVars => [Match!Next]_(Match!vars)
  BY DEF PartsNext, Only, partVars, matchVars, Match!vars
<1> QED BY <1>1, <1>2, PTL DEF PartsSpec, Match!Spec

\* Nobody is joined for a name and an employer alone: over runs, verdicts and
\* what becomes known, the identities of a person are connected by pairs that
\* an identifier, an artifact, Splink or a verdict has given (er/pipeline.py).
THEOREM NameIsNotEnough == PartsSpec => []NameAloneNeverJoins
<1>1. MatchInv => Match!NameAloneNeverJoins
  <2> SUFFICES ASSUME MatchInv, NEW p \in Match!Pairs,
                      personOf[Match!Min(p)] = personOf[Match!Max(p)], personOf[Match!Min(p)] # 0
               PROVE  \E c \in Match!Components(taken) : p \subseteq c
    BY DEF Match!NameAloneNeverJoins, Match!Nobody
  <2>1. /\ Match!Min(p) \in Ids /\ Match!Max(p) \in Ids /\ Match!Min(p) # Match!Max(p)
        /\ p = {Match!Min(p), Match!Max(p)}
    BY TwoOf
  <2>2. Connects(Match!Min(p), Match!Max(p), taken)
    BY <2>1 DEF MatchInv, ConnectedInv
  <2> QED BY <2>1, <2>2 DEF Connects
<1>2. Match!Init => MatchInv
  BY MatchStart
<1>3. MatchInv /\ [Match!Next]_(Match!vars) => MatchInv'
  BY MatchStep
<1>4. MatchInv => NameAloneNeverJoins
  BY <1>1 DEF NameAloneNeverJoins
<1> QED BY <1>2, <1>3, <1>4, MatchAlone, PTL DEF Match!Spec

\* What the last run doubts is settled by the review queue.
DoubtInv == doubted \subseteq Match!Pairs /\ Match!DoubtIsReviewed

LEMMA RunReviews ==
  ASSUME Match!Run
  PROVE  DoubtInv'
<1> DEFINE ruled == {p \in Match!InView : Match!AutoRule(p)}
           play == Match!InPlay(ruled)
<1>1. PICK scoring \in Scorings : RunWith(ruled, play, scoring)
  BY RunIs
<1>2. play \subseteq Match!Pairs
  BY DEF Match!InPlay, Match!InView
<1>3. Match!InView \subseteq Match!Pairs
  BY DEF Match!InView
<1> HIDE DEF ruled, play
<1>4. PICK doubts, clusters, owner :
        /\ doubts \in SUBSET Match!Pairs
        /\ personOf' = owner /\ doubted' = doubts
        /\ Match!PairReviews(doubts, owner, Match!Anchored(clusters)) \subseteq review'
  <2>1. PICK matched \in SUBSET Match!Asked(play, scoring) :
        \E unsure \in SUBSET (Match!Asked(play, scoring) \ matched) :
        \E found \in {Match!Banded(play, scoring, "auto") \cup matched},
           doubts \in {{p \in Match!InView : Match!ByNameAndOrg(p)}
                         \cup Match!Banded(play, scoring, "review") \cup unsure} :
        \E clusters \in {Match!ClustersOf(ruled \cup found)} :
        \E owner \in {Match!NewPersonOf(clusters)} :
          /\ personOf' = owner /\ doubted' = doubts
          /\ review' = review \cup Match!PairReviews(doubts, owner, Match!Anchored(clusters))
                              \cup Match!EjectionReviews(clusters, owner)
    BY <1>1 DEF RunWith
  <2> DEFINE All(unsure) == {p \in Match!InView : Match!ByNameAndOrg(p)}
                              \cup Match!Banded(play, scoring, "review") \cup unsure
  <2>2. PICK unsure \in SUBSET (Match!Asked(play, scoring) \ matched) :
        \E found \in {Match!Banded(play, scoring, "auto") \cup matched}, doubts \in {All(unsure)} :
        \E clusters \in {Match!ClustersOf(ruled \cup found)} :
        \E owner \in {Match!NewPersonOf(clusters)} :
          /\ personOf' = owner /\ doubted' = doubts
          /\ review' = review \cup Match!PairReviews(doubts, owner, Match!Anchored(clusters))
                              \cup Match!EjectionReviews(clusters, owner)
    BY <2>1
  <2>3. unsure \subseteq Match!Pairs
    BY <1>2 DEF Match!Asked, Match!Banded
  <2>4. Match!Banded(play, scoring, "review") \subseteq Match!Pairs
    BY <1>2 DEF Match!Banded
  <2>5. All(unsure) \in SUBSET Match!Pairs
    BY <1>3, <2>3, <2>4
  <2> HIDE DEF All
  <2>6. PICK doubts, clusters, owner :
          /\ doubts \in {All(unsure)}
          /\ personOf' = owner /\ doubted' = doubts
          /\ review' = review \cup Match!PairReviews(doubts, owner, Match!Anchored(clusters))
                              \cup Match!EjectionReviews(clusters, owner)
    BY <2>2
  <2>7. Match!PairReviews(doubts, owner, Match!Anchored(clusters)) \subseteq review'
    BY <2>6
  <2> QED BY <2>5, <2>6, <2>7
<1>5. ASSUME NEW p \in doubts, owner[Match!Min(p)] # owner[Match!Max(p)]
      PROVE  \E x, y \in p : x # y /\ <<x, owner[y]>> \in review'
  <2> DEFINE x == Match!Subject(p, Match!Anchored(clusters))
             y == CHOOSE z \in p : z # x
  <2>1. <<x, owner[y]>> \in Match!PairReviews(doubts, owner, Match!Anchored(clusters))
    BY <1>5 DEF Match!PairReviews, Match!Reviewed
  <2>2. /\ Match!Min(p) # Match!Max(p) /\ p = {Match!Min(p), Match!Max(p)}
    BY <1>4, TwoOf
  <2>3. x \in p
    BY <2>2 DEF Match!Subject
  <2>4. \E z \in p : z # x
    BY <2>2
  <2> HIDE DEF x
  <2>5. y \in p /\ y # x
    BY <2>4
  <2> HIDE DEF y
  <2> QED BY <1>4, <2>1, <2>3, <2>5
<1>6. \A p \in doubted' : personOf'[Match!Min(p)] # personOf'[Match!Max(p)] =>
        \E x, y \in p : x # y /\ <<x, personOf'[y]>> \in review'
  BY <1>4, <1>5
<1>7. Match!DoubtIsReviewed'
  BY <1>6 DEF Match!DoubtIsReviewed
<1>8. doubted' \subseteq Match!Pairs'
  BY <1>4 DEF Match!Pairs
<1> QED BY <1>7, <1>8 DEF DoubtInv

LEMMA DoubtStep ==
  ASSUME DoubtInv, [Match!Next]_(Match!vars)
  PROVE  DoubtInv'
<1>1. CASE (\E f \in ToBeSaid : Match!Learn(f)) \/ UNCHANGED Match!vars
  <2>1. personOf' = personOf /\ review' = review /\ doubted' = doubted
    BY <1>1 DEF Match!Learn, Match!vars
  <2>2. Match!DoubtIsReviewed' <=> Match!DoubtIsReviewed
    BY <2>1 DEF Match!DoubtIsReviewed
  <2> QED BY <2>1, <2>2 DEF DoubtInv, Match!Pairs
<1> QED BY <1>1, RunReviews DEF Match!Next

\* Whatever band or rule a pair comes from and however its two stand after the
\* run, a human is asked about it (er/pipeline.py, the review queue).
THEOREM DoubtsAreAsked == PartsSpec => []DoubtIsReviewed
<1>1. Match!Init => DoubtInv
  BY DEF Match!Init, DoubtInv, Match!DoubtIsReviewed
<1>2. DoubtInv /\ [Match!Next]_(Match!vars) => DoubtInv'
  BY DoubtStep
<1>3. DoubtInv => DoubtIsReviewed
  BY DEF DoubtInv, DoubtIsReviewed
<1> QED BY <1>1, <1>2, <1>3, MatchAlone, PTL DEF Match!Spec

----
(* Discovery by bisection.                                                   *)

\* The place of a repository in a set that is ordered by stars.
PlaceIn(r, S) == Cardinality({q \in S : q < r})
Placed(S, n) == {r \in S : PlaceIn(r, S) < n}

LEMMA FindConstants ==
  /\ Repos \in SUBSET Nat /\ IsFiniteSet(Repos)
  /\ LastDay \in Nat /\ LastDay >= 1 /\ Cap \in Nat /\ Cap >= 1 /\ PageSize \in Nat /\ PageSize >= 1
  /\ DefaultLimit \in Nat /\ DefaultLimit >= 1 /\ FastPages \in Nat /\ Limits \subseteq Nat
BY FindAssumption

LEMMA FindCounts == \A S : Find!Cardinality(S) = Cardinality(S)
BY DEF Find!Cardinality, Cardinality

LEMMA PlacesIn ==
  ASSUME NEW S \in SUBSET Nat, IsFiniteSet(S)
  PROVE  /\ Cardinality(S) \in Nat
         /\ \A r \in S : PlaceIn(r, S) \in Nat /\ PlaceIn(r, S) < Cardinality(S)
         /\ \A q, r \in S : q < r => PlaceIn(q, S) < PlaceIn(r, S)
<1> DEFINE Ahead(r) == {q \in S : q < r}
<1>1. Cardinality(S) \in Nat
  BY FS_CardinalityType
<1>2. ASSUME NEW r \in S
      PROVE  /\ IsFiniteSet(Ahead(r)) /\ PlaceIn(r, S) = Cardinality(Ahead(r)) /\ PlaceIn(r, S) \in Nat
             /\ PlaceIn(r, S) < Cardinality(S)
  <2>1. Ahead(r) \in SUBSET S /\ r \notin Ahead(r)
    OBVIOUS
  <2>2. IsFiniteSet(Ahead(r)) /\ Cardinality(Ahead(r)) <= Cardinality(S) /\ Cardinality(Ahead(r)) # Cardinality(S)
    BY <2>1, FS_Subset
  <2>3. Cardinality(Ahead(r)) \in Nat
    BY <2>2, FS_CardinalityType
  <2> QED BY <1>1, <2>2, <2>3 DEF PlaceIn
<1>3. ASSUME NEW q \in S, NEW r \in S, q < r
      PROVE  PlaceIn(q, S) < PlaceIn(r, S)
  <2>1. Ahead(q) \in SUBSET Ahead(r) /\ q \in Ahead(r) /\ q \notin Ahead(q)
    <3>1. ASSUME NEW x \in S, x < q PROVE x < r
      <4>1. x \in Nat /\ q \in Nat /\ r \in Nat
        OBVIOUS
      <4> QED BY <1>3, <3>1, <4>1
    <3>2. ~(q < q)
      OBVIOUS
    <3> QED BY <1>3, <3>1, <3>2
  <2>2. Cardinality(Ahead(q)) <= Cardinality(Ahead(r)) /\ Cardinality(Ahead(q)) # Cardinality(Ahead(r))
    BY <1>2, <2>1, FS_Subset
  <2>3. /\ PlaceIn(q, S) = Cardinality(Ahead(q)) /\ PlaceIn(r, S) = Cardinality(Ahead(r))
        /\ PlaceIn(q, S) \in Nat /\ PlaceIn(r, S) \in Nat
    BY <1>2
  <2> HIDE DEF Ahead
  <2> QED BY <2>2, <2>3
<1> QED BY <1>1, <1>2, <1>3

\* As many repositories as there are places below a number, if there are that many.
LEMMA PlacedBelow ==
  ASSUME NEW S \in SUBSET Nat, IsFiniteSet(S), NEW n \in Nat, n <= Cardinality(S)
  PROVE  Cardinality(Placed(S, n)) = n
<1> DEFINE Odd == {k \in Nat : k <= Cardinality(S) /\ Cardinality(Placed(S, k)) # k}
<1>1. Cardinality(S) \in Nat
  BY FS_CardinalityType
<1>2. SUFFICES ASSUME Odd # {} PROVE FALSE
  OBVIOUS
<1>3. PICK k \in Odd : \A j \in Odd : k <= j
  <2>1. Odd \in SUBSET Nat
    OBVIOUS
  <2> HIDE DEF Odd
  <2> QED BY <1>2, <2>1, CP!MinOf
<1>4. k \in Nat /\ k <= Cardinality(S) /\ Cardinality(Placed(S, k)) # k
  OBVIOUS
<1>5. k # 0
  <2>1. ASSUME NEW x \in Placed(S, 0) PROVE FALSE
    <3>1. x \in S /\ PlaceIn(x, S) \in Nat /\ PlaceIn(x, S) < 0
      BY PlacesIn DEF Placed
    <3> QED BY <3>1
  <2> QED BY <1>4, <2>1, FS_EmptySet
<1>6. k - 1 \in Nat /\ k - 1 < k /\ k - 1 < Cardinality(S)
  BY <1>1, <1>4, <1>5
<1>7. Cardinality(Placed(S, k - 1)) = k - 1
  <2>1. k - 1 \notin Odd
    BY <1>3, <1>6
  <2> QED BY <1>1, <1>6, <2>1
<1> DEFINE few == Placed(S, k - 1)
<1>8. few \in SUBSET S /\ IsFiniteSet(few)
  <2>1. few \in SUBSET S
    BY DEF Placed
  <2> QED BY <2>1, FS_Subset
<1>9. S \ few # {} /\ S \ few \in SUBSET Nat
  <2>1. few # S
    BY <1>1, <1>6, <1>7
  <2> QED BY <1>8, <2>1
<1> HIDE DEF Odd
<1>10. PICK m \in S \ few : \A x \in S \ few : m <= x
  <2> HIDE DEF few
  <2> QED BY <1>9, CP!MinOf
<1>11. {q \in S : q < m} = few
  <2>1. ASSUME NEW q \in S, q < m PROVE q \in few
    <3>1. ~(m <= q)
      BY <2>1
    <3> QED BY <1>10, <3>1
  <2>2. ASSUME NEW q \in few PROVE q < m
    <3>1. q \in S /\ m \in S /\ PlaceIn(q, S) < k - 1 /\ ~(PlaceIn(m, S) < k - 1)
      BY <1>10 DEF Placed
    <3>2. PlaceIn(q, S) \in Nat /\ PlaceIn(m, S) \in Nat
      BY <3>1, PlacesIn
    <3>3. m < q => PlaceIn(m, S) < PlaceIn(q, S)
      BY <3>1, PlacesIn
    <3>4. q # m /\ ~(m < q)
      BY <1>4, <3>1, <3>2, <3>3
    <3>5. q \in Nat /\ m \in Nat
      BY <3>1
    <3> QED BY <3>4, <3>5
  <2> QED BY <1>8, <2>1, <2>2
<1>12. PlaceIn(m, S) = k - 1
  BY <1>7, <1>11 DEF PlaceIn
<1>13. Placed(S, k) = few \cup {m}
  <2>1. ASSUME NEW x \in Placed(S, k), x \notin few PROVE x = m
    <3>1. x \in S /\ PlaceIn(x, S) < k /\ ~(PlaceIn(x, S) < k - 1) /\ PlaceIn(x, S) \in Nat
      BY <2>1, PlacesIn DEF Placed
    <3>2. PlaceIn(x, S) = k - 1
      BY <1>4, <3>1
    <3>3. m < x => PlaceIn(m, S) < PlaceIn(x, S)
      BY <1>10, <3>1, PlacesIn
    <3>4. m <= x /\ m \in Nat /\ x \in Nat
      BY <1>10, <2>1, <3>1
    <3> QED BY <1>6, <1>12, <3>2, <3>3, <3>4
  <2>2. ASSUME NEW x \in few PROVE x \in Placed(S, k)
    <3>1. x \in S /\ PlaceIn(x, S) < k - 1 /\ PlaceIn(x, S) \in Nat
      BY <2>2, PlacesIn DEF Placed
    <3> QED BY <1>4, <3>1 DEF Placed
  <2>3. m \in Placed(S, k)
    BY <1>4, <1>6, <1>10, <1>12 DEF Placed
  <2> QED BY <2>1, <2>2, <2>3
<1>14. Cardinality(few \cup {m}) = k
  <2> HIDE DEF few
  <2>1. Cardinality(few \cup {m}) = Cardinality(few) + 1
    BY <1>8, <1>10, FS_AddElement
  <2>2. Cardinality(few) = k - 1
    BY <1>7 DEF few
  <2> QED BY <1>4, <2>1, <2>2
<1> QED BY <1>4, <1>13, <1>14

\* Of the first n of a set there are n, and whoever is not among them comes after.
LEMMA FirstOnes ==
  ASSUME NEW S \in SUBSET Nat, IsFiniteSet(S), NEW n \in Nat, NEW r \in S, r \notin Placed(S, n)
  PROVE  Cardinality(Placed(S, n)) = n /\ n < Cardinality(S) /\ \A q \in Placed(S, n) : q < r
<1>1. PlaceIn(r, S) \in Nat /\ n <= PlaceIn(r, S) /\ PlaceIn(r, S) < Cardinality(S) /\ Cardinality(S) \in Nat
  BY PlacesIn DEF Placed
<1>2. ASSUME NEW q \in Placed(S, n) PROVE q < r
  <2>1. q \in S /\ PlaceIn(q, S) < n /\ PlaceIn(q, S) \in Nat /\ q \in Nat /\ r \in Nat
    BY PlacesIn DEF Placed
  <2>2. r < q => PlaceIn(r, S) < PlaceIn(q, S)
    BY <2>1, PlacesIn
  <2>3. r # q
    BY <1>1, <2>1
  <2> QED BY <1>1, <2>1, <2>2, <2>3
<1> QED BY <1>1, <1>2, PlacedBelow

\* Numbers of pages.
LEMMA PagesBelow ==
  ASSUME NEW a \in Nat, NEW b \in Nat \ {0}, NEW n \in Nat
  PROVE  a \div b \in Nat /\ (a \div b < n <=> a < n * b)
<1> DEFINE d == a \div b
<1>1. d \in Int /\ b * d <= a /\ a < b * (d + 1)
  OBVIOUS
<1> HIDE DEF d
<1>2. d >= 0
  <2>1. SUFFICES ASSUME d + 1 <= 0 PROVE FALSE
    BY <1>1
  <2>2. b * (d + 1) <= 0
    BY <1>1, <2>1
  <2> QED BY <1>1, <2>2
<1>3. d < n => a < n * b
  <2>1. SUFFICES ASSUME d + 1 <= n PROVE a < n * b
    BY <1>1
  <2>2. b * (d + 1) <= b * n
    BY <1>1, <2>1
  <2> QED BY <1>1, <2>2
<1>4. n <= d => n * b <= a
  <2>1. SUFFICES ASSUME n <= d PROVE n * b <= a
    OBVIOUS
  <2>2. b * n <= b * d
    BY <1>1, <2>1
  <2> QED BY <1>1, <2>2
<1>5. n * b \in Nat
  OBVIOUS
<1> QED BY <1>1, <1>2, <1>3, <1>4, <1>5 DEF d

LEMMA AllPages ==
  ASSUME NEW total \in Nat
  PROVE  /\ Find!Pages(total) \in Nat
         /\ \A a \in Nat : a < total /\ a < Cap => a \div PageSize < Find!Pages(total)
<1> DEFINE m == Find!Lower(total, Cap)
           q == (-m) \div PageSize
<1>1. m \in Nat /\ \A a \in Nat : a < total /\ a < Cap => a < m
  BY FindConstants DEF Find!Lower
<1> HIDE DEF m
<1>2. -m \in Int /\ PageSize \in Nat /\ PageSize >= 1
  BY <1>1, FindConstants
<1>3. q \in Int /\ PageSize * q <= -m
  BY <1>2
<1> HIDE DEF q
<1>4. Find!Pages(total) = -q
  BY DEF Find!Pages, m, q
<1>5. -q \in Int /\ m <= PageSize * (-q)
  BY <1>1, <1>2, <1>3
<1>6. -q \in Nat
  <2>1. SUFFICES ASSUME -q < 0 PROVE FALSE
    BY <1>5
  <2> DEFINE p == -q
             product == PageSize * p
  <2>2. p \in Int /\ p <= -1
    BY <1>5, <2>1
  <2> HIDE DEF p
  <2>3. product \in Int /\ product <= -PageSize
    BY <1>2, <2>2
  <2>4. m <= product
    BY <1>5 DEF p
  <2> HIDE DEF product
  <2> QED BY <1>1, <1>2, <2>3, <2>4
<1>7. ASSUME NEW a \in Nat, a < total, a < Cap PROVE a \div PageSize < -q
  <2>1. a < (-q) * PageSize
    BY <1>1, <1>2, <1>5, <1>7
  <2> QED BY <1>2, <1>6, <2>1, PagesBelow
<1> QED BY <1>4, <1>6, <1>7

LEMMA HitsAre ==
  ASSUME NEW w
  PROVE  /\ Find!Hits(w) \in SUBSET Repos /\ Find!Hits(w) \in SUBSET Nat /\ IsFiniteSet(Find!Hits(w))
         /\ Find!SearchTotal(w) = Cardinality(Find!Hits(w)) /\ Find!SearchTotal(w) \in Nat
<1>1. Find!Hits(w) \in SUBSET Repos
  BY DEF Find!Hits
<1>2. Find!Hits(w) \in SUBSET Nat /\ IsFiniteSet(Find!Hits(w))
  BY <1>1, FindConstants, FS_Subset
<1> QED BY <1>1, <1>2, FS_CardinalityType, FindCounts DEF Find!SearchTotal

\* The first pages show the hits of the first places.
LEMMA PagesShow ==
  ASSUME NEW w, NEW n \in Nat, NEW r \in Find!Hits(w)
  PROVE  r \in Find!Paginate(w, n)
           <=> PlaceIn(r, Find!Hits(w)) < Cap /\ PlaceIn(r, Find!Hits(w)) \div PageSize < n
<1> DEFINE before == PlaceIn(r, Find!Hits(w))
           page == before \div PageSize
<1>1. before \in Nat
  BY HitsAre, PlacesIn
<1>2. page \in Nat
  BY <1>1, PagesBelow, FindConstants
<1>3. \A k : r \in Find!SearchPage(w, k) <=> before < Cap /\ page = k - 1
  BY FindCounts DEF Find!SearchPage, PlaceIn
<1> HIDE DEF page, before
<1>4. r \in Find!Paginate(w, n) <=> \E k \in 1..n : before < Cap /\ page = k - 1
  BY <1>3 DEF Find!Paginate
<1>5. (\E k \in 1..n : page = k - 1) <=> page < n
  <2>1. ASSUME NEW k \in 1..n, page = k - 1 PROVE page < n
    BY <2>1
  <2>2. ASSUME page < n PROVE \E k \in 1..n : page = k - 1
    <3>1. page + 1 \in 1..n /\ page = (page + 1) - 1
      BY <1>2, <2>2
    <3> QED BY <3>1
  <2> QED BY <2>1, <2>2
<1> QED BY <1>4, <1>5 DEF page, before

LEMMA PagesAreHits ==
  ASSUME NEW w, NEW n
  PROVE  Find!Paginate(w, n) \subseteq Find!Hits(w)
BY DEF Find!Paginate, Find!SearchPage

----
Windows == {w \in [start : Int, end : Int] : 1 <= w.start /\ w.start <= w.end /\ w.end <= LastDay}

\* While windows are bisected, a hit is among the stubs, on a stacked window or
\* truncated by its own day.
Waits(r) == \E i \in DOMAIN stack : r \in Find!Hits(stack[i])
WaitInv ==
  stage = "bisect" => \A r \in Find!Hits(Find!Whole) : r \in stubs \/ Find!Truncated(r) \/ Waits(r)

FindInv ==
  /\ created \in [Repos -> 0..LastDay] /\ limit \in Limits /\ stubs \subseteq Repos
  /\ stack \in Seq(Windows)
  /\ WaitInv
  /\ Find!TopIsFound

LEMMA FoundAre ==
  ASSUME limit \in Nat, stubs \subseteq Repos
  PROVE  /\ Find!EffectiveLimit \in Nat /\ stubs \in SUBSET Nat /\ IsFiniteSet(stubs)
         /\ Find!Found = Placed(stubs, Find!EffectiveLimit)
<1>1. Find!EffectiveLimit \in Nat
  BY FindConstants DEF Find!EffectiveLimit
<1>2. stubs \in SUBSET Nat /\ IsFiniteSet(stubs)
  BY FindConstants, FS_Subset
<1> QED BY <1>1, <1>2, FindCounts DEF Find!Found, Placed, PlaceIn

LEMMA FindStart == Find!Init => FindInv
<1> SUFFICES ASSUME Find!Init PROVE FindInv
  OBVIOUS
<1>1. stack \in Seq(Windows)
  BY EmptySeq DEF Find!Init
<1> QED BY <1>1 DEF Find!Init, FindInv, WaitInv, Find!TopIsFound

\* The first of the first pages: whoever is left out comes after all of them.
LEMMA FirstPages ==
  ASSUME NEW S \in SUBSET Nat, IsFiniteSet(S), NEW k \in Nat, NEW n \in Nat, NEW r \in S,
         r \notin Placed(Placed(S, k), n),
         r \in Placed(S, k) \/ n <= Cardinality(Placed(S, k))
  PROVE  /\ Cardinality(Placed(Placed(S, k), n)) = n
         /\ \A q \in Placed(Placed(S, k), n) : q < r
<1> DEFINE P == Placed(S, k)
<1>1. P \in SUBSET Nat /\ IsFiniteSet(P) /\ P \in SUBSET S
  <2>1. P \in SUBSET S
    BY DEF Placed
  <2> QED BY <2>1, FS_Subset
<1>2. CASE r \in P
  <2> HIDE DEF P
  <2>1. r \notin Placed(P, n)
    BY DEF P
  <2>2. Cardinality(Placed(P, n)) = n /\ \A q \in Placed(P, n) : q < r
    BY <1>1, <1>2, <2>1, FirstOnes
  <2> QED BY <2>2 DEF P
<1>3. CASE r \notin P
  <2>1. \A q \in P : q < r
    BY <1>3, FirstOnes
  <2>2. Placed(P, n) \subseteq P
    BY DEF Placed
  <2>3. n <= Cardinality(P)
    BY <1>3
  <2> HIDE DEF P
  <2>4. Cardinality(Placed(P, n)) = n
    BY <1>1, <2>3, PlacedBelow
  <2> QED BY <2>1, <2>2, <2>4 DEF P
<1> QED BY <1>2, <1>3

\* The first pages are the first places.
LEMMA PagesPlaced ==
  ASSUME NEW w, NEW n \in Nat
  PROVE  /\ n * PageSize \in Nat
         /\ Find!Paginate(w, n) = Placed(Find!Hits(w), Find!Lower(Cap, n * PageSize))
         /\ Find!Lower(Cap, n * PageSize) \in Nat
<1> DEFINE m == n * PageSize
<1>1. m \in Nat
  BY FindConstants
<1>2. ASSUME NEW r \in Find!Hits(w)
      PROVE  r \in Find!Paginate(w, n) <=> PlaceIn(r, Find!Hits(w)) < Find!Lower(Cap, m)
  <2> DEFINE before == PlaceIn(r, Find!Hits(w))
  <2>1. before \in Nat
    BY HitsAre, PlacesIn
  <2>2. r \in Find!Paginate(w, n) <=> before < Cap /\ before \div PageSize < n
    BY PagesShow
  <2>3. before \div PageSize < n <=> before < m
    <3> HIDE DEF before
    <3> QED BY <2>1, FindConstants, PagesBelow
  <2> HIDE DEF before, m
  <2>4. before < Cap /\ before < m <=> before < Find!Lower(Cap, m)
    BY <1>1, <2>1, FindConstants DEF Find!Lower
  <2> QED BY <2>2, <2>3, <2>4 DEF before
<1>3. Find!Lower(Cap, m) \in Nat
  <2> HIDE DEF m
  <2> QED BY <1>1, FindConstants DEF Find!Lower
<1> HIDE DEF m
<1>4. Find!Paginate(w, n) = Placed(Find!Hits(w), Find!Lower(Cap, m))
  BY <1>2, PagesAreHits DEF Placed
<1> QED BY <1>1, <1>3, <1>4 DEF m

\* The fast path alone.
LEMMA FastIsEnough ==
  ASSUME limit \in Nat, NEW H, H = Find!Hits(Find!Whole), NEW s, s = Find!Paginate(Find!Whole, FastPages),
         ~(Find!SearchTotal(Find!Whole) > Cap /\ Find!EffectiveLimit > Cardinality(s)),
         Find!EffectiveLimit <= FastPages * PageSize \/ Find!SearchTotal(Find!Whole) > Cap,
         NEW r \in H, r \notin Placed(s, Find!EffectiveLimit)
  PROVE  /\ Cardinality(Placed(s, Find!EffectiveLimit)) = Find!EffectiveLimit
         /\ \A q \in Placed(s, Find!EffectiveLimit) : q < r
<1> DEFINE m == FastPages * PageSize
           k == Find!Lower(Cap, m)
           n == Find!EffectiveLimit
           total == Find!SearchTotal(Find!Whole)
<1>1. /\ H \in SUBSET Nat /\ IsFiniteSet(H) /\ m \in Nat /\ k \in Nat /\ s = Placed(H, k)
      /\ total = Cardinality(H) /\ total \in Nat
  BY FindConstants, HitsAre, PagesPlaced
<1>2. n \in Nat
  BY FindConstants DEF Find!EffectiveLimit
<1>3. IsFiniteSet(s) /\ Cardinality(s) \in Nat
  <2>1. s \in SUBSET H
    BY <1>1 DEF Placed
  <2> QED BY <1>1, <2>1, FS_Subset, FS_CardinalityType
<1>4. ASSUME r \notin Placed(H, k) PROVE n <= Cardinality(Placed(H, k))
  <2>1. Cardinality(s) = k /\ k < total
    <3> HIDE DEF k, total, m
    <3> QED BY <1>1, <1>4, FirstOnes
  <2>2. CASE total > Cap
    <3>1. ~(n > Cardinality(s))
      BY <2>2
    <3> HIDE DEF n, total, k, m
    <3> QED BY <1>1, <1>2, <1>3, <3>1
  <2>3. CASE ~(total > Cap)
    <3>1. n <= m
      BY <2>3
    <3>2. k = m
      <4>1. k = IF Cap < m THEN Cap ELSE m
        BY DEF Find!Lower
      <4> HIDE DEF k, total, m
      <4> QED BY <1>1, <2>1, <2>3, <4>1, FindConstants
    <3> HIDE DEF n, total, k, m
    <3> QED BY <1>1, <2>1, <3>1, <3>2
  <2> QED BY <2>2, <2>3
<1>5. r \notin Placed(Placed(H, k), n)
  BY <1>1
<1> HIDE DEF n, total, k, m
<1>6. Cardinality(Placed(Placed(H, k), n)) = n /\ \A q \in Placed(Placed(H, k), n) : q < r
  BY <1>1, <1>2, <1>4, <1>5, FirstPages
<1> QED BY <1>1, <1>6 DEF n

LEMMA FastStep ==
  ASSUME FindInv, Find!FastPath
  PROVE  FindInv'
<1> DEFINE H == Find!Hits(Find!Whole)
<1>1. /\ stubs' = Find!Paginate(Find!Whole, FastPages) /\ created' = created /\ limit' = limit
      /\ created \in [Repos -> 0..LastDay] /\ limit \in Limits /\ limit \in Nat
  BY FindConstants DEF Find!FastPath, FindInv
<1>2. stubs' \in SUBSET Repos
  BY <1>1, PagesAreHits, HitsAre
<1>3. CASE stage' = "bisect" /\ stack' = <<Find!Whole>>
  <2>1. Find!Whole \in Windows
    BY FindConstants DEF Find!Whole, Windows
  <2>2. stack' \in Seq(Windows)
    BY <1>3, <2>1
  <2>3. 1 \in DOMAIN stack' /\ stack'[1] = Find!Whole
    BY <1>3
  <2>4. WaitInv'
    BY <2>3 DEF WaitInv, Waits, Find!Hits, Find!Whole
  <2>5. Find!TopIsFound'
    BY <1>3 DEF Find!TopIsFound
  <2> QED BY <1>1, <1>2, <2>2, <2>4, <2>5 DEF FindInv, Windows
<1>4. CASE stage' = "done" /\ stack' = <<>>
           /\ ~(Find!SearchTotal(Find!Whole) > Cap /\ Find!EffectiveLimit > Cardinality(stubs'))
  <2>1. stack' \in Seq(Windows)
    BY <1>4, EmptySeq
  <2>2. WaitInv'
    BY <1>4 DEF WaitInv
  <2>3. /\ Find!EffectiveLimit' = Find!EffectiveLimit /\ Find!Found' = Placed(stubs', Find!EffectiveLimit)
        /\ Find!SearchTotal(Find!Whole)' = Find!SearchTotal(Find!Whole)
        /\ Find!Hits(Find!Whole)' = Find!Hits(Find!Whole)
    BY <1>1, FindCounts DEF Find!EffectiveLimit, Find!Found, Placed, PlaceIn, Find!SearchTotal, Find!Hits,
       Find!Whole
  <2>4. ASSUME Find!EffectiveLimit <= FastPages * PageSize \/ Find!SearchTotal(Find!Whole) > Cap,
               NEW r \in H, r \notin Placed(stubs', Find!EffectiveLimit)
        PROVE  /\ Cardinality(Placed(stubs', Find!EffectiveLimit)) = Find!EffectiveLimit
               /\ \A q \in Placed(stubs', Find!EffectiveLimit) : q < r
    BY <1>1, <1>4, <2>4, FastIsEnough
  <2>5. Find!TopIsFound'
    BY <2>3, <2>4, FindCounts DEF Find!TopIsFound
  <2> QED BY <1>1, <1>2, <2>1, <2>2, <2>5 DEF FindInv, Windows
<1> QED BY <1>3, <1>4, FindCounts DEF Find!FastPath

LEMMA StackIs ==
  ASSUME FindInv, stack # <<>>
  PROVE  /\ SizeOf(stack) \in Nat /\ SizeOf(stack) > 0 /\ Find!Top = stack[SizeOf(stack)]
         /\ Find!Top \in Windows
         /\ Find!Below \in Seq(Windows) /\ SizeOf(Find!Below) = SizeOf(stack) - 1
         /\ \A i \in DOMAIN stack : i \in Nat /\ i > 0 /\ i <= SizeOf(stack)
         /\ \A i \in Nat : i > 0 /\ i < SizeOf(stack) =>
              i \in DOMAIN Find!Below /\ Find!Below[i] = stack[i]
<1>1. stack \in Seq(Windows)
  BY DEF FindInv
<1>2. /\ SizeOf(stack) \in Nat /\ SizeOf(stack) > 0
  BY <1>1, EmptySeq, LenProperties DEF SizeOf
<1>3. Find!Top = stack[SizeOf(stack)] /\ Find!Below = SubSeq(stack, 1, SizeOf(stack) - 1)
  BY DEF Find!Top, Find!Below, SizeOf
<1>4. \A i : i \in DOMAIN stack <=> i \in Nat /\ i > 0 /\ i <= SizeOf(stack)
  BY <1>1, PlacesOf
<1>5. \A i \in DOMAIN stack : stack[i] \in Windows
  BY <1>1, PlacesOf
<1>6. Find!Top \in Windows
  BY <1>2, <1>3, <1>4, <1>5
<1> DEFINE n == SizeOf(stack) - 1
           b == SubSeq(stack, 1, n)
<1>7. n \in Nat /\ n <= SizeOf(stack)
  BY <1>2
<1> HIDE DEF n
<1>8. b \in Seq(Windows) /\ SizeOf(b) = n /\ \A i \in Nat : i > 0 /\ i <= n => b[i] = stack[i]
  BY <1>1, <1>7, PlacesOfFront
<1>9. \A i : i \in DOMAIN b <=> i \in Nat /\ i > 0 /\ i <= n
  BY <1>8, PlacesOf
<1> HIDE DEF b
<1>10. ASSUME NEW i \in Nat, i > 0, i < SizeOf(stack)
       PROVE  i \in DOMAIN b /\ b[i] = stack[i]
  <2>1. i <= n
    BY <1>2, <1>10 DEF n
  <2> QED BY <1>8, <1>9, <1>10, <2>1
<1>11. Find!Below = b
  BY <1>3 DEF n, b
<1> QED BY <1>2, <1>3, <1>4, <1>6, <1>8, <1>10, <1>11 DEF n

\* Two windows on a stack.
Piled(s, a, b) == s \o <<a, b>>

LEMMA TwoMore ==
  ASSUME NEW S, NEW s \in Seq(S), NEW a \in S, NEW b \in S
  PROVE  /\ Piled(s, a, b) \in Seq(S)
         /\ \A i \in DOMAIN s : i \in DOMAIN Piled(s, a, b) /\ Piled(s, a, b)[i] = s[i]
         /\ \E i \in DOMAIN Piled(s, a, b) : Piled(s, a, b)[i] = a
         /\ \E i \in DOMAIN Piled(s, a, b) : Piled(s, a, b)[i] = b
<1> DEFINE t == <<a, b>>
           u == s \o t
           n == SizeOf(s)
<1>1. t \in Seq(S) /\ Len(t) = 2 /\ t[1] = a /\ t[2] = b
  OBVIOUS
<1>2. n \in Nat /\ \A i : i \in DOMAIN s <=> i \in Nat /\ i > 0 /\ i <= n
  BY PlacesOf
<1> HIDE DEF t
<1>3. /\ u \in Seq(S) /\ Len(u) = Len(s) + Len(t)
      /\ \A i \in 1 .. Len(s) + Len(t) : u[i] = IF i <= Len(s) THEN s[i] ELSE t[i - Len(s)]
  BY <1>1, ConcatProperties
<1> HIDE DEF u
<1>4. SizeOf(u) = n + 2 /\ \A i \in Nat : i > 0 /\ i <= n + 2 => u[i] = IF i <= n THEN s[i] ELSE t[i - n]
  <2>1. \A i : i \in 1..(n + 2) <=> i \in Nat /\ i > 0 /\ i <= n + 2
    BY <1>2
  <2> QED BY <1>1, <1>3, <2>1 DEF SizeOf
<1>5. \A i : i \in DOMAIN u <=> i \in Nat /\ i > 0 /\ i <= SizeOf(u)
  BY <1>3, PlacesOf
<1> HIDE DEF n
<1>6. n + 1 \in DOMAIN u /\ u[n + 1] = a /\ n + 2 \in DOMAIN u /\ u[n + 2] = b
  <2>1. /\ n + 1 \in Nat /\ n + 1 > 0 /\ n + 1 <= n + 2 /\ ~(n + 1 <= n) /\ (n + 1) - n = 1
        /\ n + 2 \in Nat /\ n + 2 > 0 /\ n + 2 <= n + 2 /\ ~(n + 2 <= n) /\ (n + 2) - n = 2
    BY <1>2
  <2> QED BY <1>1, <1>4, <1>5, <2>1
<1>7. ASSUME NEW i \in DOMAIN s PROVE i \in DOMAIN u /\ u[i] = s[i]
  <2>1. i \in Nat /\ i > 0 /\ i <= n /\ i <= n + 2
    BY <1>2
  <2> QED BY <1>4, <1>5, <2>1
<1> QED BY <1>2, <1>3, <1>6, <1>7 DEF t, u, n, Piled

LEMMA BisectStep ==
  ASSUME FindInv, Find!Bisect
  PROVE  FindInv'
<1> DEFINE top == Find!Top
           late == [start |-> Find!Middle + 1, end |-> top.end]
           early == [start |-> top.start, end |-> Find!Middle]
           below == Find!Below
<1>1. /\ stack # <<>> /\ stack' = below \o <<late, early>> /\ stage = "bisect"
      /\ created' = created /\ limit' = limit /\ stubs' = stubs /\ stage' = stage
      /\ created \in [Repos -> 0..LastDay] /\ limit \in Limits /\ stubs \subseteq Repos /\ WaitInv
  BY DEF Find!Bisect, FindInv
<1>2. top \in Windows /\ top.start \in Int /\ top.end \in Int /\ Find!Middle \in Int
  <2>1. top \in Windows
    BY <1>1, StackIs
  <2> HIDE DEF top
  <2>2. top.start \in Int /\ top.end \in Int
    BY <2>1 DEF Windows
  <2>3. Find!Middle = top.start + (top.end - top.start) \div 2
    BY DEF Find!Middle, top
  <2>4. (top.end - top.start) \div 2 \in Int
    BY <2>2
  <2> QED BY <2>1, <2>2, <2>3, <2>4
<1>3. late \in Windows /\ early \in Windows
  <2>1. 1 <= top.start /\ top.start < top.end /\ top.end <= LastDay /\ LastDay \in Nat
    BY <1>2, FindConstants DEF Find!Bisect, Windows
  <2> DEFINE m == Find!Middle
  <2>2. m = top.start + (top.end - top.start) \div 2
    BY DEF Find!Middle
  <2> HIDE DEF m, top
  <2>3. top.start <= m /\ m < top.end
    BY <1>2, <2>1, <2>2
  <2>4. m \in Int
    BY <1>2 DEF m
  <2>5. late \in [start : Int, end : Int] /\ early \in [start : Int, end : Int]
    BY <1>2, <2>4 DEF m
  <2>6. late.start = m + 1 /\ late.end = top.end /\ early.start = top.start /\ early.end = m
    BY DEF m
  <2> HIDE DEF late, early
  <2>7. /\ 1 <= late.start /\ late.start <= late.end /\ late.end <= LastDay
        /\ 1 <= early.start /\ early.start <= early.end /\ early.end <= LastDay
    BY <1>2, <2>1, <2>3, <2>4, <2>6
  <2> QED BY <2>5, <2>7 DEF Windows
<1>4. below \in Seq(Windows)
  BY <1>1, StackIs
<1>5. ASSUME NEW r \in Repos, r \in Find!Hits(top) PROVE r \in Find!Hits(late) \/ r \in Find!Hits(early)
  <2>1. created[r] \in top.start..top.end
    BY <1>5 DEF Find!Hits
  <2>2. created[r] \in Find!Middle + 1..top.end \/ created[r] \in top.start..Find!Middle
    <3>1. created[r] \in Int
      BY <1>1, FindConstants
    <3> HIDE DEF top
    <3> QED BY <1>2, <2>1, <3>1
  <2> QED BY <2>2 DEF Find!Hits
<1>6. \A w : Find!Hits(w)' = Find!Hits(w)
  BY <1>1 DEF Find!Hits
<1> HIDE DEF late, early, below, top
<1>7. /\ stack' \in Seq(Windows)
      /\ \A i \in DOMAIN below : i \in DOMAIN stack' /\ stack'[i] = below[i]
      /\ \E i \in DOMAIN stack' : stack'[i] = late
      /\ \E i \in DOMAIN stack' : stack'[i] = early
  <2> DEFINE more == Piled(below, late, early)
  <2>1. more \in Seq(Windows)
    BY <1>3, <1>4, TwoMore
  <2>2. \A i \in DOMAIN below : i \in DOMAIN more /\ more[i] = below[i]
    BY <1>3, <1>4, TwoMore
  <2>3. \E i \in DOMAIN more : more[i] = late
    BY <1>3, <1>4, TwoMore
  <2>4. \E i \in DOMAIN more : more[i] = early
    BY <1>3, <1>4, TwoMore
  <2>5. stack' = more
    BY <1>1 DEF Piled
  <2> HIDE DEF more
  <2> QED BY <2>1, <2>2, <2>3, <2>4, <2>5
<1>8. ASSUME NEW r \in Repos, NEW i \in DOMAIN stack, r \in Find!Hits(stack[i])
      PROVE  \E j \in DOMAIN stack' : r \in Find!Hits(stack'[j])
  <2>1. i \in Nat /\ i > 0 /\ i <= SizeOf(stack) /\ SizeOf(stack) \in Nat
    BY <1>1, StackIs
  <2>2. CASE i < SizeOf(stack)
    <3>1. i \in DOMAIN below /\ below[i] = stack[i]
      BY <1>1, <2>1, <2>2, StackIs DEF below
    <3> QED BY <1>7, <1>8, <3>1
  <2>3. CASE i = SizeOf(stack)
    <3>1. stack[i] = top
      BY <1>1, <2>3, StackIs DEF top
    <3> QED BY <1>5, <1>7, <1>8, <3>1
  <2> QED BY <2>1, <2>2, <2>3
<1>9. WaitInv'
  <2> SUFFICES ASSUME NEW r \in Find!Hits(Find!Whole)
               PROVE  r \in stubs' \/ Find!Truncated(r)' \/ Waits(r)'
    BY <1>6 DEF WaitInv, Find!Whole
  <2>1. r \in Repos /\ (r \in stubs \/ Find!Truncated(r) \/ Waits(r))
    BY <1>1, HitsAre DEF WaitInv
  <2>2. CASE Waits(r)
    <3>1. Waits(r)' <=> \E j \in DOMAIN stack' : r \in Find!Hits(stack'[j])
      BY <1>1 DEF Waits, Find!Hits
    <3> QED BY <1>8, <2>1, <2>2, <3>1 DEF Waits
  <2>3. Find!Truncated(r)' <=> Find!Truncated(r)
    BY <1>1 DEF Find!Truncated, Find!SearchTotal, Find!Hits
  <2> QED BY <1>1, <2>1, <2>2, <2>3
<1>10. Find!TopIsFound'
  BY <1>1 DEF Find!TopIsFound
<1> QED BY <1>1, <1>7, <1>9, <1>10 DEF FindInv, Windows

\* A window that is not bisected shows all of its hits, or is a day with more.
LEMMA SliceShows ==
  ASSUME FindInv, stack # <<>>, ~(Find!TooMany /\ Find!Top.start < Find!Top.end),
         NEW r \in Find!Hits(Find!Top)
  PROVE  r \in Find!Paginate(Find!Top, Find!Pages(Find!SearchTotal(Find!Top))) \/ Find!Truncated(r)
<1> DEFINE top == Find!Top
           total == Find!SearchTotal(top)
           before == PlaceIn(r, Find!Hits(top))
<1>1. top \in Windows
  BY StackIs
<1>2. total \in Nat /\ before \in Nat /\ before < total
  BY HitsAre, PlacesIn
<1>3. Find!Pages(total) \in Nat /\ (before < Cap => before \div PageSize < Find!Pages(total))
  <2> HIDE DEF total, before
  <2> QED BY <1>2, AllPages
<1>4. CASE total <= Cap
  <2>1. before < Cap
    <3> HIDE DEF total, before
    <3> QED BY <1>2, <1>4, FindConstants
  <2> QED BY <1>3, <2>1, PagesShow
<1>5. CASE ~(total <= Cap)
  <2>1. total > Cap /\ total >= Cap
    <3> HIDE DEF total
    <3> QED BY <1>2, <1>5, FindConstants
  <2>2. ~(top.start < top.end)
    BY <2>1 DEF Find!TooMany
  <2>3. created[r] = top.start /\ created[r] = top.end
    <3>1. created[r] \in top.start..top.end
      BY DEF Find!Hits
    <3> HIDE DEF top
    <3>2. top.start \in Int /\ top.end \in Int
      BY <1>1 DEF Windows
    <3> QED BY <2>2, <3>1, <3>2
  <2>4. top = [start |-> created[r], end |-> created[r]]
    <3> HIDE DEF top
    <3> QED BY <1>1, <2>3 DEF Windows
  <2> QED BY <2>1, <2>4 DEF Find!Truncated
<1> QED BY <1>4, <1>5

LEMMA SliceStep ==
  ASSUME FindInv, Find!Slice
  PROVE  FindInv'
<1> DEFINE top == Find!Top
           below == Find!Below
           page == Find!Paginate(top, Find!Pages(Find!SearchTotal(top)))
<1>1. /\ stack # <<>> /\ stack' = below /\ stage = "bisect" /\ stubs' = stubs \cup page
      /\ ~(Find!TooMany /\ top.start < top.end)
      /\ created' = created /\ limit' = limit /\ stage' = stage
      /\ created \in [Repos -> 0..LastDay] /\ limit \in Limits /\ stubs \subseteq Repos /\ WaitInv
  BY DEF Find!Slice, FindInv
<1>2. page \in SUBSET Repos
  BY PagesAreHits, HitsAre
<1>3. below \in Seq(Windows)
  BY <1>1, StackIs
<1>4. ASSUME NEW r \in Find!Hits(top) PROVE r \in page \/ Find!Truncated(r)
  BY <1>1, SliceShows
<1> HIDE DEF top, below, page
<1>5. WaitInv'
  <2> SUFFICES ASSUME NEW r \in Find!Hits(Find!Whole)
               PROVE  r \in stubs' \/ Find!Truncated(r)' \/ Waits(r)'
    BY <1>1 DEF WaitInv, Find!Whole, Find!Hits
  <2>1. r \in stubs \/ Find!Truncated(r) \/ Waits(r)
    BY <1>1 DEF WaitInv
  <2>2. Find!Truncated(r)' <=> Find!Truncated(r)
    BY <1>1 DEF Find!Truncated, Find!SearchTotal, Find!Hits
  <2>3. ASSUME NEW i \in DOMAIN stack, r \in Find!Hits(stack[i])
        PROVE  r \in page \/ Find!Truncated(r) \/ Waits(r)'
    <3>1. i \in Nat /\ i > 0 /\ i <= SizeOf(stack) /\ SizeOf(stack) \in Nat
      BY <1>1, StackIs
    <3>2. CASE i < SizeOf(stack)
      <4>1. i \in DOMAIN stack' /\ stack'[i] = stack[i]
        BY <1>1, <3>1, <3>2, StackIs DEF below
      <4> QED BY <1>1, <2>3, <4>1 DEF Waits, Find!Hits
    <3>3. CASE i = SizeOf(stack)
      <4>1. stack[i] = top
        BY <1>1, <3>3, StackIs DEF top
      <4> QED BY <1>4, <2>3, <4>1
    <3> QED BY <3>1, <3>2, <3>3
  <2> QED BY <1>1, <2>1, <2>2, <2>3 DEF Waits
<1>6. Find!TopIsFound'
  BY <1>1 DEF Find!TopIsFound
<1> QED BY <1>1, <1>2, <1>3, <1>5, <1>6 DEF FindInv, Windows

LEMMA FindStep ==
  ASSUME FindInv, [Find!Next]_(Find!vars)
  PROVE  FindInv'
<1>1. CASE UNCHANGED Find!vars
  <2>1. created' = created /\ limit' = limit /\ stubs' = stubs /\ stack' = stack /\ stage' = stage
    BY <1>1 DEF Find!vars
  <2>2. WaitInv' <=> WaitInv
    BY <2>1 DEF WaitInv, Waits, Find!Truncated, Find!SearchTotal, Find!Hits, Find!Whole
  <2>3. Find!TopIsFound' <=> Find!TopIsFound
    BY <2>1 DEF Find!TopIsFound, Find!Found, Find!EffectiveLimit, Find!Truncated, Find!SearchTotal,
       Find!Hits, Find!Whole
  <2> QED BY <2>1, <2>2, <2>3 DEF FindInv, Windows
<1>2. CASE Find!BisectEnds
  <2>1. /\ created' = created /\ limit' = limit /\ stubs' = stubs /\ stack' = stack /\ stage' = "done"
        /\ stack = <<>> /\ stage = "bisect"
    BY <1>2 DEF Find!BisectEnds
  <2>2. \A r \in Find!Hits(Find!Whole) : r \in stubs \/ Find!Truncated(r)
    <3>1. \A r : ~Waits(r)
      BY <2>1 DEF Waits
    <3> QED BY <2>1, <3>1 DEF FindInv, WaitInv
  <2>3. ASSUME NEW r \in Find!Hits(Find!Whole), r \notin Find!Found, ~Find!Truncated(r)
        PROVE  Cardinality(Find!Found) = Find!EffectiveLimit /\ \A q \in Find!Found : q < r
    <3>1. limit \in Nat /\ stubs \subseteq Repos /\ r \in stubs
      BY <2>2, <2>3, FindConstants DEF FindInv
    <3> QED BY <2>3, <3>1, FoundAre, FirstOnes
  <2>4. Find!TopIsFound'
    BY <2>1, <2>3, FindCounts DEF Find!TopIsFound, Find!Found, Find!EffectiveLimit, Find!Truncated,
       Find!SearchTotal, Find!Hits, Find!Whole
  <2>5. WaitInv'
    BY <2>1 DEF WaitInv
  <2> QED BY <2>1, <2>4, <2>5 DEF FindInv, Windows
<1> QED BY <1>1, <1>2, FastStep, BisectStep, SliceStep DEF Find!Next

LEMMA FindAlone == PartsSpec => Find!Spec
<1>1. PartsInit => Find!Init
  BY DEF PartsInit
<1>2. [PartsNext]_partVars => [Find!Next]_(Find!vars)
  BY DEF PartsNext, Only, partVars, findVars, Find!vars
<1> QED BY <1>1, <1>2, PTL DEF PartsSpec, Find!Spec

\* Discovery comes back with the most starred of the window, for any
\* repositories, days, cap, pages and limits (discovery.py).
THEOREM TopFound == PartsSpec => []TopIsFound
<1>1. FindInv => TopIsFound
  BY DEF FindInv, TopIsFound
<1> QED BY <1>1, FindStart, FindStep, FindAlone, PTL DEF Find!Spec

----
(* Sums over finite sets.                                                    *)

One(s) == CHOOSE x \in s : TRUE

\* A function that has on the sets of D what a fold has: nothing for the empty
\* set, and for the others the value of one element and the sum of the rest.
Adds(F, w, D) == F = [s \in D |-> IF s = {} THEN 0 ELSE w[One(s)] + F[s \ {One(s)}]]

\* The subsets of at most n elements.
Small(S, n) == {s \in SUBSET S : Cardinality(s) <= n}

LEMMA OneLess ==
  ASSUME NEW S, IsFiniteSet(S), NEW s \in SUBSET S, s # {}
  PROVE  /\ One(s) \in s /\ s \ {One(s)} \in SUBSET S
         /\ IsFiniteSet(s) /\ Cardinality(s) \in Nat
         /\ Cardinality(s \ {One(s)}) \in Nat /\ Cardinality(s \ {One(s)}) + 1 = Cardinality(s)
<1>1. One(s) \in s
  BY DEF One
<1>2. IsFiniteSet(s)
  BY FS_Subset
<1>3. Cardinality(s) \in Nat /\ Cardinality(s \ {One(s)}) = Cardinality(s) - 1
      /\ Cardinality(s \ {One(s)}) \in Nat
  BY <1>1, <1>2, FS_CardinalityType, FS_RemoveElement
<1> QED BY <1>1, <1>2, <1>3

LEMMA SumsExist ==
  ASSUME NEW w, NEW S, IsFiniteSet(S)
  PROVE  \E F : Adds(F, w, SUBSET S)
<1> DEFINE Odd == {n \in Nat : ~\E F : Adds(F, w, Small(S, n))}
<1>1. Odd = {}
  <2> SUFFICES ASSUME Odd # {} PROVE FALSE
    OBVIOUS
  <2>1. PICK n \in Odd : \A m \in Odd : n <= m
    <3>1. Odd \in SUBSET Nat
      OBVIOUS
    <3> HIDE DEF Odd
    <3> QED BY <3>1, CP!MinOf
  <2>2. n \in Nat /\ ~\E F : Adds(F, w, Small(S, n))
    OBVIOUS
  <2>3. n # 0
    <3> DEFINE F == [s \in Small(S, 0) |-> 0]
    <3>1. ASSUME NEW s \in Small(S, 0) PROVE s = {}
      <4>1. s \in SUBSET S /\ Cardinality(s) <= 0
        BY DEF Small
      <4>2. IsFiniteSet(s) /\ Cardinality(s) \in Nat
        BY <4>1, FS_Subset, FS_CardinalityType
      <4>3. Cardinality(s) = 0
        BY <4>1, <4>2
      <4> QED BY <4>2, <4>3, FS_EmptySet
    <3>2. Adds(F, w, Small(S, 0))
      BY <3>1 DEF Adds
    <3> QED BY <2>2, <3>2
  <2>4. n - 1 \in Nat /\ n - 1 < n
    BY <2>2, <2>3
  <2>5. PICK F : Adds(F, w, Small(S, n - 1))
    BY <2>1, <2>4
  <2> DEFINE G == [s \in Small(S, n) |-> IF s = {} THEN 0 ELSE w[One(s)] + F[s \ {One(s)}]]
  <2>6. ASSUME NEW s \in Small(S, n), s # {}
        PROVE  s \ {One(s)} \in Small(S, n - 1)
    <3>1. s \in SUBSET S /\ Cardinality(s) <= n
      BY DEF Small
    <3>2. Cardinality(s \ {One(s)}) <= n - 1
      BY <2>2, <2>6, <3>1, OneLess
    <3> QED BY <2>6, <3>1, <3>2, OneLess DEF Small
  <2>7. \A s \in Small(S, n - 1) : s \in Small(S, n) /\ G[s] = F[s]
    <3> TAKE s \in Small(S, n - 1)
    <3>1. s \in Small(S, n)
      <4>1. s \in SUBSET S /\ Cardinality(s) <= n - 1 /\ Cardinality(s) \in Nat
        <5>1. s \in SUBSET S /\ Cardinality(s) <= n - 1
          BY DEF Small
        <5> QED BY <5>1, FS_Subset, FS_CardinalityType
      <4> QED BY <2>2, <4>1 DEF Small
    <3>2. F[s] = IF s = {} THEN 0 ELSE w[One(s)] + F[s \ {One(s)}]
      BY <2>5 DEF Adds
    <3> QED BY <3>1, <3>2
  <2>8. Adds(G, w, Small(S, n))
    BY <2>6, <2>7 DEF Adds
  <2> QED BY <2>2, <2>8
<1>2. PICK F : Adds(F, w, Small(S, Cardinality(S)))
  <2>1. Cardinality(S) \in Nat
    BY FS_CardinalityType
  <2> QED BY <1>1, <2>1
<1>3. Small(S, Cardinality(S)) = SUBSET S
  BY FS_Subset DEF Small
<1> QED BY <1>2, <1>3

\* A sum as the models have it, of the values of an operator, is what such a
\* function has for the whole set.
Sum(w, S) == (CHOOSE F : Adds(F, w, SUBSET S))[S]

LEMMA SumIs ==
  ASSUME NEW w, NEW S, IsFiniteSet(S)
  PROVE  \E F : Adds(F, w, SUBSET S) /\ Sum(w, S) = F[S]
BY SumsExist DEF Sum

\* Of some subsets of a finite set there is a smallest one.
LEMMA SmallestOf ==
  ASSUME NEW S, IsFiniteSet(S), NEW Odd \in SUBSET SUBSET S, Odd # {}
  PROVE  \E s \in Odd : \A x \in s : s \ {x} \notin Odd
<1> DEFINE Sizes == {n \in Nat : \E s \in Odd : Cardinality(s) = n}
<1>1. \A s \in SUBSET S : IsFiniteSet(s) /\ Cardinality(s) \in Nat
  BY FS_Subset, FS_CardinalityType
<1>2. PICK n \in Sizes : \A m \in Sizes : n <= m
  <2>1. Sizes \in SUBSET Nat /\ Sizes # {}
    BY <1>1
  <2> HIDE DEF Sizes
  <2> QED BY <2>1, CP!MinOf
<1>3. PICK s \in Odd : Cardinality(s) = n
  OBVIOUS
<1>4. ASSUME NEW x \in s, s \ {x} \in Odd PROVE FALSE
  <2>1. Cardinality(s \ {x}) = n - 1 /\ n \in Nat
    BY <1>1, <1>3, FS_RemoveElement
  <2>2. Cardinality(s \ {x}) \in Sizes
    BY <1>1, <1>4
  <2>3. n <= n - 1
    BY <1>2, <2>1, <2>2
  <2> HIDE DEF Sizes
  <2> QED BY <2>1, <2>3
<1> QED BY <1>4

\* There is one such function.
LEMMA SumsAgree ==
  ASSUME NEW w, NEW S, IsFiniteSet(S), NEW T \in SUBSET S,
         NEW F, Adds(F, w, SUBSET T), NEW G, Adds(G, w, SUBSET S)
  PROVE  F[T] = G[T]
<1> DEFINE Odd == {s \in SUBSET T : F[s] # G[s]}
<1>1. Odd = {}
  <2> SUFFICES ASSUME Odd # {} PROVE FALSE
    OBVIOUS
  <2>1. PICK s \in Odd : \A x \in s : s \ {x} \notin Odd
    <3>1. IsFiniteSet(T) /\ Odd \in SUBSET SUBSET T
      BY FS_Subset
    <3> HIDE DEF Odd
    <3> QED BY <3>1, SmallestOf
  <2>2. s \in SUBSET T /\ s \in SUBSET S /\ F[s] # G[s]
    OBVIOUS
  <2>3. /\ F[s] = IF s = {} THEN 0 ELSE w[One(s)] + F[s \ {One(s)}]
        /\ G[s] = IF s = {} THEN 0 ELSE w[One(s)] + G[s \ {One(s)}]
    BY <2>2 DEF Adds
  <2>4. s # {}
    BY <2>2, <2>3
  <2>5. One(s) \in s
    BY <2>4 DEF One
  <2>6. F[s \ {One(s)}] = G[s \ {One(s)}]
    BY <2>1, <2>2, <2>5
  <2> QED BY <2>2, <2>3, <2>6
<1> QED BY <1>1

LEMMA SumOfOthers ==
  ASSUME NEW w, NEW S, IsFiniteSet(S)
  PROVE  Sum(w, S) = IF S = {} THEN 0 ELSE w[One(S)] + Sum(w, S \ {One(S)})
<1>1. PICK F : Adds(F, w, SUBSET S) /\ Sum(w, S) = F[S]
  BY SumIs
<1>2. F[S] = IF S = {} THEN 0 ELSE w[One(S)] + F[S \ {One(S)}]
  BY <1>1 DEF Adds
<1>3. ASSUME S # {} PROVE F[S \ {One(S)}] = Sum(w, S \ {One(S)})
  <2> DEFINE T == S \ {One(S)}
  <2>1. T \in SUBSET S /\ IsFiniteSet(T)
    BY FS_Subset
  <2> HIDE DEF T
  <2>2. PICK G : Adds(G, w, SUBSET T) /\ Sum(w, T) = G[T]
    BY <2>1, SumIs
  <2>3. G[T] = F[T]
    BY <1>1, <2>1, <2>2, SumsAgree
  <2> QED BY <2>2, <2>3 DEF T
<1> QED BY <1>1, <1>2, <1>3

Ints(w, S) == \A x \in S : w[x] \in Int

LEMMA SumIsInt ==
  ASSUME NEW w, NEW S, IsFiniteSet(S), Ints(w, S)
  PROVE  Sum(w, S) \in Int
<1> DEFINE Odd == {s \in SUBSET S : Sum(w, s) \notin Int}
<1>1. Odd = {}
  <2> SUFFICES ASSUME Odd # {} PROVE FALSE
    OBVIOUS
  <2>1. PICK s \in Odd : \A x \in s : s \ {x} \notin Odd
    <3>1. Odd \in SUBSET SUBSET S
      OBVIOUS
    <3> HIDE DEF Odd
    <3> QED BY <3>1, SmallestOf
  <2>2. s \in SUBSET S /\ IsFiniteSet(s) /\ Sum(w, s) \notin Int
    BY FS_Subset
  <2>3. Sum(w, s) = IF s = {} THEN 0 ELSE w[One(s)] + Sum(w, s \ {One(s)})
    BY <2>2, SumOfOthers
  <2>4. s # {} => One(s) \in s
    BY DEF One
  <2>5. s # {} => Sum(w, s \ {One(s)}) \in Int /\ w[One(s)] \in Int
    BY <2>1, <2>2, <2>4 DEF Ints
  <2> HIDE DEF Odd
  <2> QED BY <2>2, <2>3, <2>5
<1> QED BY <1>1

\* Whichever is taken first.
LEMMA SumWithout ==
  ASSUME NEW w, NEW S, IsFiniteSet(S), Ints(w, S), NEW x \in S
  PROVE  Sum(w, S) = w[x] + Sum(w, S \ {x})
<1> DEFINE Odd == {s \in SUBSET S : \E y \in s : Sum(w, s) # w[y] + Sum(w, s \ {y})}
<1>1. Odd = {}
  <2> SUFFICES ASSUME Odd # {} PROVE FALSE
    OBVIOUS
  <2>1. PICK s \in Odd : \A y \in s : s \ {y} \notin Odd
    <3>1. Odd \in SUBSET SUBSET S
      OBVIOUS
    <3> HIDE DEF Odd
    <3> QED BY <3>1, SmallestOf
  <2>2. PICK y \in s : Sum(w, s) # w[y] + Sum(w, s \ {y})
    OBVIOUS
  <2> DEFINE z == One(s)
             rest == (s \ {z}) \ {y}
  <2>3. s \in SUBSET S /\ IsFiniteSet(s) /\ z \in s /\ y \in S /\ z \in S
    BY <2>2, FS_Subset DEF One
  <2>4. Sum(w, s) = w[z] + Sum(w, s \ {z})
    BY <2>3, SumOfOthers
  <2>5. y # z
    BY <2>2, <2>4
  <2>6. rest = (s \ {y}) \ {z}
    OBVIOUS
  <2>7. Sum(w, s \ {z}) = w[y] + Sum(w, rest)
    BY <2>1, <2>2, <2>3, <2>5
  <2>8. Sum(w, s \ {y}) = w[z] + Sum(w, rest)
    <3>1. s \ {y} \notin Odd /\ s \ {y} \in SUBSET S /\ z \in s \ {y}
      BY <2>1, <2>2, <2>3, <2>5
    <3>2. Sum(w, s \ {y}) = w[z] + Sum(w, (s \ {y}) \ {z})
      <4> HIDE DEF z
      <4> QED BY <3>1
    <3> QED BY <2>6, <3>2
  <2>9. w[y] \in Int /\ w[z] \in Int /\ Sum(w, rest) \in Int
    <3>1. rest \in SUBSET S /\ IsFiniteSet(rest)
      BY <2>3, FS_Subset
    <3> HIDE DEF rest
    <3>2. Ints(w, rest)
      BY <3>1 DEF Ints
    <3> QED BY <2>3, <3>1, <3>2, SumIsInt DEF Ints
  <2> HIDE DEF rest, z, Odd
  <2> QED BY <2>2, <2>4, <2>7, <2>8, <2>9
<1> QED BY <1>1

LEMMA Distributes ==
  ASSUME NEW c \in Int, NEW a \in Int, NEW b \in Int
  PROVE  c * (a + b) = c * a + c * b /\ c * a \in Int /\ c * b \in Int
OBVIOUS

\* Where so many times the values of one sum are at most so many times those of
\* another, so are the sums.
LEMMA SumsCompare ==
  ASSUME NEW v, NEW w, NEW S, IsFiniteSet(S), Ints(v, S), Ints(w, S), NEW c \in Int, NEW d \in Int,
         \A x \in S : c * v[x] <= d * w[x]
  PROVE  c * Sum(v, S) <= d * Sum(w, S)
<1> DEFINE Odd == {s \in SUBSET S : ~(c * Sum(v, s) <= d * Sum(w, s))}
<1>1. Odd = {}
  <2> SUFFICES ASSUME Odd # {} PROVE FALSE
    OBVIOUS
  <2>1. PICK s \in Odd : \A x \in s : s \ {x} \notin Odd
    <3>1. Odd \in SUBSET SUBSET S
      OBVIOUS
    <3> HIDE DEF Odd
    <3> QED BY <3>1, SmallestOf
  <2>2. s \in SUBSET S /\ IsFiniteSet(s) /\ ~(c * Sum(v, s) <= d * Sum(w, s))
    BY FS_Subset
  <2>3. s # {}
    <3>1. ASSUME s = {} PROVE Sum(w, s) = 0 /\ Sum(v, s) = 0
      BY <2>2, <3>1, SumOfOthers
    <3> QED BY <2>2, <3>1
  <2>4. PICK x \in s : TRUE
    BY <2>3
  <2> DEFINE r == s \ {x}
  <2>5. r \in SUBSET S /\ IsFiniteSet(r) /\ Ints(w, s) /\ Ints(v, s) /\ Ints(w, r) /\ Ints(v, r)
    BY <2>2, FS_Subset DEF Ints
  <2>6. c * Sum(v, r) <= d * Sum(w, r)
    BY <2>1, <2>4, <2>5
  <2>7. Sum(w, s) = w[x] + Sum(w, r) /\ Sum(v, s) = v[x] + Sum(v, r)
    BY <2>2, <2>5, SumWithout
  <2>8. w[x] \in Int /\ v[x] \in Int /\ c * v[x] <= d * w[x]
    BY <2>2 DEF Ints
  <2> HIDE DEF r, Odd
  <2>9. Sum(w, r) \in Int /\ Sum(v, r) \in Int
    BY <2>5, SumIsInt
  <2>10. /\ c * Sum(v, s) = c * v[x] + c * Sum(v, r) /\ c * v[x] \in Int /\ c * Sum(v, r) \in Int
         /\ d * Sum(w, s) = d * w[x] + d * Sum(w, r) /\ d * w[x] \in Int /\ d * Sum(w, r) \in Int
    BY <2>7, <2>8, <2>9, Distributes
  <2> DEFINE a == c * v[x]
             b == c * Sum(v, r)
             e == d * w[x]
             f == d * Sum(w, r)
  <2>11. /\ a \in Int /\ b \in Int /\ e \in Int /\ f \in Int /\ a <= e /\ b <= f /\ ~(a + b <= e + f)
    BY <2>2, <2>6, <2>8, <2>10
  <2> HIDE DEF a, b, e, f
  <2> QED BY <2>11
<1> QED BY <1>1

\* A sum of what is not negative grows with the set.
LEMMA SumGrows ==
  ASSUME NEW w, NEW S, IsFiniteSet(S), NEW T \in SUBSET S, \A x \in S : w[x] \in Nat
  PROVE  Sum(w, T) \in Nat /\ Sum(w, S) \in Nat /\ Sum(w, T) <= Sum(w, S)
<1> DEFINE Odd == {s \in SUBSET S : Sum(w, s) \notin Nat \/ (T \subseteq s /\ ~(Sum(w, T) <= Sum(w, s)))}
<1>0. \A s \in SUBSET S : IsFiniteSet(s) /\ Ints(w, s) /\ Sum(w, s) \in Int
  <2> TAKE s \in SUBSET S
  <2>1. IsFiniteSet(s) /\ Ints(w, s)
    BY FS_Subset DEF Ints
  <2> QED BY <2>1, SumIsInt
<1>1. Odd = {}
  <2> SUFFICES ASSUME Odd # {} PROVE FALSE
    OBVIOUS
  <2>1. PICK s \in Odd : \A x \in s : s \ {x} \notin Odd
    <3>1. Odd \in SUBSET SUBSET S
      OBVIOUS
    <3> HIDE DEF Odd
    <3> QED BY <3>1, SmallestOf
  <2>2. s \in SUBSET S /\ (Sum(w, s) \notin Nat \/ (T \subseteq s /\ ~(Sum(w, T) <= Sum(w, s))))
    OBVIOUS
  <2>3. ASSUME NEW x \in s
        PROVE  /\ Sum(w, s) = w[x] + Sum(w, s \ {x}) /\ w[x] \in Nat
               /\ Sum(w, s \ {x}) \in Nat
               /\ Sum(w, s) \in Nat /\ Sum(w, s \ {x}) <= Sum(w, s)
               /\ T \subseteq s \ {x} => Sum(w, T) <= Sum(w, s \ {x})
    <3>1. s \ {x} \in SUBSET S /\ s \ {x} \notin Odd
      BY <2>1, <2>2
    <3>2. Sum(w, s) = w[x] + Sum(w, s \ {x})
      BY <1>0, <2>2, SumWithout
    <3>3. Sum(w, s \ {x}) \in Nat /\ (T \subseteq s \ {x} => Sum(w, T) <= Sum(w, s \ {x}))
      BY <3>1
    <3>4. w[x] \in Nat
      BY <2>2
    <3>5. \A a, b \in Nat : a + b \in Nat /\ b <= a + b
      OBVIOUS
    <3> QED BY <3>2, <3>3, <3>4, <3>5
  <2> HIDE DEF Odd
  <2>4. Sum(w, s) \in Nat
    <3>1. CASE s = {}
      <4>1. Sum(w, s) = 0
        BY <1>0, <2>2, <3>1, SumOfOthers
      <4> QED BY <4>1
    <3>2. CASE s # {}
      <4>1. PICK x \in s : TRUE
        BY <3>2
      <4> QED BY <2>3
    <3> QED BY <3>1, <3>2
  <2>5. T \subseteq s /\ ~(Sum(w, T) <= Sum(w, s)) /\ Sum(w, T) \in Int
    BY <1>0, <2>2, <2>4
  <2>6. T # s
    BY <2>4, <2>5
  <2>7. PICK x \in s : x \notin T
    BY <2>5, <2>6
  <2>8. Sum(w, T) <= Sum(w, s \ {x}) /\ Sum(w, s \ {x}) \in Nat /\ Sum(w, s \ {x}) <= Sum(w, s)
    BY <2>3, <2>5, <2>7
  <2>9. \A a, b, c \in Int : a <= b /\ b <= c => a <= c
    OBVIOUS
  <2> QED BY <2>4, <2>5, <2>8, <2>9
<1>2. Sum(w, S) \in Nat /\ Sum(w, T) \in Nat /\ Sum(w, T) <= Sum(w, S)
  <2>1. S \notin Odd /\ T \notin Odd
    BY <1>1
  <2> QED BY <2>1
<1> QED BY <1>2

LEMMA SumHas ==
  ASSUME NEW w, NEW S, IsFiniteSet(S), \A x \in S : w[x] \in Nat, NEW y \in S
  PROVE  w[y] <= Sum(w, S)
<1>1. IsFiniteSet({y}) /\ {y} \in SUBSET S
  BY FS_Singleton
<1>2. Sum(w, {y}) = w[y]
  <2>1. Ints(w, {y})
    BY DEF Ints
  <2>2. Sum(w, {y}) = w[y] + Sum(w, {y} \ {y})
    BY <1>1, <2>1, SumWithout
  <2>3. {y} \ {y} = {} /\ IsFiniteSet({})
    BY FS_EmptySet
  <2>4. Sum(w, {}) = 0
    BY <2>3, SumOfOthers
  <2> QED BY <2>2, <2>3, <2>4
<1> QED BY <1>1, <1>2, SumGrows

----
(* Ventures: the weights, and the largest of them.                           *)

\* Of finitely many there is one of the largest weight.
LEMMA OneLargest ==
  ASSUME NEW D, IsFiniteSet(D), D # {}, NEW w, \A x \in D : w[x] \in Int
  PROVE  \E x \in D : \A y \in D : w[x] >= w[y]
<1> DEFINE Odd == {s \in SUBSET D : s # {} /\ ~\E x \in s : \A y \in s : w[x] >= w[y]}
<1>1. Odd = {}
  <2> SUFFICES ASSUME Odd # {} PROVE FALSE
    OBVIOUS
  <2>1. PICK s \in Odd : \A x \in s : s \ {x} \notin Odd
    <3>1. Odd \in SUBSET SUBSET D
      OBVIOUS
    <3> HIDE DEF Odd
    <3> QED BY <3>1, SmallestOf
  <2>2. s \in SUBSET D /\ s # {} /\ ~\E x \in s : \A y \in s : w[x] >= w[y]
    OBVIOUS
  <2>3. PICK x \in s : TRUE
    BY <2>2
  <2>4. CASE s \ {x} = {}
    <3>1. s = {x} /\ w[x] \in Int
      BY <2>2, <2>3, <2>4
    <3>2. w[x] >= w[x]
      BY <3>1
    <3> QED BY <2>2, <3>1, <3>2
  <2>5. CASE s \ {x} # {}
    <3>1. s \ {x} \in SUBSET D /\ s \ {x} \notin Odd
      BY <2>1, <2>2, <2>3
    <3>2. PICK y \in s \ {x} : \A z \in s \ {x} : w[y] >= w[z]
      BY <2>5, <3>1
    <3>3. w[x] \in Int /\ w[y] \in Int /\ \A z \in s : w[z] \in Int
      BY <2>2, <2>3
    <3> HIDE DEF Odd
    <3>4. CASE w[x] >= w[y]
      <4>1. \A z \in s : w[x] >= w[z]
        BY <3>2, <3>3, <3>4
      <4> QED BY <2>2, <2>3, <4>1
    <3>5. CASE ~(w[x] >= w[y])
      <4>1. \A z \in s : w[y] >= w[z]
        BY <3>2, <3>3, <3>5
      <4> QED BY <2>2, <3>2, <4>1
    <3> QED BY <3>4, <3>5
  <2> QED BY <2>4, <2>5
<1>2. D \notin Odd
  BY <1>1
<1> QED BY <1>2

\* And so many of them.
LEMMA SomeLargest ==
  ASSUME NEW D, IsFiniteSet(D), NEW w, \A x \in D : w[x] \in Nat,
         NEW n \in Nat, n <= Cardinality(D)
  PROVE  \E T \in SUBSET D : Cardinality(T) = n /\ \A x \in T, y \in D \ T : w[x] >= w[y]
<1> DEFINE Cuts(k) == {T \in SUBSET D : Cardinality(T) = k /\ \A x \in T, y \in D \ T : w[x] >= w[y]}
           Odd == {k \in Nat : k <= Cardinality(D) /\ Cuts(k) = {}}
<1>1. Cardinality(D) \in Nat
  BY FS_CardinalityType
<1>2. Odd = {}
  <2> SUFFICES ASSUME Odd # {} PROVE FALSE
    OBVIOUS
  <2>1. PICK k \in Odd : \A m \in Odd : k <= m
    <3>1. Odd \in SUBSET Nat
      OBVIOUS
    <3> HIDE DEF Odd
    <3> QED BY <3>1, CP!MinOf
  <2>2. k \in Nat /\ k <= Cardinality(D) /\ Cuts(k) = {}
    OBVIOUS
  <2>3. k # 0
    <3>1. {} \in Cuts(0)
      BY FS_EmptySet
    <3> HIDE DEF Cuts
    <3> QED BY <2>2, <3>1
  <2>4. k - 1 \in Nat /\ k - 1 < k /\ k - 1 < Cardinality(D) /\ k - 1 <= Cardinality(D)
    BY <1>1, <2>2, <2>3
  <2>5. Cuts(k - 1) # {}
    <3> HIDE DEF Cuts
    <3>1. k - 1 \in Odd => k <= k - 1
      BY <2>1
    <3>2. k - 1 \notin Odd
      <4> HIDE DEF Odd
      <4> QED BY <2>2, <3>1
    <3> QED BY <2>4, <3>2
  <2>6. PICK T \in Cuts(k - 1) : TRUE
    BY <2>5
  <2>7. T \in SUBSET D /\ Cardinality(T) = k - 1 /\ (\A x \in T, y \in D \ T : w[x] >= w[y]) /\ IsFiniteSet(T)
    <3>1. T \in SUBSET D
      OBVIOUS
    <3> QED BY <3>1, FS_Subset
  <2>8. IsFiniteSet(D \ T) /\ D \ T # {}
    <3>1. IsFiniteSet(D \ T)
      BY FS_Difference
    <3>2. T # D
      BY <1>1, <2>4, <2>7
    <3> QED BY <2>7, <3>1, <3>2
  <2>9. PICK x \in D \ T : \A y \in D \ T : w[x] >= w[y]
    <3> DEFINE E == D \ T
    <3>1. \A y \in E : w[y] \in Int
      OBVIOUS
    <3> HIDE DEF E
    <3>2. \E x \in E : \A y \in E : w[x] >= w[y]
      BY <2>8, <3>1, OneLargest DEF E
    <3> QED BY <3>2 DEF E
  <2> DEFINE U == T \cup {x}
  <2>10. Cardinality(U) = k
    <3>1. Cardinality(U) = Cardinality(T) + 1
      BY <2>7, <2>9, FS_AddElement
    <3> HIDE DEF U
    <3> QED BY <2>2, <2>7, <3>1
  <2>11. \A y \in U, z \in D \ U : w[y] >= w[z]
    BY <2>7, <2>9
  <2>12. U \in Cuts(k)
    BY <2>7, <2>9, <2>10, <2>11
  <2> HIDE DEF Cuts, U
  <2> QED BY <2>2, <2>12
<1>3. Cuts(n) # {}
  <2>1. n \notin Odd
    BY <1>2
  <2> HIDE DEF Cuts
  <2> QED BY <2>1
<1> QED BY <1>3

Roles == {"maintainer", "officer", "founder"} \cup {f[4] : f \in Seen \cup ToBeSeen}
SeedRows == [weight : Nat, role : Roles, founder : BOOLEAN]
Seeds(m) == IsFiniteSet(DOMAIN m) /\ m = [x \in DOMAIN m |-> m[x]] /\ \A x \in DOMAIN m : m[x] \in SeedRows
Capped(m) == \A x \in DOMAIN m : m[x].weight <= 100

LEMMA VentureNumbers ==
  /\ MaxMembers \in Nat /\ MaxMembers > 0 /\ MaxBuilds \in Nat /\ IsFiniteSet(Seen \cup ToBeSeen)
  /\ \A S : Venture!Cardinality(S) = Cardinality(S)
<1>1. MaxMembers \in Nat /\ MaxMembers > 0 /\ MaxBuilds \in Nat /\ IsFiniteSet(Seen \cup ToBeSeen)
  <2>1. MaxMembers \in Nat \ {0}
    BY VentureAssumption
  <2>2. IsFiniteSet(Seen \cup ToBeSeen)
    BY VentureAssumption
  <2>3. MaxBuilds \in Nat
    BY VentureAssumption
  <2> QED BY <2>1, <2>2, <2>3
<1>2. \A S : Venture!Cardinality(S) = Cardinality(S)
  BY DEF Venture!Cardinality, Cardinality
<1> QED BY <1>1, <1>2

LEMMA VentureMin ==
  ASSUME NEW a \in Nat, NEW b \in Nat
  PROVE  Venture!Min({a, b}) = IF a <= b THEN a ELSE b
<1> DEFINE m == IF a <= b THEN a ELSE b
<1>1. m \in {a, b} /\ \A y \in {a, b} : m <= y
  OBVIOUS
<1>2. \A x \in {a, b} : (\A y \in {a, b} : x <= y) => x = m
  OBVIOUS
<1>3. Venture!Min({a, b}) = CHOOSE x \in {a, b} : \A y \in {a, b} : x <= y
  BY DEF Venture!Min
<1> HIDE DEF m
<1>4. Venture!Min({a, b}) = m
  BY <1>1, <1>2, <1>3
<1> QED BY <1>4 DEF m

LEMMA CutIs ==
  ASSUME NEW m, Seeds(m)
  PROVE  /\ Seeds(Venture!Cut(m)) /\ DOMAIN Venture!Cut(m) \in SUBSET DOMAIN m
         /\ Cardinality(DOMAIN m) \in Nat
         /\ Cardinality(DOMAIN Venture!Cut(m)) =
              IF MaxMembers <= Cardinality(DOMAIN m) THEN MaxMembers ELSE Cardinality(DOMAIN m)
         /\ \A x \in DOMAIN Venture!Cut(m) : Venture!Cut(m)[x] = m[x]
<1> DEFINE D == DOMAIN m
           n == IF MaxMembers <= Cardinality(D) THEN MaxMembers ELSE Cardinality(D)
           Fits(T) == /\ Cardinality(T) = n
                      /\ \A x \in T, y \in D \ T : m[x].weight >= m[y].weight
           top == CHOOSE T \in SUBSET D : Fits(T)
           w == [x \in D |-> m[x].weight]
<1>1. IsFiniteSet(D) /\ Cardinality(D) \in Nat
  BY FS_CardinalityType DEF Seeds
<1>2. n \in Nat /\ n <= Cardinality(D)
  <2> HIDE DEF D
  <2> QED BY <1>1, VentureNumbers
<1>3. \A x \in D : w[x] \in Nat /\ w[x] = m[x].weight
  BY DEF Seeds, SeedRows
<1>4. \E T \in SUBSET D : Fits(T)
  <2> HIDE DEF D, n, w
  <2>1. PICK T \in SUBSET D : Cardinality(T) = n /\ \A x \in T, y \in D \ T : w[x] >= w[y]
    BY <1>1, <1>2, <1>3, SomeLargest
  <2>2. \A x \in T, y \in D \ T : m[x].weight >= m[y].weight
    BY <1>3, <2>1
  <2> QED BY <2>1, <2>2
<1>5. Venture!Min({MaxMembers, Venture!Cardinality(D)}) = n
  BY <1>1, VentureNumbers, VentureMin
<1>6. Venture!Cut(m) = [x \in top |-> m[x]]
  BY <1>5, VentureNumbers DEF Venture!Cut
<1>7. top \in SUBSET D /\ Cardinality(top) = n
  <2> HIDE DEF D, n
  <2> QED BY <1>4
<1>8. IsFiniteSet(top)
  BY <1>1, <1>7, FS_Subset
<1> HIDE DEF top
<1> QED BY <1>1, <1>6, <1>7, <1>8 DEF Seeds

LEMMA Shares ==
  ASSUME NEW p \in Nat, NEW total \in Nat, p <= total, total > 0
  PROVE  Venture!PerCent(p, total) \in Nat /\ Venture!PerCent(p, total) <= 100
<1> DEFINE q == (200 * p + total) \div (2 * total)
<1>1. q \in Int /\ 2 * total * q <= 200 * p + total /\ 200 * p + total < 2 * total * (q + 1)
  OBVIOUS
<1> HIDE DEF q
<1>2. q >= 0
  <2>1. SUFFICES ASSUME q + 1 <= 0 PROVE FALSE
    BY <1>1
  <2>2. 2 * total * (q + 1) <= 0
    BY <1>1, <2>1
  <2> QED BY <1>1, <2>2
<1>3. q <= 100
  <2>1. SUFFICES ASSUME q >= 101 PROVE FALSE
    BY <1>1
  <2>2. 2 * total * q >= 2 * total * 101
    BY <1>1, <2>1
  <2> QED BY <1>1, <2>2
<1> QED BY <1>1, <1>2, <1>3 DEF Venture!PerCent, q

\* Brought to one scale; an empty set of members stays empty.
LEMMA NormalisedIs ==
  ASSUME NEW m, Seeds(m), DOMAIN m = {} \/ \E x \in DOMAIN m : m[x].weight > 0
  PROVE  /\ Seeds(Venture!Normalised(m)) /\ Capped(Venture!Normalised(m))
         /\ DOMAIN Venture!Normalised(m) = DOMAIN m
<1> DEFINE D == DOMAIN m
           w == [x \in D |-> m[x].weight]
           P(F) == F = [s \in SUBSET D |-> IF s = {} THEN 0
                          ELSE LET x == CHOOSE y \in s : TRUE IN m[x].weight + F[s \ {x}]]
           total == (CHOOSE F : P(F))[D]
           brought(x) == [m[x] EXCEPT !.weight = Venture!PerCent(m[x].weight, total)]
<1>1. Venture!Normalised(m) = [x \in D |-> brought(x)]
  BY DEF Venture!Normalised, Venture!MapThenSumSet, Venture!MapThenFoldSet
<1>2. \A F : P(F) <=> Adds(F, w, SUBSET D)
  <2>1. ASSUME NEW s \in SUBSET D, s # {} PROVE w[One(s)] = m[One(s)].weight
    BY <2>1 DEF One
  <2> QED BY <2>1 DEF Adds, One
<1>3. total = Sum(w, D)
  <2>1. (CHOOSE F : P(F)) = (CHOOSE F : Adds(F, w, SUBSET D))
    BY <1>2
  <2> QED BY <2>1 DEF Sum
<1>4. IsFiniteSet(D) /\ \A x \in D : w[x] \in Nat /\ w[x] = m[x].weight /\ m[x] \in SeedRows
  BY DEF Seeds, SeedRows
<1> HIDE DEF total, w
<1>5. total \in Nat /\ \A x \in D : w[x] <= total
  <2>1. D \in SUBSET D
    OBVIOUS
  <2> HIDE DEF D
  <2> QED BY <1>3, <1>4, <2>1, SumGrows, SumHas
<1>6. D # {} => total > 0
  <2>1. ASSUME NEW x \in D, m[x].weight > 0 PROVE total > 0
    BY <1>4, <1>5, <2>1
  <2> QED BY <2>1
<1>7. ASSUME NEW x \in D PROVE brought(x) \in SeedRows /\ brought(x).weight <= 100
  <2>1. Venture!PerCent(m[x].weight, total) \in Nat /\ Venture!PerCent(m[x].weight, total) <= 100
    BY <1>4, <1>5, <1>6, Shares
  <2>2. m[x] \in SeedRows
    BY <1>4
  <2> QED BY <2>1, <2>2 DEF SeedRows
<1> HIDE DEF brought
<1> QED BY <1>1, <1>4, <1>7 DEF Seeds, Capped

AllFacts == Seen \cup ToBeSeen

LEMMA OfIs ==
  ASSUME known \subseteq AllFacts, NEW kind, NEW core \in SUBSET Venture!Of(kind)
  PROVE  /\ core \in SUBSET AllFacts /\ IsFiniteSet(core) /\ IsFiniteSet({f[2] : f \in core})
         /\ \A f \in core : f \in known /\ f[1] = kind /\ f[4] \in Roles
         /\ \A x \in {f[2] : f \in core} :
              (CHOOSE f \in core : f[2] = x) \in core /\ (CHOOSE f \in core : f[2] = x)[2] = x
<1>1. core \in SUBSET AllFacts /\ \A f \in core : f \in known /\ f[1] = kind
  BY DEF Venture!Of
<1>2. IsFiniteSet(core)
  BY <1>1, VentureNumbers, FS_Subset DEF AllFacts
<1>3. IsFiniteSet({f[2] : f \in core})
  <2> DEFINE second == [f \in core |-> f[2]]
  <2>1. second \in Surjection(core, {f[2] : f \in core})
    BY DEF Surjection
  <2> QED BY <1>2, <2>1, FS_Surjection
<1>4. \A f \in core : f[4] \in Roles
  BY <1>1 DEF Roles, AllFacts
<1>5. ASSUME NEW x \in {f[2] : f \in core}
      PROVE  (CHOOSE f \in core : f[2] = x) \in core /\ (CHOOSE f \in core : f[2] = x)[2] = x
  <2>1. \E f \in core : f[2] = x
    OBVIOUS
  <2> QED BY <2>1
<1> QED BY <1>1, <1>2, <1>3, <1>4, <1>5

LEMMA RepoIs ==
  ASSUME known \subseteq AllFacts, NEW v
  PROVE  /\ Seeds(Venture!RepoMembers(v)) /\ Capped(Venture!RepoMembers(v))
         /\ Cardinality(DOMAIN Venture!RepoMembers(v)) <= MaxMembers
<1> DEFINE core == {f \in Venture!Of("contribution") :
                      f[3] = v /\ (f[4] >= 10 \/ (f[4] >= 5 /\ f[5] >= 10))}
           D == {f[2] : f \in core}
           of(x) == CHOOSE f \in core : f[2] = x
           m == [x \in D |-> [weight |-> of(x)[4], role |-> "maintainer", founder |-> FALSE]]
<1>1. Venture!RepoMembers(v) = Venture!Normalised(Venture!Cut(m))
  BY DEF Venture!RepoMembers
<1>2. core \in SUBSET Venture!Of("contribution")
  OBVIOUS
<1>3. IsFiniteSet(D) /\ \A x \in D : of(x) \in core
  BY <1>2, OfIs
<1>4. ASSUME NEW x \in D PROVE m[x] \in SeedRows /\ m[x].weight > 0
  <2>1. of(x) \in core /\ of(x)[4] \in Nat
    <3>1. \A f \in core : f[4] \in Nat
      <4>1. ASSUME NEW f \in core PROVE f[4] \in Nat
        <5>1. f \in Seen \cup ToBeSeen /\ f[1] = "contribution"
          BY DEF Venture!Of, AllFacts
        <5>2. {f[4], f[5]} \subseteq Nat
          BY <5>1, VentureAssumption
        <5> QED BY <5>2
      <4> QED BY <4>1
    <3> QED BY <1>3, <3>1
  <2>2. of(x)[4] >= 10 \/ of(x)[4] >= 5
    BY <2>1
  <2> HIDE DEF of, core
  <2>3. m[x] = [weight |-> of(x)[4], role |-> "maintainer", founder |-> FALSE]
    OBVIOUS
  <2>4. of(x)[4] > 0
    BY <2>1, <2>2
  <2> HIDE DEF m
  <2> QED BY <2>1, <2>3, <2>4 DEF SeedRows, Roles
<1>5. Seeds(m)
  BY <1>3, <1>4 DEF Seeds
<1>6. DOMAIN m = D
  OBVIOUS
<1> HIDE DEF m, D
<1> DEFINE c == Venture!Cut(m)
<1>7. /\ Seeds(c) /\ DOMAIN c \in SUBSET D /\ Cardinality(DOMAIN m) \in Nat
      /\ Cardinality(DOMAIN c) = IF MaxMembers <= Cardinality(DOMAIN m) THEN MaxMembers ELSE Cardinality(DOMAIN m)
      /\ \A x \in DOMAIN c : c[x] = m[x]
  BY <1>5, <1>6, CutIs
<1> HIDE DEF c
<1>8. Cardinality(DOMAIN c) <= MaxMembers
  BY <1>7, VentureNumbers
<1>9. DOMAIN c = {} \/ \E x \in DOMAIN c : c[x].weight > 0
  BY <1>4, <1>7
<1> QED BY <1>1, <1>7, <1>8, <1>9, NormalisedIs DEF c

LEMMA OfficersAre ==
  ASSUME known \subseteq AllFacts, NEW v
  PROVE  /\ Seeds(Venture!OfficerMembers(v)) /\ Capped(Venture!OfficerMembers(v))
         /\ \A x \in DOMAIN Venture!OfficerMembers(v) : Venture!OfficerMembers(v)[x].weight > 0
         /\ DOMAIN Venture!OfficerMembers(v) = {f[2] : f \in {g \in known : g[1] = "officer" /\ g[3] = v}}
<1> DEFINE core == {f \in Venture!Of("officer") : f[3] = v}
           D == {f[2] : f \in core}
           roleOf(x) == (CHOOSE f \in core : f[2] = x)[4]
           m == Venture!OfficerMembers(v)
<1>1. m = [x \in D |-> [weight |-> IF roleOf(x) = "board" THEN 50 ELSE 100,
                        role |-> IF roleOf(x) = "founder" THEN "founder" ELSE "officer",
                        founder |-> roleOf(x) = "founder"]]
  BY DEF Venture!OfficerMembers
<1>2. IsFiniteSet(D)
  BY OfIs
<1>3. core = {g \in known : g[1] = "officer" /\ g[3] = v}
  BY DEF Venture!Of
<1> HIDE DEF roleOf, D, m
<1>4. ASSUME NEW x \in D PROVE m[x] \in SeedRows /\ m[x].weight > 0 /\ m[x].weight <= 100
  <2>1. m[x].weight \in {50, 100} /\ m[x].role \in {"founder", "officer"} /\ m[x].founder \in BOOLEAN
    BY <1>1
  <2>2. m[x] = [weight |-> m[x].weight, role |-> m[x].role, founder |-> m[x].founder]
    BY <1>1
  <2> QED BY <2>1, <2>2 DEF SeedRows, Roles
<1>5. m = [x \in D |-> m[x]] /\ DOMAIN m = D
  BY <1>1
<1>6. D = {f[2] : f \in {g \in known : g[1] = "officer" /\ g[3] = v}}
  BY <1>3 DEF D
<1>7. Seeds(m) /\ Capped(m)
  BY <1>2, <1>4, <1>5 DEF Seeds, Capped
<1> QED BY <1>4, <1>5, <1>6, <1>7 DEF m

LEMMA PitchersAre ==
  ASSUME known \subseteq AllFacts, NEW v
  PROVE  Seeds(Venture!PitchMembers(v)) /\ Capped(Venture!PitchMembers(v))
<1> DEFINE core == {f \in Venture!Of("pitcher") : f[3] = v}
           D == {f[2] : f \in core}
           roleOf(x) == (CHOOSE f \in core : f[2] = x)[4]
           m == Venture!PitchMembers(v)
           share == Venture!PerCent(1, Cardinality(core))
<1>1. m = [x \in D |-> [weight |-> share, role |-> IF roleOf(x) = "author" THEN "founder" ELSE roleOf(x),
                        founder |-> roleOf(x) = "author"]]
  BY VentureNumbers DEF Venture!PitchMembers
<1>2. IsFiniteSet(D) /\ IsFiniteSet(core) /\ \A x \in D : roleOf(x) \in Roles
  <2>1. core \in SUBSET Venture!Of("pitcher")
    OBVIOUS
  <2> HIDE DEF core
  <2> QED BY <2>1, OfIs
<1>3. D # {} => share \in Nat /\ share <= 100
  <2>1. SUFFICES ASSUME D # {} PROVE share \in Nat /\ share <= 100
    OBVIOUS
  <2>2. core # {}
    BY <2>1
  <2> DEFINE n == Cardinality(core)
  <2>3. n \in Nat /\ n # 0
    BY <1>2, <2>2, FS_CardinalityType, FS_EmptySet
  <2> HIDE DEF n
  <2>4. Venture!PerCent(1, n) \in Nat /\ Venture!PerCent(1, n) <= 100
    <3>1. 1 \in Nat /\ n > 0 /\ 1 <= n
      BY <2>3
    <3> QED BY <2>3, <3>1, Shares
  <2> QED BY <2>4 DEF n
<1> HIDE DEF roleOf, D, m, share, core
<1>4. ASSUME NEW x \in D PROVE m[x] \in SeedRows /\ m[x].weight <= 100
  <2>1. m[x].weight = share /\ m[x].role \in Roles /\ m[x].founder \in BOOLEAN
    <3>1. "founder" \in Roles
      BY DEF Roles
    <3> QED BY <1>1, <1>2, <3>1
  <2>2. m[x] = [weight |-> m[x].weight, role |-> m[x].role, founder |-> m[x].founder]
    BY <1>1
  <2> QED BY <1>3, <2>1, <2>2 DEF SeedRows
<1>5. m = [x \in D |-> m[x]] /\ DOMAIN m = D
  BY <1>1
<1> QED BY <1>2, <1>4, <1>5 DEF Seeds, Capped, m

\* Where the members of a repository and of a company are brought together, the
\* cut to the largest cannot leave out all officers: there is one among the
\* repository's own, and the others of these are too few to fill the places.
LEMMA MergedAre ==
  ASSUME NEW repo, Seeds(repo), Capped(repo), Cardinality(DOMAIN repo) <= MaxMembers,
         NEW off, Seeds(off), Capped(off), \A x \in DOMAIN off : off[x].weight > 0,
         NEW z \in DOMAIN repo, z \in DOMAIN off
  PROVE  /\ Seeds(Venture!MergeMembers(repo, off)) /\ Capped(Venture!MergeMembers(repo, off))
         /\ DOMAIN Venture!MergeMembers(repo, off) \cap DOMAIN off # {}
<1> DEFINE both == [x \in DOMAIN repo |->
                      IF x \notin DOMAIN off THEN repo[x]
                      ELSE [repo[x] EXCEPT !.role = IF off[x].founder THEN "founder" ELSE @,
                                           !.founder = off[x].founder]]
           added == DOMAIN off \ DOMAIN repo
           A == DOMAIN repo \cup added
           all == [x \in A |-> IF x \in added THEN off[x] ELSE both[x]]
           m == IF added = {} THEN all ELSE Venture!Normalised(all)
<1>1. Venture!MergeMembers(repo, off) = Venture!Cut(m)
  BY DEF Venture!MergeMembers
<1>2. IsFiniteSet(DOMAIN repo) /\ IsFiniteSet(DOMAIN off) /\ IsFiniteSet(A)
  <2>1. IsFiniteSet(DOMAIN repo) /\ IsFiniteSet(DOMAIN off)
    BY DEF Seeds
  <2>2. IsFiniteSet(added)
    BY <2>1, FS_Difference
  <2> QED BY <2>1, <2>2, FS_Union
<1>3. ASSUME NEW x \in A
      PROVE  all[x] \in SeedRows /\ all[x].weight <= 100 /\ (x \in added => all[x].weight > 0)
  <2>1. CASE x \in added
    BY <2>1 DEF Seeds, Capped
  <2>2. CASE x \notin added
    <3>1. x \in DOMAIN repo /\ repo[x] \in SeedRows /\ repo[x].weight <= 100
      BY <2>2 DEF Seeds, Capped
    <3>2. CASE x \notin DOMAIN off
      BY <2>2, <3>1, <3>2
    <3>3. CASE x \in DOMAIN off
      <4>1. off[x].founder \in BOOLEAN
        BY <3>3 DEF Seeds, SeedRows
      <4> DEFINE r == [repo[x] EXCEPT !.role = IF off[x].founder THEN "founder" ELSE @,
                                      !.founder = off[x].founder]
      <4>2. r \in SeedRows /\ r.weight <= 100
        BY <3>1, <4>1 DEF SeedRows, Roles
      <4>3. all[x] = r
        BY <2>2, <3>1, <3>3
      <4> HIDE DEF r, all
      <4> QED BY <2>2, <4>2, <4>3
    <3> QED BY <3>2, <3>3
  <2> QED BY <2>1, <2>2
<1>4. DOMAIN all = A /\ Seeds(all) /\ Capped(all)
  <2>1. DOMAIN all = A /\ all = [x \in A |-> all[x]]
    OBVIOUS
  <2> HIDE DEF all, A
  <2> QED BY <1>2, <1>3, <2>1 DEF Seeds, Capped
<1>5. Seeds(m) /\ Capped(m) /\ DOMAIN m = A
  <2>1. CASE added = {}
    BY <1>4, <2>1
  <2>2. CASE added # {}
    <3>1. \E x \in DOMAIN all : all[x].weight > 0
      BY <1>3, <1>4, <2>2
    <3>2. m = Venture!Normalised(all)
      BY <2>2
    <3> HIDE DEF all, A, m
    <3> QED BY <1>4, <3>1, <3>2, NormalisedIs
  <2> QED BY <2>1, <2>2
<1> HIDE DEF m, all, both
<1> DEFINE c == Venture!Cut(m)
           T == DOMAIN c
<1>6. /\ Seeds(c) /\ T \in SUBSET A /\ Cardinality(A) \in Nat
      /\ Cardinality(T) = IF MaxMembers <= Cardinality(A) THEN MaxMembers ELSE Cardinality(A)
      /\ \A x \in T : c[x] = m[x]
  BY <1>5, CutIs
<1>7. Capped(c)
  BY <1>5, <1>6 DEF Capped
<1>8. T \cap DOMAIN off # {}
  <2> SUFFICES ASSUME T \cap DOMAIN off = {} PROVE FALSE
    OBVIOUS
  <2> HIDE DEF c
  <2>1. T \in SUBSET (DOMAIN repo \ {z})
    BY <1>6
  <2> HIDE DEF T
  <2>2. /\ IsFiniteSet(DOMAIN repo \ {z}) /\ Cardinality(DOMAIN repo) \in Nat
        /\ Cardinality(DOMAIN repo \ {z}) = Cardinality(DOMAIN repo) - 1
    BY <1>2, FS_RemoveElement, FS_CardinalityType
  <2>3. Cardinality(T) <= Cardinality(DOMAIN repo \ {z})
    BY <2>1, <2>2, FS_Subset
  <2>4. Cardinality(DOMAIN repo) <= Cardinality(A)
    <3>1. DOMAIN repo \in SUBSET A
      OBVIOUS
    <3> HIDE DEF A
    <3> QED BY <1>2, <3>1, FS_Subset
  <2> DEFINE n == Cardinality(DOMAIN repo)
             a == Cardinality(A)
             t == Cardinality(T)
  <2>5. /\ n \in Nat /\ a \in Nat /\ t = IF MaxMembers <= a THEN MaxMembers ELSE a
        /\ t <= n - 1 /\ n <= a /\ n <= MaxMembers
    BY <1>6, <2>2, <2>3, <2>4
  <2> HIDE DEF n, a, t
  <2> QED BY <2>5, VentureNumbers
<1> QED BY <1>1, <1>6, <1>7, <1>8

LEMMA MatchIs ==
  ASSUME known \subseteq AllFacts, NEW v, Venture!MatchingCompany(v) # {}
  PROVE  \E c : /\ Venture!MatchingCompany(v) = {c}
                /\ DOMAIN Venture!RepoMembers(v) \cap DOMAIN Venture!OfficerMembers(c) # {}
<1> DEFINE fits == {i \in DOMAIN Companies : Venture!Merges(v, Companies[i])}
<1>1. fits # {} /\ Venture!MatchingCompany(v) = {Companies[Venture!Min(fits)]}
  BY DEF Venture!MatchingCompany
<1>2. fits \in SUBSET Nat
  <2>1. DOMAIN Companies \in SUBSET Nat
    <3>1. \A i \in DOMAIN Companies : i \in Nat
      BY VentureAssumption, PlacesOf
    <3> QED BY <3>1
  <2> QED BY <2>1
<1>3. Venture!Min(fits) \in fits
  <2> HIDE DEF fits
  <2>1. \E x \in fits : \A y \in fits : x <= y
    BY <1>1, <1>2, CP!MinOf
  <2> QED BY <2>1 DEF Venture!Min
<1> DEFINE c == Companies[Venture!Min(fits)]
           shared == DOMAIN Venture!RepoMembers(v) \cap DOMAIN Venture!OfficerMembers(c)
<1>4. Venture!Merges(v, c)
  BY <1>3
<1>5. shared # {}
  <2> HIDE DEF c
  <2>1. Cardinality(shared) >= 2 \/ shared # {}
    BY <1>4, VentureNumbers DEF Venture!Merges
  <2>2. Cardinality({}) = 0
    BY FS_EmptySet
  <2> HIDE DEF shared
  <2> QED BY <2>1, <2>2
<1> QED BY <1>1, <1>5

LEMMA RepoSeedsAre ==
  ASSUME known \subseteq AllFacts, NEW v
  PROVE  /\ Seeds(Venture!RepoSeeds(v)) /\ Capped(Venture!RepoSeeds(v))
         /\ \A c \in Venture!MatchingCompany(v) :
              DOMAIN Venture!RepoSeeds(v) \cap DOMAIN Venture!OfficerMembers(c) # {}
<1>1. CASE Venture!MatchingCompany(v) = {}
  BY <1>1, RepoIs DEF Venture!RepoSeeds
<1>2. CASE Venture!MatchingCompany(v) # {}
  <2>1. PICK c : /\ Venture!MatchingCompany(v) = {c}
                 /\ DOMAIN Venture!RepoMembers(v) \cap DOMAIN Venture!OfficerMembers(c) # {}
    BY <1>2, MatchIs
  <2>2. Venture!RepoSeeds(v) = Venture!MergeMembers(Venture!RepoMembers(v), Venture!OfficerMembers(c))
    <3>1. (CHOOSE x \in Venture!MatchingCompany(v) : TRUE) = c
      BY <2>1
    <3> QED BY <1>2, <3>1 DEF Venture!RepoSeeds
  <2> DEFINE repo == Venture!RepoMembers(v)
             off == Venture!OfficerMembers(c)
  <2>3. Seeds(repo) /\ Capped(repo) /\ Cardinality(DOMAIN repo) <= MaxMembers
    BY RepoIs
  <2>4. Seeds(off) /\ Capped(off) /\ \A x \in DOMAIN off : off[x].weight > 0
    BY OfficersAre
  <2>5. PICK z \in DOMAIN repo : z \in DOMAIN off
    BY <2>1
  <2>6. Venture!RepoSeeds(v) = Venture!MergeMembers(repo, off)
    BY <2>2
  <2> HIDE DEF repo, off
  <2>7. /\ Seeds(Venture!MergeMembers(repo, off)) /\ Capped(Venture!MergeMembers(repo, off))
        /\ DOMAIN Venture!MergeMembers(repo, off) \cap DOMAIN off # {}
    BY <2>3, <2>4, <2>5, MergedAre
  <2> QED BY <2>1, <2>6, <2>7 DEF off
<1> QED BY <1>1, <1>2

LEMMA AbsorbedAre ==
  ASSUME known \subseteq AllFacts, NEW v
  PROVE  /\ Capped(Venture!Absorbed(v)) /\ \A x \in DOMAIN Venture!Absorbed(v) : Venture!Absorbed(v)[x] \in SeedRows
         /\ DOMAIN Venture!RepoSeeds(v) \subseteq DOMAIN Venture!Absorbed(v)
<1> DEFINE repo == Venture!RepoSeeds(v)
           team == Venture!Pitchers(v)
<1>1. /\ DOMAIN Venture!Absorbed(v) = DOMAIN repo \cup DOMAIN team
      /\ \A x \in DOMAIN repo \cup DOMAIN team :
           Venture!Absorbed(v)[x] = IF x \in DOMAIN repo THEN repo[x] ELSE team[x]
  BY DEF Venture!Absorbed
<1>2. \A x \in DOMAIN repo : repo[x] \in SeedRows /\ repo[x].weight <= 100
  BY RepoSeedsAre DEF Seeds, Capped
<1>3. ASSUME NEW x \in DOMAIN team PROVE team[x] \in SeedRows /\ team[x].weight <= 100
  <2> DEFINE has == {i \in Venture!PitchesOf(v) : x \in DOMAIN Venture!PitchMembers(Pitches[i])}
  <2>1. has # {} /\ team[x] = Venture!PitchMembers(Pitches[Venture!Min(has)])[x]
    BY DEF Venture!Pitchers
  <2>2. has \in SUBSET Nat
    <3>1. \A i \in DOMAIN Pitches : i \in Nat
      BY VentureAssumption, PlacesOf
    <3> QED BY <3>1 DEF Venture!PitchesOf
  <2>3. Venture!Min(has) \in has
    <3> HIDE DEF has
    <3>1. \E i \in has : \A j \in has : i <= j
      BY <2>1, <2>2, CP!MinOf
    <3> QED BY <3>1 DEF Venture!Min
  <2> DEFINE p == Pitches[Venture!Min(has)]
  <2>4. x \in DOMAIN Venture!PitchMembers(p)
    BY <2>3
  <2>5. team[x] = Venture!PitchMembers(p)[x]
    BY <2>1
  <2> HIDE DEF p, team
  <2> QED BY <2>4, <2>5, PitchersAre DEF Seeds, Capped
<1> HIDE DEF repo, team
<1>4. Capped(Venture!Absorbed(v))
  BY <1>1, <1>2, <1>3 DEF Capped
<1> QED BY <1>1, <1>2, <1>3, <1>4 DEF repo

VentureInv ==
  /\ known \subseteq AllFacts /\ built \subseteq known /\ builds \in 0..MaxBuilds
  /\ \A v \in DOMAIN rows : \A x \in DOMAIN rows[v] : rows[v][x] \in SeedRows /\ rows[v][x].weight <= 100
  /\ \A k \in DOMAIN gold : gold[k] \in SeedRows /\ gold[k].weight <= 100
  /\ Venture!NoStartupIsLost

\* Of every startup with officers one of them is in what a build makes.
LEMMA BuildHasStartups ==
  ASSUME known \subseteq AllFacts, NEW s \in known, s[1] = "startup",
         DOMAIN Venture!OfficerMembers(s[2]) # {}
  PROVE  \E v \in DOMAIN Venture!Ventures :
           DOMAIN Venture!OfficerMembers(s[2]) \cap DOMAIN Venture!Ventures[v] # {}
<1>1. /\ DOMAIN Venture!Ventures = Venture!Gated \cup Venture!CompaniesAlone \cup Venture!PitchesAlone
      /\ \A v \in Venture!Gated : Venture!Ventures[v] = Venture!Absorbed(v)
      /\ \A v \in Venture!CompaniesAlone \ Venture!Gated : Venture!Ventures[v] = Venture!OfficerMembers(v)
  BY DEF Venture!Ventures
<1>2. CASE s[2] \in Venture!Consumed
  <2>1. PICK r \in Venture!Gated : s[2] \in Venture!MatchingCompany(r)
    BY <1>2 DEF Venture!Consumed
  <2>2. DOMAIN Venture!RepoSeeds(r) \cap DOMAIN Venture!OfficerMembers(s[2]) # {}
    BY <2>1, RepoSeedsAre
  <2>3. DOMAIN Venture!RepoSeeds(r) \subseteq DOMAIN Venture!Ventures[r] /\ r \in DOMAIN Venture!Ventures
    BY <1>1, <2>1, AbsorbedAre
  <2> QED BY <2>2, <2>3
<1>3. CASE s[2] \notin Venture!Consumed
  <2>1. s[2] \in Venture!CompaniesAlone
    BY <1>3 DEF Venture!CompaniesAlone, Venture!Of
  <2>2. s[2] \notin Venture!Gated
    <3>1. SUFFICES ASSUME NEW f \in known, f[1] = "like a venture", f[2] = s[2] PROVE FALSE
      BY DEF Venture!Gated, Venture!Of
    <3>2. f \in Seen \cup ToBeSeen /\ s \in Seen \cup ToBeSeen
      BY DEF AllFacts
    <3> QED BY <3>1, <3>2, VentureAssumption
  <2> QED BY <1>1, <2>1, <2>2
<1> QED BY <1>2, <1>3

LEMMA BuildIsTyped ==
  ASSUME known \subseteq AllFacts, NEW v \in DOMAIN Venture!Ventures, NEW x \in DOMAIN Venture!Ventures[v]
  PROVE  Venture!Ventures[v][x] \in SeedRows /\ Venture!Ventures[v][x].weight <= 100
<1>1. \/ Venture!Ventures[v] = Venture!Absorbed(v)
      \/ Venture!Ventures[v] = Venture!OfficerMembers(v)
      \/ Venture!Ventures[v] = Venture!PitchMembers(v)
  BY DEF Venture!Ventures
<1>2. CASE Venture!Ventures[v] = Venture!Absorbed(v)
  BY <1>2, AbsorbedAre DEF Capped
<1>3. CASE Venture!Ventures[v] = Venture!OfficerMembers(v)
  BY <1>3, OfficersAre DEF Seeds, Capped
<1>4. CASE Venture!Ventures[v] = Venture!PitchMembers(v)
  BY <1>4, PitchersAre DEF Seeds, Capped
<1> QED BY <1>1, <1>2, <1>3, <1>4

LEMMA VentureBuilds ==
  ASSUME VentureInv, Venture!Build
  PROVE  VentureInv'
<1> DEFINE new == Venture!Rows(rows')
<1>1. /\ rows' = Venture!Ventures /\ gold' = Venture!Merged(gold, new)
      /\ built' = known /\ known' = known /\ builds' = builds + 1 /\ builds < MaxBuilds
      /\ known \subseteq AllFacts /\ builds \in 0..MaxBuilds
  BY DEF Venture!Build, VentureInv
<1>2. \A v \in DOMAIN rows' : \A x \in DOMAIN rows'[v] : rows'[v][x] \in SeedRows /\ rows'[v][x].weight <= 100
  BY <1>1, BuildIsTyped
<1>3. ASSUME NEW k \in DOMAIN gold' PROVE gold'[k] \in SeedRows /\ gold'[k].weight <= 100
  <2>1. CASE k \in DOMAIN new
    <3>1. gold'[k] = new[k]
      <4> HIDE DEF new
      <4> QED BY <1>1, <2>1, MergedHas
    <3>2. new[k] = rows'[k[1]][k[2]] /\ k[1] \in DOMAIN rows' /\ k[2] \in DOMAIN rows'[k[1]]
      <4>1. k = <<k[1], k[2]>>
        BY <2>1, RowsHave
      <4>2. k[1] \in DOMAIN rows' /\ k[2] \in DOMAIN rows'[k[1]]
        BY <2>1, <4>1, RowsHave
      <4>3. new[<<k[1], k[2]>>] = rows'[k[1]][k[2]]
        BY <4>2, RowsHave
      <4> HIDE DEF new
      <4> QED BY <4>1, <4>2, <4>3
    <3> QED BY <1>2, <3>1, <3>2
  <2>2. CASE k \notin DOMAIN new
    <3>1. k \in DOMAIN gold /\ gold'[k] = gold[k]
      <4> HIDE DEF new
      <4> QED BY <1>1, <1>3, <2>2, MergedHas
    <3> QED BY <3>1 DEF VentureInv
  <2> QED BY <2>1, <2>2
<1>4. ASSUME NEW s \in known, s[1] = "startup",
             {f[2] : f \in {g \in known : g[1] = "officer" /\ g[3] = s[2]}} # {}
      PROVE  \E v \in DOMAIN rows' :
               {f[2] : f \in {g \in known : g[1] = "officer" /\ g[3] = s[2]}} \cap DOMAIN rows'[v] # {}
  <2>1. DOMAIN Venture!OfficerMembers(s[2]) = {f[2] : f \in {g \in known : g[1] = "officer" /\ g[3] = s[2]}}
    BY <1>1, OfficersAre
  <2> QED BY <1>1, <1>4, <2>1, BuildHasStartups
<1>5. Venture!NoStartupIsLost'
  BY <1>1, <1>4 DEF Venture!NoStartupIsLost
<1>6. builds' \in 0..MaxBuilds
  BY <1>1, VentureNumbers
<1> QED BY <1>1, <1>2, <1>3, <1>5, <1>6 DEF VentureInv

LEMMA VentureInvariance == PartsSpec => []VentureInv
<1>1. Venture!Init => VentureInv
  <2> SUFFICES ASSUME Venture!Init PROVE VentureInv
    OBVIOUS
  <2>1. known \subseteq AllFacts /\ built = {} /\ builds = 0 /\ rows = <<>> /\ gold = <<>>
    BY DEF Venture!Init, AllFacts
  <2>2. 0 \in 0..MaxBuilds
    BY VentureNumbers
  <2> QED BY <2>1, <2>2 DEF VentureInv, Venture!NoStartupIsLost
<1>2. VentureInv /\ [Venture!Next]_(Venture!vars) => VentureInv'
  <2> SUFFICES ASSUME VentureInv, [Venture!Next]_(Venture!vars) PROVE VentureInv'
    OBVIOUS
  <2>1. ASSUME rows' = rows, gold' = gold, built' = built, builds' = builds,
               known \subseteq known', known' \subseteq AllFacts
        PROVE  VentureInv'
    <3>1. Venture!NoStartupIsLost' <=> Venture!NoStartupIsLost
      BY <2>1 DEF Venture!NoStartupIsLost
    <3> QED BY <2>1, <3>1 DEF VentureInv
  <2>2. ASSUME NEW f \in ToBeSeen, Venture!Learn(f) PROVE VentureInv'
    BY <2>1, <2>2 DEF Venture!Learn, VentureInv, AllFacts
  <2>3. CASE UNCHANGED Venture!vars
    BY <2>1, <2>3 DEF Venture!vars, VentureInv
  <2> QED BY <2>2, <2>3, VentureBuilds DEF Venture!Next
<1> QED BY <1>1, <1>2, VentureAlone, PTL DEF Venture!Spec

\* A startup somebody signs for is in the build with one of its officers, as
\* itself or in a repository's venture, for any silver and any limit of members
\* (ventures.py, _merged_company_ids and _merge_members).
THEOREM StartupsKept == PartsSpec => []NoStartupIsLost
<1>1. VentureInv => NoStartupIsLost
  BY DEF VentureInv, NoStartupIsLost
<1> QED BY <1>1, VentureInvariance, PTL

----
(* Scoring: quotients, means and the largest of a set.                       *)

LEMMA Times ==
  ASSUME NEW b \in Nat, NEW x \in Int, NEW y \in Int, x <= y
  PROVE  b * x \in Int /\ b * y \in Int /\ b * x <= b * y
OBVIOUS

LEMMA Quotient ==
  ASSUME NEW a \in Int, NEW b \in Nat, b > 0
  PROVE  a \div b \in Int /\ b * (a \div b) \in Int /\ b * (a \div b) <= a /\ a < b * (a \div b) + b
OBVIOUS

LEMMA QuotientAtLeast ==
  ASSUME NEW a \in Int, NEW b \in Nat, b > 0, NEW m \in Int, b * m <= a
  PROVE  m <= a \div b
<1> DEFINE q == a \div b
<1>1. q \in Int /\ b * q \in Int /\ a < b * q + b
  BY Quotient
<1> HIDE DEF q
<1>2. SUFFICES ASSUME q <= m - 1 PROVE FALSE
  BY <1>1 DEF q
<1>3. b * q <= b * (m - 1)
  BY <1>1, <1>2, Times
<1>4. b * (m - 1) = b * m - b /\ b * m \in Int
  OBVIOUS
<1> DEFINE x == b * q
           y == b * m
<1>5. x <= y - b /\ y <= a /\ a < x + b /\ x \in Int /\ y \in Int
  BY <1>1, <1>3, <1>4
<1> HIDE DEF x, y
<1> QED BY <1>5

LEMMA QuotientAtMost ==
  ASSUME NEW a \in Int, NEW b \in Nat, b > 0, NEW m \in Int, a < b * m + b
  PROVE  a \div b <= m
<1> DEFINE q == a \div b
<1>1. q \in Int /\ b * q \in Int /\ b * q <= a
  BY Quotient
<1> HIDE DEF q
<1>2. SUFFICES ASSUME m + 1 <= q PROVE FALSE
  BY <1>1 DEF q
<1>3. b * (m + 1) <= b * q
  BY <1>1, <1>2, Times
<1>4. b * (m + 1) = b * m + b /\ b * m \in Int
  OBVIOUS
<1> DEFINE x == b * q
           y == b * m
<1>5. y + b <= x /\ x <= a /\ a < y + b /\ x \in Int /\ y \in Int
  BY <1>1, <1>3, <1>4
<1> HIDE DEF x, y
<1> QED BY <1>5

LEMMA QuotientGrows ==
  ASSUME NEW a \in Int, NEW c \in Int, a <= c, NEW b \in Nat, b > 0
  PROVE  a \div b <= c \div b
<1> DEFINE q == a \div b
<1>1. q \in Int /\ b * q \in Int /\ b * q <= a
  BY Quotient
<1> HIDE DEF q
<1>2. b * q <= c
  BY <1>1
<1> QED BY <1>1, <1>2, QuotientAtLeast DEF q

LEMMA RoundedBetween ==
  ASSUME NEW a \in Int, NEW b \in Nat, b > 0, NEW m \in Int, NEW n \in Int, b * m <= a, a <= b * n
  PROVE  /\ Score!Rounded(a, b) \in Int
         /\ m <= Score!Rounded(a, b) /\ Score!Rounded(a, b) <= n
<1> DEFINE x == b * m
           y == b * n
<1>1. x \in Int /\ y \in Int /\ x <= a /\ a <= y
  OBVIOUS
<1>2. (2 * b) * m = 2 * x /\ (2 * b) * n = 2 * y
  OBVIOUS
<1> HIDE DEF x, y
<1>3. 2 * a + b \in Int /\ 2 * b \in Nat /\ 2 * b > 0
  OBVIOUS
<1>4. (2 * b) * m <= 2 * a + b /\ 2 * a + b < (2 * b) * n + 2 * b
  BY <1>1, <1>2
<1>5. (2 * a + b) \div (2 * b) \in Int
  BY <1>3, Quotient
<1>6. m <= (2 * a + b) \div (2 * b)
  BY <1>3, <1>4, QuotientAtLeast
<1>7. (2 * a + b) \div (2 * b) <= n
  BY <1>3, <1>4, QuotientAtMost
<1> QED BY <1>5, <1>6, <1>7 DEF Score!Rounded

LEMMA RoundedGrows ==
  ASSUME NEW a \in Int, NEW c \in Int, a <= c, NEW b \in Nat, b > 0
  PROVE  Score!Rounded(a, b) <= Score!Rounded(c, b)
<1>1. 2 * a + b \in Int /\ 2 * c + b \in Int /\ 2 * a + b <= 2 * c + b /\ 2 * b \in Nat /\ 2 * b > 0
  OBVIOUS
<1> QED BY <1>1, QuotientGrows DEF Score!Rounded

\* The sum of a function is that of its values.
LEMMA SumFunctionIs ==
  ASSUME NEW w
  PROVE  Score!SumFunction(w) = Sum(w, DOMAIN w)
<1> DEFINE P(F) == F = [s \in SUBSET DOMAIN w |-> IF s = {} THEN 0
                          ELSE LET x == CHOOSE y \in s : TRUE IN w[x] + F[s \ {x}]]
<1>1. Score!SumFunction(w) = (CHOOSE F : P(F))[DOMAIN w]
  BY DEF Score!SumFunction, Score!SumFunctionOnSet, Score!FoldFunctionOnSet, Score!MapThenFoldSet
<1>2. \A F : P(F) <=> Adds(F, w, SUBSET DOMAIN w)
  BY DEF Adds, One
<1>3. (CHOOSE F : P(F)) = (CHOOSE F : Adds(F, w, SUBSET DOMAIN w))
  BY <1>2
<1> QED BY <1>1, <1>3 DEF Sum

LEMMA SumOfOnes ==
  ASSUME NEW S, IsFiniteSet(S)
  PROVE  Sum([x \in S |-> 1], S) = Cardinality(S) /\ Cardinality(S) \in Nat
<1> DEFINE one == [x \in S |-> 1]
           Odd == {s \in SUBSET S : Sum(one, s) # Cardinality(s)}
<1>1. Odd = {}
  <2> SUFFICES ASSUME Odd # {} PROVE FALSE
    OBVIOUS
  <2>1. PICK s \in Odd : \A x \in s : s \ {x} \notin Odd
    <3>1. Odd \in SUBSET SUBSET S
      OBVIOUS
    <3> HIDE DEF Odd
    <3> QED BY <3>1, SmallestOf
  <2>2. s \in SUBSET S /\ Sum(one, s) # Cardinality(s)
    OBVIOUS
  <2> HIDE DEF Odd, one
  <2>3. Sum(one, s) = IF s = {} THEN 0 ELSE one[One(s)] + Sum(one, s \ {One(s)})
    <3>1. IsFiniteSet(s)
      BY <2>2, FS_Subset
    <3> QED BY <3>1, SumOfOthers
  <2>4. CASE s = {}
    BY <2>2, <2>3, <2>4, FS_EmptySet
  <2>5. CASE s # {}
    <3>1. /\ One(s) \in s /\ s \ {One(s)} \in SUBSET S
          /\ Cardinality(s \ {One(s)}) \in Nat /\ Cardinality(s \ {One(s)}) + 1 = Cardinality(s)
      BY <2>2, <2>5, OneLess
    <3>2. one[One(s)] = 1
      BY <2>2, <3>1 DEF one
    <3>3. s \ {One(s)} \notin Odd
      BY <2>1, <3>1
    <3>4. Sum(one, s \ {One(s)}) = Cardinality(s \ {One(s)})
      BY <3>1, <3>3 DEF Odd
    <3> QED BY <2>2, <2>3, <2>5, <3>1, <3>2, <3>4
  <2> QED BY <2>4, <2>5
<1>2. S \in SUBSET S /\ S \notin Odd
  BY <1>1
<1> QED BY <1>2, FS_CardinalityType

\* A mean lies between bounds of the values.
LEMMA MeanBetween ==
  ASSUME NEW w, IsFiniteSet(DOMAIN w), DOMAIN w # {}, NEW m \in Int, NEW n \in Int,
         \A x \in DOMAIN w : w[x] \in Int /\ m <= w[x] /\ w[x] <= n
  PROVE  Score!Mean(w) \in Int /\ m <= Score!Mean(w) /\ Score!Mean(w) <= n
<1> DEFINE S == DOMAIN w
           one == [x \in S |-> 1]
           a == Sum(w, S)
           b == Cardinality(S)
<1>1. IsFiniteSet(S) /\ S # {} /\ Ints(w, S) /\ \A x \in S : w[x] \in Int /\ m <= w[x] /\ w[x] <= n
  BY DEF Ints
<1>2. Score!Mean(w) = a \div b
  BY SumFunctionIs DEF Score!Mean, Score!Cardinality, Cardinality
<1>3. \A x \in S : one[x] = 1
  OBVIOUS
<1> HIDE DEF S
<1>4. Sum(one, S) = b /\ b \in Nat
  BY <1>1, SumOfOnes
<1>5. b > 0
  <2>1. b # 0
    BY <1>1, FS_EmptySet
  <2> HIDE DEF b
  <2> QED BY <1>4, <2>1
<1> HIDE DEF one
<1>6. Ints(one, S)
  BY <1>3 DEF Ints
<1>7. a \in Int
  BY <1>1, SumIsInt
<1>8. m * b <= 1 * a
  <2> DEFINE i == 1
  <2>1. i \in Int /\ \A x \in S : m * one[x] <= i * w[x]
    BY <1>1, <1>3
  <2> HIDE DEF a, b, i
  <2>2. m * Sum(one, S) <= i * Sum(w, S)
    BY <1>1, <1>6, <2>1, SumsCompare
  <2> QED BY <1>4, <2>2 DEF a, i
<1>9. 1 * a <= n * b
  <2> DEFINE i == 1
  <2>1. i \in Int /\ \A x \in S : i * w[x] <= n * one[x]
    BY <1>1, <1>3
  <2> HIDE DEF a, b, i
  <2>2. i * Sum(w, S) <= n * Sum(one, S)
    BY <1>1, <1>6, <2>1, SumsCompare
  <2> QED BY <1>4, <2>2 DEF a, i
<1> HIDE DEF a, b
<1>10. b * m <= a /\ a < b * n + b
  <2>1. m * b = b * m /\ n * b = b * n /\ b * m \in Int /\ b * n \in Int
    BY <1>4
  <2> DEFINE x == b * m
             y == b * n
  <2>2. x <= a /\ a <= y /\ x \in Int /\ y \in Int
    BY <1>7, <1>8, <1>9, <2>1
  <2> HIDE DEF x, y
  <2>3. x <= a /\ a < y + b
    BY <1>4, <1>5, <1>7, <2>2
  <2> QED BY <2>3 DEF x, y
<1> QED BY <1>2, <1>4, <1>5, <1>7, <1>10, Quotient, QuotientAtLeast, QuotientAtMost

LEMMA MeanGrows ==
  ASSUME NEW v, NEW w, DOMAIN v = DOMAIN w, IsFiniteSet(DOMAIN w), DOMAIN w # {},
         \A x \in DOMAIN w : v[x] \in Int /\ w[x] \in Int /\ v[x] <= w[x]
  PROVE  Score!Mean(v) <= Score!Mean(w)
<1> DEFINE S == DOMAIN w
           b == Cardinality(S)
<1>1. IsFiniteSet(S) /\ S # {} /\ Ints(v, S) /\ Ints(w, S) /\ \A x \in S : 1 * v[x] <= 1 * w[x]
  BY DEF Ints
<1>2. Score!Mean(v) = Sum(v, S) \div b /\ Score!Mean(w) = Sum(w, S) \div b
  BY SumFunctionIs DEF Score!Mean, Score!Cardinality, Cardinality
<1> HIDE DEF S
<1>3. b \in Nat /\ b # 0
  BY <1>1, FS_EmptySet, FS_CardinalityType
<1>4. 1 * Sum(v, S) <= 1 * Sum(w, S)
  BY <1>1, SumsCompare
<1>5. Sum(v, S) \in Int /\ Sum(w, S) \in Int
  BY <1>1, SumIsInt
<1> HIDE DEF b
<1>6. b > 0 /\ Sum(v, S) <= Sum(w, S)
  BY <1>3, <1>4, <1>5
<1> QED BY <1>2, <1>3, <1>5, <1>6, QuotientGrows

LEMMA MaxOf ==
  ASSUME NEW S \in SUBSET Int, IsFiniteSet(S), S # {}
  PROVE  /\ Score!Max(S) \in S /\ Score!Max(S) \in Int
         /\ \A x \in S : x <= Score!Max(S)
<1> DEFINE w == [x \in S |-> x]
<1>1. \A x \in S : w[x] = x /\ w[x] \in Int
  OBVIOUS
<1> HIDE DEF w
<1>2. \E x \in S : \A y \in S : w[x] >= w[y]
  BY <1>1, OneLargest
<1>3. \E x \in S : \A y \in S : x >= y
  BY <1>1, <1>2
<1>4. Score!Max(S) \in S /\ \A y \in S : Score!Max(S) >= y
  BY <1>3 DEF Score!Max
<1> QED BY <1>4

----
(* Scoring: features of a person.                                            *)

Dates == {d \in SUBSET Int : IsFiniteSet(d)}

SilverOK(s) ==
  s \in [team : SUBSET Members, work : [Score!People -> SUBSET Work], dates : [Score!People -> Dates],
         stars : [Projects -> Nat], citations : [Score!People -> Nat \cup {-1}],
         founder : [Score!People -> BOOLEAN], school : [Score!People -> Tiers \cup {-1}]]

\* Nothing is dated later than now.
Dated(s, q) ==
  \A p \in Score!People : (\A c \in s.work[p] : c.at <= q) /\ (\A d \in s.dates[p] : d <= q)

Below(n) == {x \in Int : 0 <= x /\ x <= n}

LEMMA BelowIs ==
  ASSUME NEW n \in Nat
  PROVE  \A x : x \in Below(n) <=> x \in 0..n
BY DEF Below

\* A value up to n, or none.
Cell(n) == Below(n) \cup {-1}

FeatureRow == [stars_weighted : Cell(100), commits_12mo : Nat \cup {-1},
               zero_to_one_flag : {100, -1}, school_tier : Cell(100),
               recency_score : Cell(100), citations_total : Nat \cup {-1}]
FeatureNames == {"stars_weighted", "commits_12mo", "zero_to_one_flag", "school_tier",
                 "recency_score", "citations_total"}

\* Where f has a value for one of the team g has one.
Fuller(f, g, team) ==
  \A p \in team : \A k \in FeatureNames : Score!Known(f[p][k]) => Score!Known(g[p][k])

LEMMA ScoreNumbers ==
  /\ IsFiniteSet(Members) /\ IsFiniteSet(Score!People) /\ IsFiniteSet(Work) /\ Members \subseteq Score!People
  /\ \A c \in Work : c.project \in Projects /\ c.share \in Nat /\ c.commits \in Nat /\ c.at \in Int
  /\ \A t \in Tiers : t \in Below(100)
  /\ \A k \in DOMAIN Targets : /\ Targets[k] \in Nat /\ Targets[k] > 0
                               /\ k \in {"school_tier", "stars_weighted", "recency_score"}
<1>1. IsFiniteSet(Members) /\ IsFiniteSet(Score!People) /\ Members \subseteq Score!People
  BY ScoreAssumption, FS_Union DEF Score!People
<1>2. IsFiniteSet(Work)
  BY ScoreAssumption
<1>3. \A c \in Work : c.project \in Projects /\ c.share \in Nat /\ c.commits \in Nat /\ c.at \in Int
  BY ScoreAssumption
<1>4. \A t \in Tiers : t \in Below(100)
  <2>1. Tiers \subseteq 0..100
    BY ScoreAssumption
  <2> QED BY <2>1, BelowIs
<1>5. \A k \in DOMAIN Targets : /\ Targets[k] \in Nat /\ Targets[k] > 0
                               /\ k \in {"school_tier", "stars_weighted", "recency_score"}
  <2>1. DOMAIN Targets \subseteq {"school_tier", "stars_weighted", "recency_score"}
    BY ScoreAssumption
  <2>2. \A k \in DOMAIN Targets : Targets[k] \in Nat \ {0}
    BY ScoreAssumption
  <2> QED BY <2>1, <2>2
<1> QED BY <1>1, <1>2, <1>3, <1>4, <1>5

LEMMA TeamIs ==
  ASSUME NEW team \in SUBSET Members
  PROVE  IsFiniteSet(team) /\ team \subseteq Score!People /\ \A p \in team : p \in Score!People
BY ScoreNumbers, FS_Subset

Digits(n) == {k \in 0..12 : 2 ^ k <= n + 1}

LEMMA DigitsAre ==
  ASSUME NEW n \in Nat
  PROVE  /\ Digits(n) \in SUBSET Int /\ IsFiniteSet(Digits(n)) /\ 0 \in Digits(n)
         /\ \A k \in Digits(n) : 0 <= k /\ k <= 12
         /\ Score!Log1p(n) = 7 * Score!Max(Digits(n))
<1>1. Digits(n) \in SUBSET (0..12)
  BY DEF Digits
<1>2. IsFiniteSet(0..12)
  <2> DEFINE b == 12
  <2>1. b \in Int
    OBVIOUS
  <2> HIDE DEF b
  <2>2. IsFiniteSet(0..b)
    BY <2>1, FS_Interval
  <2> QED BY <2>2 DEF b
<1>3. IsFiniteSet(Digits(n))
  BY <1>1, <1>2, FS_Subset
<1>4. 0 \in Digits(n)
  <2>1. 2 ^ 0 = 1 /\ 0 \in 0..12
    BY TwoTo
  <2>2. 2 ^ 0 <= n + 1
    BY <2>1
  <2> QED BY <2>1, <2>2 DEF Digits
<1>5. Score!Log1p(n) = 7 * Score!Max(Digits(n))
  BY DEF Score!Log1p, Digits
<1> QED BY <1>1, <1>3, <1>4, <1>5

LEMMA LogIs ==
  ASSUME NEW n \in Nat
  PROVE  Score!Log1p(n) \in Below(100)
<1> DEFINE m == Score!Max(Digits(n))
<1>1. m \in Digits(n) /\ m \in Int
  BY DigitsAre, MaxOf
<1>2. 0 <= m /\ m <= 12 /\ Score!Log1p(n) = 7 * m
  BY <1>1, DigitsAre
<1> HIDE DEF m
<1> QED BY <1>1, <1>2 DEF Below

LEMMA LogGrows ==
  ASSUME NEW m \in Nat, NEW n \in Nat, m <= n
  PROVE  Score!Log1p(m) <= Score!Log1p(n)
<1> DEFINE a == Score!Max(Digits(m))
           b == Score!Max(Digits(n))
<1>1. a \in Digits(m) /\ a \in Int /\ b \in Int /\ \A k \in Digits(n) : k <= b
  BY DigitsAre, MaxOf
<1>2. a \in Digits(n)
  <2> HIDE DEF a
  <2>1. a \in 0..12 /\ 2 ^ a <= m + 1
    BY <1>1 DEF Digits
  <2>2. 2 ^ a \in Nat
    BY <2>1, TwoTo
  <2> DEFINE p == 2 ^ a
  <2>3. p \in Nat /\ p <= m + 1
    BY <2>1, <2>2
  <2> HIDE DEF p
  <2>4. p <= n + 1
    BY <2>3
  <2> QED BY <2>1, <2>4 DEF Digits, p
<1>3. Score!Log1p(m) = 7 * a /\ Score!Log1p(n) = 7 * b
  BY DigitsAre
<1> HIDE DEF a, b
<1>4. a <= b
  BY <1>1, <1>2
<1> QED BY <1>1, <1>3, <1>4

LEMMA WorkIs ==
  ASSUME NEW s, SilverOK(s), NEW p \in Score!People
  PROVE  /\ s.work[p] \in SUBSET Work /\ IsFiniteSet(s.work[p])
         /\ \A c \in s.work[p] : /\ c.project \in Projects /\ c.share \in Nat /\ c.commits \in Nat /\ c.at \in Int
                                 /\ s.stars[c.project] \in Nat
<1>1. s.work[p] \in SUBSET Work
  BY DEF SilverOK
<1>2. \A j \in Projects : s.stars[j] \in Nat
  BY DEF SilverOK
<1>3. IsFiniteSet(s.work[p])
  BY <1>1, ScoreNumbers, FS_Subset
<1> QED BY <1>1, <1>2, <1>3, ScoreNumbers

Mass(s, p) == Score!SumFunction([c \in s.work[p] |-> c.share * s.stars[c.project]])

LEMMA MassIs ==
  ASSUME NEW s, SilverOK(s), NEW p \in Score!People
  PROVE  /\ Mass(s, p) \in Nat
         /\ Score!StarsWeighted(s, p) = IF s.work[p] = {} THEN Score!Unknown ELSE Score!Log1p(Mass(s, p))
<1> DEFINE S == s.work[p]
           w == [c \in S |-> c.share * s.stars[c.project]]
<1>1. \A c \in S : w[c] \in Nat
  <2> SUFFICES ASSUME NEW c \in S PROVE w[c] \in Nat
    OBVIOUS
  <2>1. c.share \in Nat /\ s.stars[c.project] \in Nat
    BY WorkIs
  <2>2. c.share * s.stars[c.project] \in Nat
    BY <2>1
  <2> QED BY <2>2
<1>2. Mass(s, p) = Sum(w, S) /\ IsFiniteSet(S)
  BY SumFunctionIs, WorkIs DEF Mass
<1> HIDE DEF w, S
<1>3. Sum(w, S) \in Nat
  <2>1. S \in SUBSET S
    OBVIOUS
  <2> QED BY <1>1, <1>2, <2>1, SumGrows
<1> QED BY <1>2, <1>3 DEF Score!StarsWeighted, Mass

LEMMA StarsGrow ==
  ASSUME NEW s, SilverOK(s), NEW t, SilverOK(t), NEW p \in Score!People, s.work[p] = t.work[p],
         \A j \in Projects : s.stars[j] <= t.stars[j]
  PROVE  Score!StarsWeighted(s, p) <= Score!StarsWeighted(t, p)
<1> DEFINE S == s.work[p]
           v == [c \in S |-> c.share * s.stars[c.project]]
           w == [c \in S |-> c.share * t.stars[c.project]]
<1>1. ASSUME NEW c \in S PROVE v[c] \in Int /\ w[c] \in Int /\ 1 * v[c] <= 1 * w[c]
  <2>1. c.share \in Nat /\ s.stars[c.project] \in Nat /\ t.stars[c.project] \in Nat
        /\ s.stars[c.project] <= t.stars[c.project]
    BY WorkIs
  <2>2. /\ c.share * s.stars[c.project] \in Int /\ c.share * t.stars[c.project] \in Int
        /\ c.share * s.stars[c.project] <= c.share * t.stars[c.project]
    BY <2>1, Times
  <2>3. v[c] = c.share * s.stars[c.project] /\ w[c] = c.share * t.stars[c.project]
    OBVIOUS
  <2> HIDE DEF v, w
  <2> QED BY <2>2, <2>3
<1>2. Mass(s, p) = Sum(v, S) /\ Mass(t, p) = Sum(w, S) /\ IsFiniteSet(S)
  BY SumFunctionIs, WorkIs DEF Mass
<1> HIDE DEF v, w, S
<1>3. 1 * Sum(v, S) <= 1 * Sum(w, S)
  <2> DEFINE i == 1
  <2>1. i \in Int /\ \A c \in S : i * v[c] <= i * w[c]
    BY <1>1
  <2>2. Ints(v, S) /\ Ints(w, S)
    BY <1>1 DEF Ints
  <2> HIDE DEF i
  <2>3. i * Sum(v, S) <= i * Sum(w, S)
    BY <1>2, <2>1, <2>2, SumsCompare
  <2> QED BY <2>3 DEF i
<1>4. Mass(s, p) <= Mass(t, p)
  BY <1>2, <1>3, MassIs
<1>5. CASE S = {}
  <2>1. Score!StarsWeighted(s, p) = -1 /\ Score!StarsWeighted(t, p) = -1
    BY <1>5, MassIs DEF S, Score!Unknown
  <2> QED BY <2>1
<1>6. CASE S # {}
  BY <1>4, <1>6, MassIs, LogGrows DEF S
<1> QED BY <1>5, <1>6

LEMMA StarsAre ==
  ASSUME NEW s, SilverOK(s), NEW p \in Score!People
  PROVE  /\ Score!StarsWeighted(s, p) \in Cell(100)
         /\ Score!Known(Score!StarsWeighted(s, p)) <=> s.work[p] # {}
<1>1. CASE s.work[p] = {}
  BY <1>1, MassIs DEF Score!Unknown, Score!Known, Cell
<1>2. CASE s.work[p] # {}
  <2>1. Score!StarsWeighted(s, p) \in Below(100)
    BY <1>2, MassIs, LogIs
  <2> QED BY <1>2, <2>1 DEF Below, Score!Unknown, Score!Known, Cell
<1> QED BY <1>1, <1>2

Recent(s, p, q) == {c \in s.work[p] : c.at >= q - Score!Window}

LEMMA CommitsAre ==
  ASSUME NEW s, SilverOK(s), NEW p \in Score!People, NEW q \in Int
  PROVE  /\ Score!Commits12mo(s, p, q) \in Nat \cup {-1}
         /\ Score!Known(Score!Commits12mo(s, p, q)) <=> Recent(s, p, q) # {}
<1> DEFINE S == Recent(s, p, q)
           w == [c \in S |-> c.commits]
<1>1. S \in SUBSET s.work[p]
  BY DEF Recent
<1>2. \A c \in S : w[c] \in Nat
  BY <1>1, WorkIs
<1>3. IsFiniteSet(S)
  BY <1>1, WorkIs, FS_Subset
<1>4. Score!Commits12mo(s, p, q) = IF S = {} THEN Score!Unknown ELSE Sum(w, S)
  BY SumFunctionIs DEF Score!Commits12mo, Recent
<1> HIDE DEF S, w
<1>5. Sum(w, S) \in Nat
  <2>1. S \in SUBSET S
    OBVIOUS
  <2> QED BY <1>2, <1>3, <2>1, SumGrows
<1> QED BY <1>4, <1>5 DEF Score!Unknown, Score!Known, S

DatesOf(s, p) == {c.at : c \in s.work[p]} \cup s.dates[p]

LEMMA RecencyIs ==
  ASSUME NEW s, SilverOK(s), NEW p \in Score!People, NEW q \in Int, Dated(s, q)
  PROVE  Score!Recency(s, p, q) \in Cell(100)
<1> DEFINE D == DatesOf(s, p)
<1>0. Score!Recency(s, p, q) = IF D = {} THEN Score!Unknown ELSE 100 \div 2 ^ (q - Score!Max(D))
  BY DEF Score!Recency, DatesOf
<1>1. CASE D = {}
  BY <1>0, <1>1 DEF Score!Unknown, Cell
<1>2. CASE D # {}
  <2> DEFINE S == s.work[p]
             A == {c.at : c \in S}
             B == s.dates[p]
             at == [c \in S |-> c.at]
             n == q - Score!Max(D)
  <2>1. IsFiniteSet(A)
    <3>1. at \in Surjection(S, A)
      BY DEF Surjection
    <3>2. IsFiniteSet(S)
      BY WorkIs
    <3> HIDE DEF S, A, at
    <3> QED BY <3>1, <3>2, FS_Surjection
  <2>2. A \in SUBSET Int /\ \A x \in A : x <= q
    BY WorkIs DEF Dated
  <2>3. B \in SUBSET Int /\ IsFiniteSet(B) /\ \A x \in B : x <= q
    <3>1. B \in Dates
      BY DEF SilverOK
    <3> QED BY <3>1 DEF Dates, Dated
  <2>4. D = A \cup B
    BY DEF DatesOf
  <2> HIDE DEF D, A, B
  <2>5. IsFiniteSet(D)
    BY <2>1, <2>3, <2>4, FS_Union
  <2>6. D \in SUBSET Int /\ \A x \in D : x <= q
    BY <2>2, <2>3, <2>4
  <2>7. Score!Max(D) \in Int /\ Score!Max(D) <= q
    BY <1>2, <2>5, <2>6, MaxOf
  <2>8. n \in Nat
    BY <2>7
  <2>9. Score!Recency(s, p, q) = 100 \div 2 ^ n
    BY <1>0, <1>2
  <2> HIDE DEF n
  <2> DEFINE b == 2 ^ n
  <2>10. b \in Nat /\ b > 0
    <3>1. b \in Nat /\ b >= 1
      BY <2>8, TwoTo
    <3> HIDE DEF b
    <3> QED BY <3>1
  <2>11. Score!Recency(s, p, q) = 100 \div b
    BY <2>9
  <2> HIDE DEF b
  <2>12. b * 0 <= 100 /\ 100 < b * 100 + b
    BY <2>10
  <2>13. 100 \div b \in Int /\ 0 <= 100 \div b /\ 100 \div b <= 100
    BY <2>10, <2>12, Quotient, QuotientAtLeast, QuotientAtMost
  <2> QED BY <2>11, <2>13 DEF Below, Cell
<1> QED BY <1>1, <1>2

LEMMA FeaturesAre ==
  ASSUME NEW s, SilverOK(s), NEW q \in Int, Dated(s, q)
  PROVE  Score!Features(s, q) \in [Score!People -> FeatureRow]
<1> SUFFICES ASSUME NEW p \in Score!People PROVE Score!Features(s, q)[p] \in FeatureRow
  BY DEF Score!Features
<1>1. Score!SchoolTier(s, p) \in Cell(100)
  <2>1. s.school[p] \in Tiers \cup {-1}
    BY DEF SilverOK
  <2> QED BY <2>1, ScoreNumbers DEF Score!SchoolTier, Cell
<1>2. Score!CitationsTotal(s, p) \in Nat \cup {-1}
  BY DEF SilverOK, Score!CitationsTotal
<1>3. Score!ZeroToOne(s, p) \in {100, -1}
  BY DEF Score!ZeroToOne, Score!Unknown
<1> QED BY <1>1, <1>2, <1>3, StarsAre, CommitsAre, RecencyIs DEF Score!Features, FeatureRow

\* What is held of a person are the features with a value.
LEMMA HeldIs ==
  ASSUME NEW s, NEW q, NEW p \in Score!People
  PROVE  Score!Held(s, q, p) = {k \in FeatureNames : Score!Known(Score!Features(s, q)[p][k])}
<1>1. DOMAIN Score!Features(s, q)[p] = FeatureNames
  BY DEF Score!Features, FeatureNames
<1> QED BY <1>1 DEF Score!Held

----
(* Scoring: the scores of persons and categories.                            *)

FeaturesOK(f) == f \in [Score!People -> FeatureRow]

LEMMA NamesAreFinite ==
  /\ IsFiniteSet(FeatureNames) /\ IsFiniteSet(Score!Categories)
  /\ IsFiniteSet({"github", "zero_to_one", "papers"})
<1>1. \A S, x : IsFiniteSet(S) => IsFiniteSet(S \cup {x})
  BY FS_AddElement
<1>2. IsFiniteSet({})
  BY FS_EmptySet
<1> DEFINE F1 == {"stars_weighted"}
           F2 == F1 \cup {"commits_12mo"}
           F3 == F2 \cup {"zero_to_one_flag"}
           F4 == F3 \cup {"school_tier"}
           F5 == F4 \cup {"recency_score"}
           F6 == F5 \cup {"citations_total"}
           G1 == {"individual_experience"}
           G2 == G1 \cup {"schools"}
           G3 == G2 \cup {"prior_collaboration"}
           G4 == G3 \cup {"ideal_match"}
           G5 == G4 \cup {"agents"}
           H1 == {"github"}
           H2 == H1 \cup {"zero_to_one"}
           H3 == H2 \cup {"papers"}
<1>3. F1 = {} \cup {"stars_weighted"} /\ G1 = {} \cup {"individual_experience"} /\ H1 = {} \cup {"github"}
  OBVIOUS
<1>4. F6 = FeatureNames /\ G5 = Score!Categories /\ H3 = {"github", "zero_to_one", "papers"}
  BY DEF FeatureNames, Score!Categories
<1> HIDE DEF F1, G1, H1
<1>5. IsFiniteSet(F1) /\ IsFiniteSet(G1) /\ IsFiniteSet(H1)
  BY <1>1, <1>2, <1>3
<1> HIDE DEF F2, G2, H2
<1>6. IsFiniteSet(F2) /\ IsFiniteSet(G2) /\ IsFiniteSet(H2)
  BY <1>1, <1>5 DEF F2, G2, H2
<1> HIDE DEF F3, G3, H3
<1>7. IsFiniteSet(F3) /\ IsFiniteSet(G3) /\ IsFiniteSet(H3)
  BY <1>1, <1>6 DEF F3, G3, H3
<1> HIDE DEF F4, G4
<1>8. IsFiniteSet(F4) /\ IsFiniteSet(G4)
  BY <1>1, <1>7 DEF F4, G4
<1> HIDE DEF F5, G5
<1>9. IsFiniteSet(F5) /\ IsFiniteSet(G5)
  BY <1>1, <1>8 DEF F5, G5
<1> HIDE DEF F6
<1>10. IsFiniteSet(F6)
  BY <1>1, <1>9 DEF F6
<1> QED BY <1>4, <1>7, <1>9, <1>10

LEMMA CellsKnown ==
  ASSUME NEW n \in Nat, NEW x \in Cell(n)
  PROVE  /\ x \in Int /\ -1 <= x /\ x <= n
         /\ Score!Known(x) <=> x # -1
         /\ Score!Known(x) <=> 0 <= x
         /\ Score!Known(x) <=> x \in Below(n)
BY DEF Cell, Below, Score!Known, Score!Unknown

\* Sums of what lies between so many times the weights, and so do their sums.
LEMMA WeightedBetween ==
  ASSUME NEW v, NEW w, NEW S, IsFiniteSet(S), NEW m \in Int, NEW n \in Int,
         \A x \in S : w[x] \in Nat /\ v[x] \in Int /\ m * w[x] <= v[x] /\ v[x] <= n * w[x]
  PROVE  /\ Sum(w, S) \in Nat /\ Sum(v, S) \in Int
         /\ m * Sum(w, S) <= Sum(v, S) /\ Sum(v, S) <= n * Sum(w, S)
<1>1. Ints(v, S) /\ Ints(w, S) /\ S \in SUBSET S
  BY DEF Ints
<1>2. Sum(v, S) \in Int
  BY <1>1, SumIsInt
<1>3. Sum(w, S) \in Nat
  <2>1. \A x \in S : w[x] \in Nat
    OBVIOUS
  <2> QED BY <1>1, <2>1, SumGrows
<1> DEFINE i == 1
<1>4. i \in Int /\ (\A x \in S : m * w[x] <= i * v[x]) /\ (\A x \in S : i * v[x] <= n * w[x])
  OBVIOUS
<1>5. i * Sum(v, S) = Sum(v, S)
  BY <1>2
<1> HIDE DEF i
<1>6. m * Sum(w, S) <= i * Sum(v, S)
  BY <1>1, <1>4, SumsCompare
<1>7. i * Sum(v, S) <= n * Sum(w, S)
  BY <1>1, <1>4, SumsCompare
<1> QED BY <1>2, <1>3, <1>5, <1>6, <1>7

Observed(f, k) == {q \in Score!People : Score!Known(f[q][k])}
AtMost(f, p, k) == {q \in Observed(f, k) : f[q][k] <= f[p][k]}

LEMMA PercentileIs ==
  ASSUME NEW f, NEW p \in Score!People, NEW k, Score!Known(f[p][k])
  PROVE  /\ Score!Percentile(f, p, k) = (1000 * Cardinality(AtMost(f, p, k))) \div Cardinality(Observed(f, k))
         /\ Cardinality(AtMost(f, p, k)) \in Nat
         /\ Cardinality(Observed(f, k)) \in Nat /\ Cardinality(Observed(f, k)) > 0
         /\ Score!Percentile(f, p, k) \in Below(1000)
<1> DEFINE O == Observed(f, k)
           A == AtMost(f, p, k)
           a == Cardinality(A)
           b == Cardinality(O)
<1>1. O \in SUBSET Score!People /\ p \in O /\ A \in SUBSET O
  BY DEF Observed, AtMost
<1>2. Score!Percentile(f, p, k) = (1000 * a) \div b
  BY DEF Score!Percentile, Score!Cardinality, Cardinality, Observed, AtMost
<1> HIDE DEF O, A
<1>3. IsFiniteSet(O)
  BY <1>1, ScoreNumbers, FS_Subset
<1>4. a \in Nat /\ b \in Nat /\ a <= b
  BY <1>1, <1>3, FS_Subset, FS_CardinalityType
<1>5. b # 0
  BY <1>1, <1>3, FS_EmptySet
<1> HIDE DEF a, b
<1>6. b > 0 /\ 1000 * a \in Int /\ b * 0 <= 1000 * a /\ 1000 * a < b * 1000 + b
  BY <1>4, <1>5
<1>7. (1000 * a) \div b \in Int /\ 0 <= (1000 * a) \div b /\ (1000 * a) \div b <= 1000
  BY <1>4, <1>6, Quotient, QuotientAtLeast, QuotientAtMost
<1> QED BY <1>2, <1>4, <1>6, <1>7 DEF Below, a, b, A, O

GithubParts(f, p) == {k \in {"stars_weighted", "commits_12mo"} : Score!Known(f[p][k])}

LEMMA GithubIs ==
  ASSUME NEW f, NEW p \in Score!People
  PROVE  /\ Score!Github(f, p) \in Cell(1000)
         /\ Score!Known(Score!Github(f, p)) <=> GithubParts(f, p) # {}
<1> DEFINE S == GithubParts(f, p)
           w == [k \in S |-> Score!Percentile(f, p, k)]
<1>1. Score!Github(f, p) = IF S = {} THEN Score!Unknown ELSE Score!Mean(w)
  BY DEF Score!Github, GithubParts
<1>2. DOMAIN w = S /\ \A k \in S : w[k] \in Below(1000)
  BY PercentileIs DEF GithubParts
<1>3. IsFiniteSet(S)
  <2>1. S \in SUBSET FeatureNames
    BY DEF FeatureNames, GithubParts
  <2> HIDE DEF S
  <2> QED BY <2>1, NamesAreFinite, FS_Subset
<1> HIDE DEF S, w
<1>4. S # {} => Score!Mean(w) \in Below(1000)
  <2> SUFFICES ASSUME S # {} PROVE Score!Mean(w) \in Below(1000)
    OBVIOUS
  <2>1. \A k \in DOMAIN w : w[k] \in Int /\ 0 <= w[k] /\ w[k] <= 1000
    BY <1>2 DEF Below
  <2>2. Score!Mean(w) \in Int /\ 0 <= Score!Mean(w) /\ Score!Mean(w) <= 1000
    BY <1>2, <1>3, <2>1, MeanBetween
  <2> QED BY <2>2 DEF Below
<1> QED BY <1>1, <1>4 DEF Cell, Below, Score!Known, Score!Unknown, S

SubKeys == {"github", "zero_to_one", "papers"}
Sub(f, p) ==
  [github |-> Score!Github(f, p), zero_to_one |-> 10 * f[p].zero_to_one_flag,
   papers |-> IF Score!Known(f[p].citations_total)
              THEN Score!Percentile(f, p, "citations_total") ELSE Score!Unknown]
SubKnown(f, p) == {k \in SubKeys : Sub(f, p)[k] >= 0}
SubSum(f, p) == Sum([k \in SubKnown(f, p) |-> Score!Subweight[k] * Sub(f, p)[k]], SubKnown(f, p))
SubWeight(f, p) == Sum([k \in SubKnown(f, p) |-> Score!Subweight[k]], SubKnown(f, p))

LEMMA SubIs ==
  ASSUME NEW f, FeaturesOK(f), NEW p \in Score!People
  PROVE  /\ \A k \in SubKeys : /\ Sub(f, p)[k] \in Int /\ Sub(f, p)[k] <= 1000
                               /\ Score!Subweight[k] \in Nat /\ Score!Subweight[k] > 0
         /\ "github" \in SubKnown(f, p) <=> GithubParts(f, p) # {}
         /\ "zero_to_one" \in SubKnown(f, p) <=> Score!Known(f[p].zero_to_one_flag)
         /\ "papers" \in SubKnown(f, p) <=> Score!Known(f[p].citations_total)
<1>1. \A k \in SubKeys : Score!Subweight[k] \in Nat /\ Score!Subweight[k] > 0
  BY DEF SubKeys, Score!Subweight
<1>2. Score!Github(f, p) \in Int /\ Score!Github(f, p) <= 1000 /\ (Score!Github(f, p) >= 0 <=> GithubParts(f, p) # {})
  <2>1. Score!Github(f, p) \in Cell(1000)
    BY GithubIs
  <2> DEFINE n == 1000
  <2>2. n \in Nat /\ Score!Github(f, p) \in Cell(n)
    BY <2>1
  <2> HIDE DEF n
  <2>3. /\ Score!Github(f, p) \in Int /\ Score!Github(f, p) <= n
        /\ Score!Known(Score!Github(f, p)) <=> 0 <= Score!Github(f, p)
    BY <2>2, CellsKnown
  <2> QED BY <2>3, GithubIs DEF n
<1>3. f[p].zero_to_one_flag \in {100, -1}
  BY DEF FeaturesOK, FeatureRow
<1>4. /\ 10 * f[p].zero_to_one_flag \in Int /\ 10 * f[p].zero_to_one_flag <= 1000
      /\ 10 * f[p].zero_to_one_flag >= 0 <=> Score!Known(f[p].zero_to_one_flag)
  BY <1>3 DEF Score!Known, Score!Unknown
<1> DEFINE papers == IF Score!Known(f[p].citations_total)
                     THEN Score!Percentile(f, p, "citations_total") ELSE Score!Unknown
<1>5. papers \in Int /\ papers <= 1000 /\ (papers >= 0 <=> Score!Known(f[p].citations_total))
  <2>1. CASE Score!Known(f[p].citations_total)
    <3>1. Score!Known(f[p]["citations_total"])
      BY <2>1
    <3>2. papers \in Below(1000)
      BY <2>1, <3>1, PercentileIs
    <3> HIDE DEF papers
    <3> QED BY <2>1, <3>2 DEF Below
  <2>2. CASE ~Score!Known(f[p].citations_total)
    BY <2>2 DEF Score!Unknown
  <2> QED BY <2>1, <2>2
<1>6. Sub(f, p) = [github |-> Score!Github(f, p), zero_to_one |-> 10 * f[p].zero_to_one_flag, papers |-> papers]
  BY DEF Sub
<1> HIDE DEF papers
<1>7. \A k \in SubKeys : Sub(f, p)[k] \in Int /\ Sub(f, p)[k] <= 1000
  BY <1>2, <1>4, <1>5, <1>6 DEF SubKeys
<1>8. "github" \in SubKnown(f, p) <=> GithubParts(f, p) # {}
  BY <1>2, <1>6 DEF SubKeys, SubKnown
<1>9. "zero_to_one" \in SubKnown(f, p) <=> Score!Known(f[p].zero_to_one_flag)
  BY <1>4, <1>6 DEF SubKeys, SubKnown
<1>10. "papers" \in SubKnown(f, p) <=> Score!Known(f[p].citations_total)
  BY <1>5, <1>6 DEF SubKeys, SubKnown
<1> QED BY <1>1, <1>7, <1>8, <1>9, <1>10

LEMMA PersonScoreIs ==
  ASSUME NEW f, FeaturesOK(f), NEW p \in Score!People
  PROVE  /\ Score!PersonScore(f, p) \in Cell(1000)
         /\ Score!Known(Score!PersonScore(f, p)) <=> SubKnown(f, p) # {}
         /\ SubKnown(f, p) # {} =>
              /\ Score!PersonScore(f, p) = SubSum(f, p) \div SubWeight(f, p)
              /\ SubSum(f, p) \in Int /\ SubWeight(f, p) \in Nat /\ SubWeight(f, p) > 0
<1> DEFINE S == SubKnown(f, p)
           v == [k \in S |-> Score!Subweight[k] * Sub(f, p)[k]]
           w == [k \in S |-> Score!Subweight[k]]
           a == Sum(v, S)
           b == Sum(w, S)
<1>1. Score!PersonScore(f, p) = IF S = {} THEN Score!Unknown ELSE a \div b
  <2>1. DOMAIN Sub(f, p) = SubKeys
    BY DEF Sub, SubKeys
  <2>2. {k \in DOMAIN Sub(f, p) : Sub(f, p)[k] >= 0} = S
    BY <2>1 DEF SubKnown
  <2>3. Score!PersonScore(f, p) =
          IF {k \in DOMAIN Sub(f, p) : Sub(f, p)[k] >= 0} = {} THEN Score!Unknown
          ELSE Score!SumFunction([k \in {k \in DOMAIN Sub(f, p) : Sub(f, p)[k] >= 0} |-> Score!Subweight[k] * Sub(f, p)[k]])
                 \div Score!SumFunction([k \in {k \in DOMAIN Sub(f, p) : Sub(f, p)[k] >= 0} |-> Score!Subweight[k]])
    BY DEF Score!PersonScore, Sub
  <2>4. Score!SumFunction(v) = a /\ Score!SumFunction(w) = b
    BY SumFunctionIs
  <2> QED BY <2>2, <2>3, <2>4
<1>2. IsFiniteSet(S)
  <2>1. S \in SUBSET SubKeys /\ IsFiniteSet(SubKeys)
    BY NamesAreFinite DEF SubKnown, SubKeys
  <2> HIDE DEF S
  <2> QED BY <2>1, FS_Subset
<1>3. ASSUME NEW k \in S
      PROVE  w[k] \in Nat /\ w[k] > 0 /\ v[k] \in Int /\ 0 * w[k] <= v[k] /\ v[k] <= 1000 * w[k]
  <2> DEFINE x == Sub(f, p)[k]
             y == Score!Subweight[k]
  <2>1. x \in Int /\ 0 <= x /\ x <= 1000 /\ y \in Nat /\ y > 0
    BY SubIs DEF SubKnown
  <2>2. v[k] = y * x /\ w[k] = y
    OBVIOUS
  <2> HIDE DEF x, y, v, w
  <2>3. y * 0 <= y * x /\ y * x <= y * 1000 /\ y * x \in Int
    BY <2>1, Times
  <2>4. y * 0 = 0 * y /\ y * 1000 = 1000 * y
    BY <2>1
  <2> QED BY <2>1, <2>2, <2>3, <2>4
<1>4. SubSum(f, p) = a /\ SubWeight(f, p) = b
  BY DEF SubSum, SubWeight
<1> HIDE DEF S, v, w
<1>5. b \in Nat /\ a \in Int /\ 0 * b <= a /\ a <= 1000 * b
  <2> DEFINE lo == 0
             hi == 1000
  <2>1. lo \in Int /\ hi \in Int
    OBVIOUS
  <2>2. \A k \in S : w[k] \in Nat /\ v[k] \in Int /\ lo * w[k] <= v[k] /\ v[k] <= hi * w[k]
    BY <1>3
  <2> HIDE DEF lo, hi
  <2>3. b \in Nat /\ a \in Int /\ lo * b <= a /\ a <= hi * b
    BY <1>2, <2>1, <2>2, WeightedBetween
  <2> QED BY <2>3 DEF lo, hi
<1>6. S # {} => b > 0
  <2> SUFFICES ASSUME NEW k \in S PROVE b > 0
    OBVIOUS
  <2>1. \A x \in S : w[x] \in Nat
    BY <1>3
  <2>2. w[k] <= b
    BY <1>2, <2>1, SumHas
  <2> HIDE DEF b
  <2> QED BY <1>3, <1>5, <2>2
<1> HIDE DEF a, b
<1>7. S # {} => a \div b \in Below(1000)
  <2> SUFFICES ASSUME S # {} PROVE a \div b \in Below(1000)
    OBVIOUS
  <2>1. b * 0 <= a /\ a < b * 1000 + b
    BY <1>5, <1>6
  <2>2. a \div b \in Int /\ 0 <= a \div b /\ a \div b <= 1000
    BY <1>5, <1>6, <2>1, Quotient, QuotientAtLeast, QuotientAtMost
  <2> QED BY <2>2 DEF Below
<1>8. Score!PersonScore(f, p) \in Cell(1000)
  BY <1>1, <1>7 DEF Cell, Score!Unknown
<1>9. Score!Known(Score!PersonScore(f, p)) <=> S # {}
  BY <1>1, <1>7 DEF Score!Known, Score!Unknown, Below
<1> QED BY <1>1, <1>4, <1>5, <1>6, <1>8, <1>9 DEF S

LEMMA PersonScoreKnown ==
  ASSUME NEW f, FeaturesOK(f), NEW p \in Score!People
  PROVE  Score!Known(Score!PersonScore(f, p)) <=> SubKnown(f, p) # {}
BY PersonScoreIs

\* A better value of what is known never lowers the score of a person.
LEMMA PersonScoreGrows ==
  ASSUME NEW f, FeaturesOK(f), NEW g, FeaturesOK(g), NEW p \in Score!People,
         SubKnown(f, p) = SubKnown(g, p), \A k \in SubKnown(f, p) : Sub(f, p)[k] <= Sub(g, p)[k]
  PROVE  Score!PersonScore(f, p) <= Score!PersonScore(g, p)
<1>1. CASE SubKnown(f, p) = {}
  <2>1. Score!PersonScore(f, p) = -1 /\ Score!PersonScore(g, p) = -1
    <3>1. ~Score!Known(Score!PersonScore(f, p))
      BY <1>1, PersonScoreKnown
    <3>2. ~Score!Known(Score!PersonScore(g, p))
      BY <1>1, PersonScoreKnown
    <3> QED BY <3>1, <3>2 DEF Score!Known, Score!Unknown
  <2> QED BY <2>1
<1>2. CASE SubKnown(f, p) # {}
  <2> DEFINE S == SubKnown(f, p)
             v == [k \in S |-> Score!Subweight[k] * Sub(f, p)[k]]
             w == [k \in S |-> Score!Subweight[k] * Sub(g, p)[k]]
  <2>1. ASSUME NEW k \in S PROVE v[k] \in Int /\ w[k] \in Int /\ v[k] <= w[k]
    <3> DEFINE x == Sub(f, p)[k]
               z == Sub(g, p)[k]
               y == Score!Subweight[k]
    <3>1. x \in Int /\ z \in Int /\ x <= z /\ y \in Nat
      BY SubIs DEF SubKnown
    <3>2. v[k] = y * x /\ w[k] = y * z
      OBVIOUS
    <3> HIDE DEF x, y, z, v, w
    <3> QED BY <3>1, <3>2, Times
  <2>2. IsFiniteSet(S)
    <3>1. S \in SUBSET SubKeys /\ IsFiniteSet(SubKeys)
      BY NamesAreFinite DEF SubKnown, SubKeys
    <3> HIDE DEF S
    <3> QED BY <3>1, FS_Subset
  <2>3. SubSum(f, p) = Sum(v, S) /\ SubSum(g, p) = Sum(w, S) /\ SubWeight(f, p) = SubWeight(g, p)
    BY DEF SubSum, SubWeight
  <2>4. SubSum(f, p) \in Int /\ SubSum(g, p) \in Int
    BY <1>2, PersonScoreIs
  <2> HIDE DEF v, w, S
  <2>5. SubSum(f, p) <= SubSum(g, p)
    <3> DEFINE i == 1
    <3>1. Ints(v, S) /\ Ints(w, S) /\ i \in Int /\ \A k \in S : i * v[k] <= i * w[k]
      BY <2>1 DEF Ints
    <3> HIDE DEF i
    <3>2. i * Sum(v, S) <= i * Sum(w, S)
      BY <2>2, <3>1, SumsCompare
    <3> QED BY <2>3, <2>4, <3>2 DEF i
  <2>6. /\ Score!PersonScore(f, p) = SubSum(f, p) \div SubWeight(f, p)
        /\ Score!PersonScore(g, p) = SubSum(g, p) \div SubWeight(f, p)
        /\ SubWeight(f, p) \in Nat /\ SubWeight(f, p) > 0
    BY <1>2, <2>3, PersonScoreIs
  <2> QED BY <2>4, <2>5, <2>6, QuotientGrows
<1> QED BY <1>1, <1>2

ScoredOf(of) == {p \in DOMAIN of : Score!Known(of[p])}
Values(of) == {of[p] : p \in ScoredOf(of)}
Scored(of) == [p \in ScoredOf(of) |-> of[p]]

LEMMA ValuesAre ==
  ASSUME NEW of, DOMAIN of \in SUBSET Members, \A p \in DOMAIN of : of[p] \in Cell(1000), ScoredOf(of) # {}
  PROVE  /\ IsFiniteSet(ScoredOf(of)) /\ DOMAIN Scored(of) = ScoredOf(of)
         /\ \A p \in ScoredOf(of) : /\ Scored(of)[p] = of[p] /\ of[p] \in Int /\ 0 <= of[p] /\ of[p] <= 1000
                                    /\ of[p] <= Score!Max(Values(of))
         /\ \E p \in ScoredOf(of) : Score!Max(Values(of)) = of[p]
         /\ Score!Max(Values(of)) \in Int /\ 0 <= Score!Max(Values(of)) /\ Score!Max(Values(of)) <= 1000
         /\ Score!Mean(Scored(of)) \in Int /\ 0 <= Score!Mean(Scored(of)) /\ Score!Mean(Scored(of)) <= 1000
<1> DEFINE S == ScoredOf(of)
           V == Values(of)
           w == Scored(of)
<1>1. S \in SUBSET Members
  BY DEF ScoredOf
<1>2. \A p \in S : of[p] \in Int /\ 0 <= of[p] /\ of[p] <= 1000
  <2> SUFFICES ASSUME NEW p \in S PROVE of[p] \in Int /\ 0 <= of[p] /\ of[p] <= 1000
    OBVIOUS
  <2>1. of[p] \in Cell(1000) /\ Score!Known(of[p])
    BY DEF ScoredOf
  <2> QED BY <2>1 DEF Cell, Below, Score!Known, Score!Unknown
<1>3. DOMAIN w = S /\ \A p \in S : w[p] = of[p]
  BY DEF Scored
<1>4. V = {of[p] : p \in S}
  BY DEF Values
<1> HIDE DEF S, V, w
<1>5. IsFiniteSet(S)
  BY <1>1, ScoreNumbers, FS_Subset
<1>6. IsFiniteSet(V)
  <2> DEFINE h == [p \in S |-> of[p]]
  <2>1. h \in Surjection(S, V)
    BY <1>4 DEF Surjection
  <2> HIDE DEF h
  <2> QED BY <1>5, <2>1, FS_Surjection
<1>7. S # {}
  BY DEF S
<1>8. V # {} /\ V \in SUBSET Int
  BY <1>2, <1>4, <1>7
<1>9. Score!Max(V) \in V /\ Score!Max(V) \in Int /\ \A x \in V : x <= Score!Max(V)
  BY <1>6, <1>8, MaxOf
<1>10. PICK p \in S : Score!Max(V) = of[p]
  BY <1>4, <1>9
<1>11. \A q \in S : of[q] <= Score!Max(V)
  BY <1>4, <1>9
<1>12. Score!Mean(w) \in Int /\ 0 <= Score!Mean(w) /\ Score!Mean(w) <= 1000
  BY <1>2, <1>3, <1>5, <1>7, MeanBetween
<1> QED BY <1>2, <1>3, <1>5, <1>9, <1>10, <1>11, <1>12 DEF S, V, w

LEMMA MixedIs ==
  ASSUME NEW of, DOMAIN of \in SUBSET Members, \A p \in DOMAIN of : of[p] \in Cell(1000), NEW b \in {4, 7}
  PROVE  /\ Score!Mixed(of, b) \in Cell(1000)
         /\ Score!Known(Score!Mixed(of, b)) <=> ScoredOf(of) # {}
         /\ ScoredOf(of) # {} =>
              Score!Mixed(of, b) = Score!Rounded(b * Score!Max(Values(of)) + (10 - b) * Score!Mean(Scored(of)), 10)
<1>1. CASE ScoredOf(of) = {}
  BY <1>1 DEF Score!Mixed, ScoredOf, Score!Known, Score!Unknown, Cell
<1>2. CASE ScoredOf(of) # {}
  <2> DEFINE x == Score!Max(Values(of))
             y == Score!Mean(Scored(of))
  <2>1. Score!Mixed(of, b) = Score!Rounded(b * x + (10 - b) * y, 10)
    BY <1>2 DEF Score!Mixed, ScoredOf, Values, Scored
  <2>2. x \in Int /\ 0 <= x /\ x <= 1000 /\ y \in Int /\ 0 <= y /\ y <= 1000
    BY <1>2, ValuesAre
  <2> HIDE DEF x, y
  <2> DEFINE a == b * x + (10 - b) * y
             ten == 10
             lo == 0
             hi == 1000
  <2>3. a \in Int /\ ten \in Nat /\ ten > 0 /\ lo \in Int /\ hi \in Int /\ ten * lo <= a /\ a <= ten * hi
    <3>1. CASE b = 4
      BY <2>2, <3>1
    <3>2. CASE b = 7
      BY <2>2, <3>2
    <3> QED BY <3>1, <3>2
  <2> HIDE DEF a, ten, lo, hi
  <2>4. Score!Rounded(a, ten) \in Int /\ lo <= Score!Rounded(a, ten) /\ Score!Rounded(a, ten) <= hi
    BY <2>3, RoundedBetween
  <2>5. Score!Mixed(of, b) = Score!Rounded(a, ten)
    BY <2>1 DEF a, ten
  <2>6. Score!Mixed(of, b) \in Below(1000)
    BY <2>4, <2>5 DEF Below, lo, hi
  <2> QED BY <1>2, <2>1, <2>6 DEF Score!Known, Score!Unknown, Cell, Below, x, y
<1> QED BY <1>1, <1>2

LEMMA MixedGrows ==
  ASSUME NEW of, DOMAIN of \in SUBSET Members, \A p \in DOMAIN of : of[p] \in Cell(1000),
         NEW to, DOMAIN to \in SUBSET Members, \A p \in DOMAIN to : to[p] \in Cell(1000),
         ScoredOf(of) = ScoredOf(to), \A p \in ScoredOf(of) : of[p] <= to[p], NEW b \in {4, 7}
  PROVE  Score!Mixed(of, b) <= Score!Mixed(to, b)
<1>1. CASE ScoredOf(of) = {}
  <2>1. Score!Mixed(of, b) = -1 /\ Score!Mixed(to, b) = -1
    BY <1>1 DEF Score!Mixed, ScoredOf, Score!Unknown
  <2> QED BY <2>1
<1>2. CASE ScoredOf(of) # {}
  <2> DEFINE x == Score!Max(Values(of))
             y == Score!Mean(Scored(of))
             u == Score!Max(Values(to))
             v == Score!Mean(Scored(to))
             c == b * x + (10 - b) * y
             d == b * u + (10 - b) * v
  <2>1. x \in Int /\ y \in Int /\ u \in Int /\ v \in Int
    BY <1>2, ValuesAre
  <2>2. x <= u
    <3>1. PICK p \in ScoredOf(of) : x = of[p]
      BY <1>2, ValuesAre
    <3>2. of[p] \in Int /\ to[p] \in Int /\ of[p] <= to[p] /\ to[p] <= u
      <4>1. of[p] \in Int
        BY <1>2, ValuesAre
      <4>2. to[p] \in Int /\ to[p] <= u
        BY <1>2, ValuesAre
      <4> QED BY <4>1, <4>2
    <3> HIDE DEF x, u
    <3> QED BY <2>1, <3>1, <3>2
  <2>3. y <= v
    <3>1. DOMAIN Scored(of) = ScoredOf(of) /\ IsFiniteSet(ScoredOf(of))
          /\ \A p \in ScoredOf(of) : Scored(of)[p] = of[p] /\ of[p] \in Int
      BY <1>2, ValuesAre
    <3>2. DOMAIN Scored(to) = ScoredOf(of) /\ \A p \in ScoredOf(of) : Scored(to)[p] = to[p] /\ to[p] \in Int
      BY <1>2, ValuesAre
    <3> QED BY <1>2, <3>1, <3>2, MeanGrows
  <2>4. /\ Score!Mixed(of, b) = Score!Rounded(c, 10)
        /\ Score!Mixed(to, b) = Score!Rounded(d, 10)
    BY <1>2, MixedIs
  <2> HIDE DEF x, y, u, v
  <2>5. c \in Int /\ d \in Int /\ c <= d
    <3>1. CASE b = 4
      BY <2>1, <2>2, <2>3, <3>1
    <3>2. CASE b = 7
      BY <2>1, <2>2, <2>3, <3>2
    <3> QED BY <3>1, <3>2
  <2> HIDE DEF c, d
  <2> DEFINE ten == 10
  <2>6. ten \in Nat /\ ten > 0 /\ Score!Mixed(of, b) = Score!Rounded(c, ten) /\ Score!Mixed(to, b) = Score!Rounded(d, ten)
    BY <2>4
  <2> HIDE DEF ten
  <2> QED BY <2>5, <2>6, RoundedGrows
<1> QED BY <1>1, <1>2

SchoolOf(f, team) ==
  [p \in team |-> IF Score!Known(f[p].school_tier) THEN 10 * f[p].school_tier ELSE Score!Unknown]

LEMMA SchoolsAre ==
  ASSUME NEW f, FeaturesOK(f), NEW team \in SUBSET Members
  PROVE  /\ Score!Schools(f, team) \in Cell(1000)
         /\ Score!Known(Score!Schools(f, team)) <=> \E p \in team : Score!Known(f[p].school_tier)
<1> DEFINE of == SchoolOf(f, team)
<1>1. Score!Schools(f, team) = Score!Mixed(of, 7) /\ DOMAIN of = team
  BY DEF Score!Schools, SchoolOf
<1>2. ASSUME NEW p \in team PROVE of[p] \in Cell(1000) /\ (Score!Known(of[p]) <=> Score!Known(f[p].school_tier))
  <2>1. f[p].school_tier \in Cell(100)
    BY TeamIs DEF FeaturesOK, FeatureRow
  <2>2. of[p] = IF Score!Known(f[p].school_tier) THEN 10 * f[p].school_tier ELSE Score!Unknown
    BY DEF SchoolOf
  <2> HIDE DEF of
  <2> QED BY <2>1, <2>2 DEF Cell, Below, Score!Known, Score!Unknown
<1> HIDE DEF of
<1>3. Score!Mixed(of, 7) \in Cell(1000) /\ (Score!Known(Score!Mixed(of, 7)) <=> ScoredOf(of) # {})
  BY <1>1, <1>2, MixedIs
<1>4. ScoredOf(of) # {} <=> \E p \in team : Score!Known(f[p].school_tier)
  BY <1>1, <1>2 DEF ScoredOf
<1> QED BY <1>1, <1>3, <1>4

LEMMA LeastOfTwo ==
  ASSUME NEW a \in Int, NEW b \in Int
  PROVE  Score!Min({a, b}) = IF a <= b THEN a ELSE b
<1> DEFINE m == IF a <= b THEN a ELSE b
<1>1. m \in {a, b} /\ \A y \in {a, b} : m <= y
  OBVIOUS
<1>2. \A x \in {a, b} : (\A y \in {a, b} : x <= y) => x = m
  OBVIOUS
<1> HIDE DEF m
<1>3. Score!Min({a, b}) \in {a, b} /\ \A y \in {a, b} : Score!Min({a, b}) <= y
  BY <1>1 DEF Score!Min
<1> QED BY <1>2, <1>3 DEF m

Way(k, x) == ((IF 100 <= x THEN 100 ELSE x) * 1000) \div Targets[k]

LEMMA ClosenessIs ==
  ASSUME NEW k \in DOMAIN Targets, NEW x \in Nat
  PROVE  /\ Score!Closeness(k, x) \in Below(1000)
         /\ Way(k, x) \in Nat /\ Score!Closeness(k, x) = IF 1000 <= Way(k, x) THEN 1000 ELSE Way(k, x)
<1> DEFINE m == IF 100 <= x THEN 100 ELSE x
           a == m * 1000
           b == Targets[k]
<1>1. Score!Min({100, x}) = m
  BY LeastOfTwo
<1>2. a \in Int /\ a >= 0 /\ b \in Nat /\ b > 0
  BY ScoreNumbers
<1>3. Way(k, x) = a \div b /\ Score!Closeness(k, x) = Score!Min({1000, a \div b})
  <2>1. Way(k, x) = a \div b
    BY DEF Way
  <2>2. Score!Closeness(k, x) = Score!Min({1000, (Score!Min({100, x}) * 1000) \div Targets[k]})
    BY DEF Score!Closeness
  <2>3. Score!Min({1000, (Score!Min({100, x}) * 1000) \div Targets[k]}) = Score!Min({1000, (m * 1000) \div Targets[k]})
    <3> HIDE DEF m
    <3> DEFINE u == Score!Min({100, x})
    <3>1. u = m
      BY <1>1
    <3> HIDE DEF u
    <3>2. Score!Min({1000, (u * 1000) \div Targets[k]}) = Score!Min({1000, (m * 1000) \div Targets[k]})
      BY ONLY <3>1
    <3> QED BY <3>2 DEF u
  <2> HIDE DEF m
  <2> QED BY <2>1, <2>2, <2>3
<1> HIDE DEF m, a, b
<1>4. b * 0 <= a
  BY <1>2
<1>5. a \div b \in Int /\ 0 <= a \div b
  BY <1>2, <1>4, Quotient, QuotientAtLeast
<1>6. Score!Closeness(k, x) = IF 1000 <= Way(k, x) THEN 1000 ELSE Way(k, x)
  BY <1>3, <1>5, LeastOfTwo
<1> QED BY <1>3, <1>5, <1>6 DEF Below

LEMMA ClosenessGrows ==
  ASSUME NEW k \in DOMAIN Targets, NEW x \in Nat, NEW y \in Nat, x <= y
  PROVE  Score!Closeness(k, x) <= Score!Closeness(k, y)
<1> DEFINE a == (IF 100 <= x THEN 100 ELSE x) * 1000
           c == (IF 100 <= y THEN 100 ELSE y) * 1000
           b == Targets[k]
<1>1. a \in Int /\ c \in Int /\ a <= c /\ b \in Nat /\ b > 0
  BY ScoreNumbers
<1>2. Way(k, x) = a \div b /\ Way(k, y) = c \div b
  BY DEF Way
<1> HIDE DEF a, b, c
<1>3. Way(k, x) <= Way(k, y)
  BY <1>1, <1>2, QuotientGrows
<1> QED BY <1>3, ClosenessIs

MatchKeys(f, p) == {k \in DOMAIN Targets : Score!Known(f[p][k])}
Closest(f, p) == [k \in MatchKeys(f, p) |-> Score!Closeness(k, f[p][k])]

LEMMA TargetCells ==
  ASSUME NEW f, FeaturesOK(f), NEW p \in Score!People, NEW k \in MatchKeys(f, p)
  PROVE  k \in DOMAIN Targets /\ k \in FeatureNames /\ f[p][k] \in Nat
<1>1. k \in {"school_tier", "stars_weighted", "recency_score"} /\ k \in DOMAIN Targets /\ Score!Known(f[p][k])
  BY ScoreNumbers DEF MatchKeys
<1>2. f[p][k] \in Cell(100)
  <2>1. f[p] \in FeatureRow
    BY DEF FeaturesOK
  <2> QED BY <1>1, <2>1 DEF FeatureRow
<1> QED BY <1>1, <1>2 DEF FeatureNames, Cell, Below, Score!Known, Score!Unknown

LEMMA PersonMatchIs ==
  ASSUME NEW f, FeaturesOK(f), NEW p \in Score!People
  PROVE  /\ Score!PersonMatch(f, p) \in Cell(1000)
         /\ Score!Known(Score!PersonMatch(f, p)) <=> MatchKeys(f, p) # {}
         /\ MatchKeys(f, p) # {} => Score!PersonMatch(f, p) = Score!Mean(Closest(f, p))
         /\ IsFiniteSet(MatchKeys(f, p))
<1> DEFINE S == MatchKeys(f, p)
           w == Closest(f, p)
<1>1. Score!PersonMatch(f, p) = IF S = {} THEN Score!Unknown ELSE Score!Mean(w)
  BY DEF Score!PersonMatch, MatchKeys, Closest
<1>2. DOMAIN w = S
  BY DEF Closest
<1>3. \A k \in S : w[k] \in Int /\ 0 <= w[k] /\ w[k] <= 1000
  <2> SUFFICES ASSUME NEW k \in S PROVE w[k] \in Below(1000)
    BY DEF Below
  <2>1. w[k] = Score!Closeness(k, f[p][k])
    BY DEF Closest
  <2> QED BY <2>1, TargetCells, ClosenessIs
<1>4. IsFiniteSet(S)
  <2>1. S \in SUBSET FeatureNames
    BY TargetCells
  <2> HIDE DEF S
  <2> QED BY <2>1, NamesAreFinite, FS_Subset
<1> HIDE DEF S, w
<1>5. S # {} => Score!Mean(w) \in Int /\ 0 <= Score!Mean(w) /\ Score!Mean(w) <= 1000
  <2> SUFFICES ASSUME S # {} PROVE Score!Mean(w) \in Int /\ 0 <= Score!Mean(w) /\ Score!Mean(w) <= 1000
    OBVIOUS
  <2>1. IsFiniteSet(DOMAIN w) /\ DOMAIN w # {} /\ \A k \in DOMAIN w : w[k] \in Int /\ 0 <= w[k] /\ w[k] <= 1000
    BY <1>2, <1>3, <1>4
  <2> QED BY <2>1, MeanBetween
<1> QED BY <1>1, <1>4, <1>5 DEF Cell, Below, Score!Known, Score!Unknown, S, w

MatchOf(f, team) == [p \in team |-> Score!PersonMatch(f, p)]

LEMMA IdealMatchIs ==
  ASSUME NEW f, FeaturesOK(f), NEW team \in SUBSET Members
  PROVE  /\ Score!IdealMatch(f, team) \in Cell(1000) /\ Score!IdealMatch(f, team) = Score!Mixed(MatchOf(f, team), 4)
         /\ \A p \in team : MatchOf(f, team)[p] \in Cell(1000) /\ MatchOf(f, team)[p] = Score!PersonMatch(f, p)
         /\ Score!Known(Score!IdealMatch(f, team)) <=> \E p \in team : MatchKeys(f, p) # {}
<1> DEFINE of == MatchOf(f, team)
<1>1. Score!IdealMatch(f, team) = Score!Mixed(of, 4) /\ DOMAIN of = team
  BY DEF Score!IdealMatch, MatchOf
<1>2. ASSUME NEW p \in team
      PROVE  of[p] \in Cell(1000) /\ of[p] = Score!PersonMatch(f, p) /\ (Score!Known(of[p]) <=> MatchKeys(f, p) # {})
  <2>1. p \in Score!People
    BY TeamIs
  <2>2. of[p] = Score!PersonMatch(f, p)
    BY DEF MatchOf
  <2> QED BY <2>1, <2>2, PersonMatchIs
<1> HIDE DEF of
<1>3. Score!Mixed(of, 4) \in Cell(1000) /\ (Score!Known(Score!Mixed(of, 4)) <=> ScoredOf(of) # {})
  BY <1>1, <1>2, MixedIs
<1>4. ScoredOf(of) # {} <=> \E p \in team : MatchKeys(f, p) # {}
  BY <1>1, <1>2 DEF ScoredOf
<1> QED BY <1>1, <1>2, <1>3, <1>4 DEF of

\* Where the same is known and what an ideal names has grown, so has the match.
LEMMA IdealMatchGrows ==
  ASSUME NEW f, FeaturesOK(f), NEW g, FeaturesOK(g), NEW team \in SUBSET Members,
         \A p \in team : \A k \in DOMAIN Targets :
           (Score!Known(f[p][k]) <=> Score!Known(g[p][k])) /\ f[p][k] <= g[p][k]
  PROVE  Score!IdealMatch(f, team) <= Score!IdealMatch(g, team)
<1>1. ASSUME NEW p \in team
      PROVE  /\ Score!Known(MatchOf(f, team)[p]) <=> Score!Known(MatchOf(g, team)[p])
             /\ Score!Known(MatchOf(f, team)[p]) => MatchOf(f, team)[p] <= MatchOf(g, team)[p]
  <2>0. p \in Score!People
    BY TeamIs
  <2>1. MatchKeys(f, p) = MatchKeys(g, p)
    BY DEF MatchKeys
  <2>2. MatchOf(f, team)[p] = Score!PersonMatch(f, p) /\ MatchOf(g, team)[p] = Score!PersonMatch(g, p)
    BY DEF MatchOf
  <2>3. ASSUME NEW k \in MatchKeys(f, p)
        PROVE  Closest(f, p)[k] \in Int /\ Closest(g, p)[k] \in Int /\ Closest(f, p)[k] <= Closest(g, p)[k]
    <3>1. Closest(f, p)[k] = Score!Closeness(k, f[p][k]) /\ Closest(g, p)[k] = Score!Closeness(k, g[p][k])
      BY <2>1 DEF Closest
    <3>2. k \in DOMAIN Targets /\ f[p][k] \in Nat /\ g[p][k] \in Nat /\ f[p][k] <= g[p][k]
      BY <2>0, <2>1, TargetCells
    <3> QED BY <3>1, <3>2, ClosenessIs, ClosenessGrows DEF Below
  <2>4. MatchKeys(f, p) # {} => Score!Mean(Closest(f, p)) <= Score!Mean(Closest(g, p))
    <3> SUFFICES ASSUME MatchKeys(f, p) # {} PROVE Score!Mean(Closest(f, p)) <= Score!Mean(Closest(g, p))
      OBVIOUS
    <3>1. /\ DOMAIN Closest(f, p) = MatchKeys(f, p) /\ DOMAIN Closest(g, p) = MatchKeys(f, p)
          /\ IsFiniteSet(MatchKeys(f, p))
      <4>1. IsFiniteSet(MatchKeys(f, p))
        BY <2>0, PersonMatchIs
      <4> QED BY <2>1, <4>1 DEF Closest
    <3> QED BY <2>3, <3>1, MeanGrows
  <2> QED BY <2>0, <2>1, <2>2, <2>4, PersonMatchIs
<1>0. DOMAIN MatchOf(f, team) = team /\ DOMAIN MatchOf(g, team) = team
  BY DEF MatchOf
<1>2. ScoredOf(MatchOf(f, team)) = ScoredOf(MatchOf(g, team)) /\ \A p \in ScoredOf(MatchOf(f, team)) : MatchOf(f, team)[p] <= MatchOf(g, team)[p]
  BY <1>0, <1>1 DEF ScoredOf
<1>3. \A p \in team : MatchOf(f, team)[p] \in Cell(1000)
  BY IdealMatchIs
<1>4. \A p \in team : MatchOf(g, team)[p] \in Cell(1000)
  BY IdealMatchIs
<1>5. Score!Mixed(MatchOf(f, team), 4) <= Score!Mixed(MatchOf(g, team), 4)
  BY <1>0, <1>2, <1>3, <1>4, MixedGrows
<1> QED BY <1>5, IdealMatchIs

----
(* Scoring: the row.                                                         *)

\* What a score makes of weights, which are a variable of the model.
Avail(w, score) == Sum([c \in Score!Scored(score) |-> w[c]], Score!Scored(score))
Points(w, score) == Sum([c \in Score!Scored(score) |-> w[c] * score[c]], Score!Scored(score))
FinalOf(w, score) == IF Avail(w, score) = 0 THEN 0 ELSE Score!Rounded(Points(w, score), Avail(w, score))

Factor(f, c, agents, team) == Score!Coverage(f, c, team) * Score!Diversity(c, agents)
Backed(w, f, score, agents, team) ==
  Sum([c \in Score!Scored(score) |-> w[c] * Factor(f, c, agents, team)], Score!Scored(score))
Whole(w) == Sum(w, Score!Categories)
ConfidenceOf(w, f, score, agents, team) ==
  IF Whole(w) = 0 THEN 0 ELSE Score!Rounded(Backed(w, f, score, agents, team), 10 * Whole(w))

PersonsOf(f, team) == [p \in team |-> Score!PersonScore(f, p)]
ScoresOf(s, f, agents) == Score!Scores(s, f, PersonsOf(f, s.team), agents)
RowOf(w, s, q, agents) ==
  [persons |-> PersonsOf(Score!Features(s, q), s.team),
   scores |-> ScoresOf(s, Score!Features(s, q), agents),
   final |-> FinalOf(w, ScoresOf(s, Score!Features(s, q), agents)),
   confidence |-> ConfidenceOf(w, Score!Features(s, q), ScoresOf(s, Score!Features(s, q), agents), agents, s.team)]

WeightsOK(w) == w \in [Score!Categories -> Nat]
AgentsOK(v) == v \in [score : {-1, 0, 900}, kinds : {0, 1, 2}]
ScoresOK(score) == \A c \in Score!Categories : score[c] \in Cell(1000)

LEMMA RowIs ==
  ASSUME WeightsOK(weights), NEW s, NEW q, NEW agents
  PROVE  Score!Row(s, q, agents) = RowOf(weights, s, q, agents)
<1> DEFINE f == Score!Features(s, q)
           score == ScoresOf(s, f, agents)
           team == s.team
<1>1. Score!Final(score) = FinalOf(weights, score)
  <2> HIDE DEF score
  <2>1. Score!SumFunction([c \in Score!Scored(score) |-> weights[c] * score[c]]) = Points(weights, score)
    BY SumFunctionIs DEF Points
  <2>2. Score!AvailableWeight(score) = Avail(weights, score)
    BY SumFunctionIs DEF Avail, Score!AvailableWeight
  <2> QED BY <2>1, <2>2 DEF Score!Final, FinalOf
<1>2. Score!Confidence(f, score, agents, team) = ConfidenceOf(weights, f, score, agents, team)
  <2> HIDE DEF score, f, team
  <2>1. Score!SumFunction([c \in Score!Scored(score) |->
          weights[c] * (Score!Coverage(f, c, team) * Score!Diversity(c, agents))]) = Backed(weights, f, score, agents, team)
    BY SumFunctionIs DEF Backed, Factor
  <2>2. Score!OfAll(score) = Whole(weights)
    <3>1. DOMAIN weights = Score!Categories
      BY DEF WeightsOK
    <3> QED BY <3>1, SumFunctionIs DEF Whole, Score!OfAll
  <2> QED BY <2>1, <2>2 DEF Score!Confidence, ConfidenceOf
<1> QED BY <1>1, <1>2 DEF Score!Row, RowOf, PersonsOf, ScoresOf

LEMMA SumSame ==
  ASSUME NEW v, NEW w, NEW S, IsFiniteSet(S), \A x \in S : v[x] \in Int /\ w[x] = v[x]
  PROVE  Sum(v, S) = Sum(w, S)
<1> DEFINE i == 1
<1>1. i \in Int /\ Ints(v, S) /\ Ints(w, S) /\ (\A x \in S : i * v[x] <= i * w[x]) /\ (\A x \in S : i * w[x] <= i * v[x])
  BY DEF Ints
<1>2. Sum(v, S) \in Int /\ Sum(w, S) \in Int
  BY <1>1, SumIsInt
<1> HIDE DEF i
<1>3. i * Sum(v, S) <= i * Sum(w, S)
  BY <1>1, SumsCompare
<1>4. i * Sum(w, S) <= i * Sum(v, S)
  BY <1>1, SumsCompare
<1> QED BY <1>2, <1>3, <1>4 DEF i

LEMMA ScoredIs ==
  ASSUME NEW score, ScoresOK(score)
  PROVE  /\ Score!Scored(score) \in SUBSET Score!Categories /\ IsFiniteSet(Score!Scored(score))
         /\ \A c \in Score!Scored(score) : score[c] \in Int /\ 0 <= score[c] /\ score[c] <= 1000
<1>1. Score!Scored(score) \in SUBSET Score!Categories
  BY DEF Score!Scored
<1>2. IsFiniteSet(Score!Scored(score))
  BY <1>1, NamesAreFinite, FS_Subset
<1>3. ASSUME NEW c \in Score!Scored(score) PROVE score[c] \in Int /\ 0 <= score[c] /\ score[c] <= 1000
  <2>1. score[c] \in Cell(1000) /\ Score!Known(score[c])
    BY DEF Score!Scored, ScoresOK
  <2> QED BY <2>1 DEF Cell, Below, Score!Known, Score!Unknown
<1> QED BY <1>1, <1>2, <1>3

\* The final score lies between bounds of the scores that count.
LEMMA FinalBetween ==
  ASSUME NEW w, WeightsOK(w), NEW score, ScoresOK(score), NEW m \in Int, NEW n \in Int,
         \A c \in Score!Scored(score) : w[c] > 0 => m <= score[c] /\ score[c] <= n
  PROVE  /\ Avail(w, score) \in Nat
         /\ Avail(w, score) # 0 => FinalOf(w, score) \in Int /\ m <= FinalOf(w, score) /\ FinalOf(w, score) <= n
         /\ \A c \in Score!Scored(score) : w[c] > 0 => Avail(w, score) # 0
<1> DEFINE S == Score!Scored(score)
           u == [c \in S |-> w[c]]
           v == [c \in S |-> w[c] * score[c]]
<1>1. ASSUME NEW c \in S
      PROVE  u[c] \in Nat /\ u[c] = w[c] /\ v[c] \in Int /\ m * u[c] <= v[c] /\ v[c] <= n * u[c]
  <2> DEFINE x == score[c]
             y == w[c]
  <2>1. x \in Int /\ y \in Nat
    BY ScoredIs DEF WeightsOK
  <2>2. y > 0 => m <= x /\ x <= n
    OBVIOUS
  <2>3. u[c] = y /\ v[c] = y * x
    OBVIOUS
  <2> HIDE DEF x, y, u, v
  <2>4. y * x \in Int /\ m * y <= y * x /\ y * x <= n * y
    <3>1. CASE y = 0
      BY <2>1, <3>1
    <3>2. CASE y # 0
      <4>1. m <= x /\ x <= n
        BY <2>1, <2>2, <3>2
      <4>2. y * m <= y * x /\ y * x <= y * n /\ y * x \in Int
        BY <2>1, <4>1, Times
      <4>3. y * m = m * y /\ y * n = n * y
        BY <2>1
      <4> QED BY <4>2, <4>3
    <3> QED BY <3>1, <3>2
  <2> QED BY <2>1, <2>3, <2>4 DEF y
<1>2. IsFiniteSet(S)
  BY ScoredIs
<1>3. Avail(w, score) = Sum(u, S) /\ Points(w, score) = Sum(v, S)
  BY DEF Avail, Points
<1> HIDE DEF S, u, v
<1> DEFINE b == Avail(w, score)
           a == Points(w, score)
<1>4. b \in Nat /\ a \in Int /\ m * b <= a /\ a <= n * b
  BY <1>1, <1>2, <1>3, WeightedBetween
<1>5. ASSUME NEW c \in S, w[c] > 0 PROVE b # 0
  <2>1. \A x \in S : u[x] \in Nat
    BY <1>1
  <2>2. u[c] <= b
    BY <1>2, <1>3, <2>1, SumHas
  <2> HIDE DEF b
  <2> QED BY <1>1, <1>4, <1>5, <2>2
<1>6. b # 0 => FinalOf(w, score) = Score!Rounded(a, b)
  BY DEF FinalOf
<1> HIDE DEF a, b
<1>7. ASSUME b # 0 PROVE Score!Rounded(a, b) \in Int /\ m <= Score!Rounded(a, b) /\ Score!Rounded(a, b) <= n
  <2>1. b > 0 /\ b * m <= a /\ a <= b * n
    BY <1>4, <1>7
  <2> QED BY <1>4, <2>1, RoundedBetween
<1> QED BY <1>4, <1>5, <1>6, <1>7 DEF b, S

\* What a category requires.
LEMMA RequiredIs ==
  ASSUME NEW c \in DOMAIN Score!Required
  PROVE  /\ Score!Required[c] \in SUBSET FeatureNames /\ IsFiniteSet(Score!Required[c])
         /\ Cardinality(Score!Required[c]) \in Nat /\ Cardinality(Score!Required[c]) > 0
<1>1. Score!Required[c] \in SUBSET FeatureNames /\ Score!Required[c] # {}
  BY DEF Score!Required, FeatureNames
<1>2. IsFiniteSet(Score!Required[c])
  BY <1>1, NamesAreFinite, FS_Subset
<1> DEFINE n == Cardinality(Score!Required[c])
<1>3. n \in Nat /\ n # 0
  BY <1>1, <1>2, FS_CardinalityType, FS_EmptySet
<1> HIDE DEF n
<1>4. n > 0
  BY <1>3
<1> QED BY <1>1, <1>2, <1>3, <1>4 DEF n

FilledIn(f, c, p) == {k \in Score!Required[c] : Score!Known(f[p][k])}
Filled(f, c, team) == [p \in team |-> Cardinality(FilledIn(f, c, p))]
Places(c, team) == Cardinality(team) * Cardinality(Score!Required[c])

LEMMA FilledIs ==
  ASSUME NEW f, NEW c \in DOMAIN Score!Required, NEW team \in SUBSET Members, team # {}
  PROVE  /\ Score!Coverage(f, c, team) = (100 * Sum(Filled(f, c, team), team)) \div Places(c, team)
         /\ \A p \in team : Filled(f, c, team)[p] \in Nat /\ Filled(f, c, team)[p] <= Cardinality(Score!Required[c])
         /\ Places(c, team) \in Nat /\ Places(c, team) > 0
         /\ Sum(Filled(f, c, team), team) \in Nat /\ Sum(Filled(f, c, team), team) <= Places(c, team)
<1> DEFINE r == Cardinality(Score!Required[c])
           n == Cardinality(team)
           v == Filled(f, c, team)
           one == [p \in team |-> 1]
<1>1. Score!Coverage(f, c, team) = (100 * Sum(v, team)) \div Places(c, team)
  <2>1. DOMAIN v = team
    BY DEF Filled
  <2>2. Score!SumFunction(v) = Sum(v, team)
    BY <2>1, SumFunctionIs
  <2>3. v = [p \in team |-> Score!Cardinality({k \in Score!Required[c] : Score!Known(f[p][k])})]
    BY DEF Filled, FilledIn, Score!Cardinality, Cardinality
  <2>4. Score!Coverage(f, c, team) = (100 * Score!SumFunction(v)) \div Places(c, team)
    BY <2>3 DEF Score!Coverage, Places, Score!Cardinality, Cardinality
  <2> HIDE DEF v
  <2> QED BY <2>2, <2>4
<1>2. ASSUME NEW p \in team PROVE v[p] \in Nat /\ v[p] <= r
  <2>1. FilledIn(f, c, p) \in SUBSET Score!Required[c]
    BY DEF FilledIn
  <2>2. Cardinality(FilledIn(f, c, p)) <= r /\ IsFiniteSet(FilledIn(f, c, p))
    BY <2>1, RequiredIs, FS_Subset
  <2>3. Cardinality(FilledIn(f, c, p)) \in Nat
    BY <2>2, FS_CardinalityType
  <2>4. v[p] = Cardinality(FilledIn(f, c, p))
    BY DEF Filled
  <2> QED BY <2>2, <2>3, <2>4
<1>3. r \in Nat /\ r > 0
  BY RequiredIs
<1>4. n \in Nat /\ n # 0 /\ IsFiniteSet(team)
  BY TeamIs, FS_CardinalityType, FS_EmptySet
<1>5. Places(c, team) = n * r
  BY DEF Places
<1>6. Sum(one, team) = n /\ \A p \in team : one[p] = 1
  BY <1>4, SumOfOnes
<1> HIDE DEF r, n, v, one
<1>7. n * r \in Nat /\ n * r > 0
  <2>1. n >= 1 /\ r >= 1
    BY <1>3, <1>4
  <2>2. n * 1 <= n * r /\ n * r \in Int
    BY <1>3, <1>4, <2>1, Times
  <2> DEFINE x == n * r
  <2>3. x \in Int /\ n <= x
    BY <1>4, <2>2
  <2> HIDE DEF x
  <2>4. x \in Nat /\ x > 0
    BY <1>4, <2>1, <2>3
  <2> QED BY <2>4 DEF x
<1>8. Sum(v, team) \in Nat /\ Sum(v, team) <= n * r
  <2> DEFINE lo == 0
  <2>1. /\ lo \in Int /\ r \in Int /\ IsFiniteSet(team)
        /\ \A p \in team : one[p] \in Nat /\ v[p] \in Int /\ lo * one[p] <= v[p] /\ v[p] <= r * one[p]
    BY <1>2, <1>3, <1>4, <1>6
  <2> HIDE DEF lo
  <2>2. /\ Sum(v, team) \in Int /\ lo * Sum(one, team) <= Sum(v, team)
        /\ Sum(v, team) <= r * Sum(one, team)
    BY ONLY <2>1, WeightedBetween
  <2>3. lo * n = 0 /\ r * n = n * r
    BY <1>3, <1>4 DEF lo
  <2> QED BY <1>6, <2>2, <2>3
<1> QED BY <1>1, <1>2, <1>5, <1>7, <1>8 DEF r, n, v

LEMMA CoverageIs ==
  ASSUME NEW f, NEW c \in Score!Categories, NEW team \in SUBSET Members
  PROVE  Score!Coverage(f, c, team) \in Below(100)
<1>1. CASE c \notin DOMAIN Score!Required \/ team = {}
  <2>1. Score!Coverage(f, c, team) = 100
    BY <1>1 DEF Score!Coverage
  <2> QED BY <2>1 DEF Below
<1>2. CASE c \in DOMAIN Score!Required /\ team # {}
  <2> DEFINE b == Places(c, team)
             x == Sum(Filled(f, c, team), team)
             a == 100 * x
  <2>1. b \in Nat /\ b > 0 /\ x \in Nat /\ x <= b /\ Score!Coverage(f, c, team) = a \div b
    BY <1>2, FilledIs
  <2> HIDE DEF b, x
  <2>2. a \in Int /\ b * 0 <= a /\ a < b * 100 + b
    BY <2>1
  <2> HIDE DEF a
  <2>3. a \div b \in Int /\ 0 <= a \div b /\ a \div b <= 100
    BY <2>1, <2>2, Quotient, QuotientAtLeast, QuotientAtMost
  <2> QED BY <2>1, <2>3 DEF Below
<1> QED BY <1>1, <1>2

LEMMA CoverageGrows ==
  ASSUME NEW team \in SUBSET Members, NEW f, NEW g, Fuller(f, g, team), NEW c \in Score!Categories
  PROVE  Score!Coverage(f, c, team) <= Score!Coverage(g, c, team)
<1>1. CASE c \notin DOMAIN Score!Required \/ team = {}
  <2>1. Score!Coverage(f, c, team) = 100 /\ Score!Coverage(g, c, team) = 100
    BY <1>1 DEF Score!Coverage
  <2> QED BY <2>1
<1>2. CASE c \in DOMAIN Score!Required /\ team # {}
  <2> DEFINE b == Places(c, team)
             v == Filled(f, c, team)
             w == Filled(g, c, team)
             i == 1
  <2>1. ASSUME NEW p \in team PROVE v[p] \in Int /\ w[p] \in Int /\ i * v[p] <= i * w[p]
    <3>1. FilledIn(f, c, p) \in SUBSET FilledIn(g, c, p)
      <4>1. p \in Score!People /\ Score!Required[c] \in SUBSET FeatureNames
        BY <1>2, TeamIs, RequiredIs
      <4> QED BY <4>1 DEF FilledIn, Fuller
    <3>2. IsFiniteSet(FilledIn(g, c, p))
      <4>1. FilledIn(g, c, p) \in SUBSET Score!Required[c]
        BY DEF FilledIn
      <4> QED BY <1>2, <4>1, RequiredIs, FS_Subset
    <3>3. Cardinality(FilledIn(f, c, p)) <= Cardinality(FilledIn(g, c, p))
      BY <3>1, <3>2, FS_Subset
    <3>4. v[p] = Cardinality(FilledIn(f, c, p)) /\ w[p] = Cardinality(FilledIn(g, c, p))
      BY DEF Filled
    <3>5. v[p] \in Nat /\ w[p] \in Nat
      <4>1. v[p] \in Nat
        BY <1>2, FilledIs
      <4>2. w[p] \in Nat
        BY <1>2, FilledIs
      <4> QED BY <4>1, <4>2
    <3> HIDE DEF v, w
    <3>6. v[p] <= w[p]
      BY <3>3, <3>4
    <3> QED BY <3>5, <3>6
  <2>2. b \in Nat /\ b > 0 /\ Score!Coverage(f, c, team) = (100 * Sum(v, team)) \div b /\ Sum(v, team) \in Nat
    BY <1>2, FilledIs
  <2>3. Score!Coverage(g, c, team) = (100 * Sum(w, team)) \div b /\ Sum(w, team) \in Nat
    BY <1>2, FilledIs
  <2>4. i \in Int /\ IsFiniteSet(team) /\ Ints(v, team) /\ Ints(w, team)
    BY <2>1, TeamIs DEF Ints
  <2>5. i * Sum(v, team) <= i * Sum(w, team)
    <3> HIDE DEF v, w, i
    <3> QED BY <2>1, <2>4, SumsCompare
  <2> HIDE DEF v, w, b
  <2> DEFINE x == 100 * Sum(v, team)
             y == 100 * Sum(w, team)
  <2>6. x \in Int /\ y \in Int /\ x <= y
    BY <2>2, <2>3, <2>5
  <2>7. Score!Coverage(f, c, team) = x \div b /\ Score!Coverage(g, c, team) = y \div b
    BY <2>2, <2>3
  <2> HIDE DEF x, y
  <2> QED BY <2>2, <2>6, <2>7, QuotientGrows
<1> QED BY <1>1, <1>2

LEMMA FactorIs ==
  ASSUME NEW f, NEW c \in Score!Categories, NEW v, AgentsOK(v), NEW team \in SUBSET Members
  PROVE  Factor(f, c, v, team) \in Nat /\ Factor(f, c, v, team) <= 1000
<1> DEFINE x == Score!Coverage(f, c, team)
           y == Score!Diversity(c, v)
<1>1. x \in Nat /\ x <= 100
  BY CoverageIs DEF Below
<1>2. y \in {5, 8, 10}
  BY DEF Score!Diversity
<1>3. Factor(f, c, v, team) = x * y
  BY DEF Factor
<1> HIDE DEF x, y
<1>4. x * 5 <= 500 /\ x * 8 <= 800 /\ x * 10 <= 1000 /\ {x * 5, x * 8, x * 10} \in SUBSET Nat
  BY <1>1
<1>5. CASE y = 5
  BY <1>3, <1>4, <1>5
<1>6. CASE y = 8
  BY <1>3, <1>4, <1>6
<1>7. CASE y = 10
  BY <1>3, <1>4, <1>7
<1> QED BY <1>2, <1>5, <1>6, <1>7

LEMMA FactorGrows ==
  ASSUME NEW team \in SUBSET Members, NEW f, NEW g, Fuller(f, g, team), NEW c \in Score!Categories,
         NEW u, AgentsOK(u), NEW v, AgentsOK(v), u.kinds <= v.kinds
  PROVE  Factor(f, c, u, team) <= Factor(g, c, v, team)
<1> DEFINE x == Score!Coverage(f, c, team)
           y == Score!Diversity(c, u)
           a == Score!Coverage(g, c, team)
           b == Score!Diversity(c, v)
<1>1. x \in Nat /\ a \in Nat /\ x <= a
  <2>1. x \in Below(100) /\ a \in Below(100) /\ x <= a
    BY CoverageIs, CoverageGrows
  <2> HIDE DEF x, a
  <2> QED BY <2>1 DEF Below
<1>2. y \in Nat /\ b \in Nat /\ y <= b
  <2>1. u.kinds \in {0, 1, 2} /\ v.kinds \in {0, 1, 2}
    BY DEF AgentsOK
  <2> QED BY <2>1 DEF Score!Diversity
<1>3. Factor(f, c, u, team) = x * y /\ Factor(g, c, v, team) = a * b
  BY DEF Factor
<1> HIDE DEF x, y, a, b
<1>4. x * y <= x * b /\ x * y \in Int /\ x * b \in Int
  BY <1>1, <1>2, Times
<1>5. b * x <= b * a /\ b * x = x * b /\ b * a = a * b /\ a * b \in Int
  BY <1>1, <1>2, Times
<1> QED BY <1>3, <1>4, <1>5

LEMMA BackedIs ==
  ASSUME NEW w, WeightsOK(w), NEW f, NEW score, ScoresOK(score), NEW v, AgentsOK(v),
         NEW team \in SUBSET Members
  PROVE  /\ Backed(w, f, score, v, team) \in Nat /\ Whole(w) \in Nat
         /\ Backed(w, f, score, v, team) <= 1000 * Whole(w)
         /\ \A c \in Score!Scored(score) : w[c] * Factor(f, c, v, team) \in Nat
<1> DEFINE S == Score!Scored(score)
           u == [c \in S |-> w[c]]
           given == [c \in S |-> w[c] * Factor(f, c, v, team)]
<1>1. IsFiniteSet(S) /\ S \in SUBSET Score!Categories
  BY ScoredIs
<1>2. ASSUME NEW c \in S
      PROVE  /\ u[c] \in Nat /\ u[c] = w[c] /\ given[c] = w[c] * Factor(f, c, v, team)
             /\ given[c] \in Int /\ 0 * u[c] <= given[c] /\ given[c] <= 1000 * u[c]
  <2> DEFINE x == Factor(f, c, v, team)
             y == w[c]
  <2>1. x \in Nat /\ x <= 1000 /\ y \in Nat
    BY <1>1, FactorIs DEF WeightsOK
  <2>2. u[c] = y /\ given[c] = y * x
    OBVIOUS
  <2>3. y = w[c] /\ y * x = w[c] * Factor(f, c, v, team)
    OBVIOUS
  <2> HIDE DEF x, y, u, given
  <2>4. y * 0 <= y * x /\ y * x <= y * 1000 /\ y * x \in Int
    BY <2>1, Times
  <2>5. y * 0 = 0 * y /\ y * 1000 = 1000 * y
    BY <2>1
  <2>6. given[c] \in Int /\ 0 * u[c] <= given[c] /\ given[c] <= 1000 * u[c]
    BY <2>2, <2>4, <2>5
  <2> QED BY <2>1, <2>2, <2>3, <2>6
<1>3. Backed(w, f, score, v, team) = Sum(given, S)
  BY DEF Backed
<1> HIDE DEF S, u, given
<1>4. Sum(given, S) \in Nat /\ Sum(u, S) \in Nat /\ Sum(given, S) <= 1000 * Sum(u, S)
  <2> DEFINE lo == 0
             hi == 1000
  <2>1. lo \in Int /\ hi \in Int
    OBVIOUS
  <2>2. \A c \in S : u[c] \in Nat /\ given[c] \in Int /\ lo * u[c] <= given[c] /\ given[c] <= hi * u[c]
    BY <1>2
  <2> HIDE DEF lo, hi
  <2>3. /\ Sum(u, S) \in Nat /\ Sum(given, S) \in Int
        /\ lo * Sum(u, S) <= Sum(given, S) /\ Sum(given, S) <= hi * Sum(u, S)
    BY ONLY <1>1, <2>1, <2>2, WeightedBetween
  <2> QED BY <2>3 DEF lo, hi
<1>5. Sum(u, S) = Sum(w, S)
  <2>1. \A c \in S : u[c] \in Int /\ w[c] = u[c]
    BY <1>2
  <2> QED BY <1>1, <2>1, SumSame
<1>6. Sum(w, S) <= Whole(w) /\ Whole(w) \in Nat
  <2>1. \A c \in Score!Categories : w[c] \in Nat
    BY DEF WeightsOK
  <2> QED BY <1>1, <2>1, NamesAreFinite, SumGrows DEF Whole
<1>7. \A c \in S : w[c] * Factor(f, c, v, team) \in Nat
  <2> SUFFICES ASSUME NEW c \in S PROVE w[c] * Factor(f, c, v, team) \in Nat
    OBVIOUS
  <2>1. w[c] \in Nat /\ Factor(f, c, v, team) \in Nat
    BY <1>1, FactorIs DEF WeightsOK
  <2> QED BY <2>1
<1> QED BY <1>3, <1>4, <1>5, <1>6, <1>7 DEF S

LEMMA ConfidenceIs ==
  ASSUME NEW w, WeightsOK(w), NEW f, NEW score, ScoresOK(score), NEW v, AgentsOK(v),
         NEW team \in SUBSET Members
  PROVE  ConfidenceOf(w, f, score, v, team) \in Below(100)
<1> DEFINE a == Backed(w, f, score, v, team)
           n == Whole(w)
           b == 10 * n
           lo == 0
           hi == 100
<1>1. a \in Nat /\ n \in Nat /\ a <= 1000 * n
  BY BackedIs
<1>2. ConfidenceOf(w, f, score, v, team) = IF n = 0 THEN 0 ELSE Score!Rounded(a, b)
  BY DEF ConfidenceOf
<1> HIDE DEF a, n
<1>3. CASE n = 0
  BY <1>2, <1>3 DEF Below
<1>4. CASE n # 0
  <2>1. a \in Int /\ b \in Nat /\ b > 0 /\ b * lo <= a /\ a <= b * hi /\ lo \in Int /\ hi \in Int
    BY <1>1, <1>4
  <2> HIDE DEF b, lo, hi
  <2>2. Score!Rounded(a, b) \in Int /\ lo <= Score!Rounded(a, b) /\ Score!Rounded(a, b) <= hi
    BY <2>1, RoundedBetween
  <2> QED BY <1>2, <1>4, <2>2 DEF Below, lo, hi
<1> QED BY <1>3, <1>4

\* The confidence grows with what is filled in, what has a score and the kinds
\* of sources.
LEMMA ConfidenceIsKept ==
  ASSUME NEW w, WeightsOK(w), NEW team \in SUBSET Members, NEW f, NEW g, Fuller(f, g, team),
         NEW score, ScoresOK(score), NEW more, ScoresOK(more), Score!Scored(score) \subseteq Score!Scored(more),
         NEW u, AgentsOK(u), NEW v, AgentsOK(v), u.kinds <= v.kinds
  PROVE  ConfidenceOf(w, f, score, u, team) <= ConfidenceOf(w, g, more, v, team)
<1> DEFINE S == Score!Scored(score)
           T == Score!Scored(more)
           x == [c \in S |-> w[c] * Factor(f, c, u, team)]
           y == [c \in T |-> w[c] * Factor(g, c, v, team)]
           a == Backed(w, f, score, u, team)
           b == Backed(w, g, more, v, team)
           n == Whole(w)
<1>1. IsFiniteSet(S) /\ S \in SUBSET Score!Categories /\ S \in SUBSET T
  BY ScoredIs
<1>2. IsFiniteSet(T) /\ T \in SUBSET Score!Categories
  BY ScoredIs
<1>3. a = Sum(x, S) /\ b = Sum(y, T)
  BY DEF Backed
<1>0. /\ b \in Nat /\ n \in Nat
      /\ \A c \in T : w[c] * Factor(g, c, v, team) \in Nat
  <2>1. Backed(w, g, more, v, team) \in Nat /\ Whole(w) \in Nat
        /\ \A c \in Score!Scored(more) : w[c] * Factor(g, c, v, team) \in Nat
    <3> HIDE DEF S, T, x, y, a, b, n
    <3> QED BY ONLY BackedIs, WeightsOK(w), team \in SUBSET Members, ScoresOK(more), AgentsOK(v)
  <2> QED BY <2>1
<1>4. \A c \in S : x[c] \in Nat
  BY BackedIs
<1>5. \A c \in T : y[c] \in Nat
  BY <1>0
<1>6. ASSUME NEW c \in S PROVE x[c] <= y[c]
  <2> DEFINE p == Factor(f, c, u, team)
             q == Factor(g, c, v, team)
             k == w[c]
  <2>1. p \in Nat /\ q \in Nat
    BY <1>1, FactorIs
  <2>2. p <= q
    BY <1>1, FactorGrows
  <2>3. k \in Nat
    BY <1>1 DEF WeightsOK
  <2>4. x[c] = k * p /\ y[c] = k * q
    BY <1>1
  <2> HIDE DEF p, q, k, x, y
  <2> QED BY <2>1, <2>2, <2>3, <2>4, Times
<1>7. a \in Nat /\ n \in Nat
  <2>1. Backed(w, f, score, u, team) \in Nat /\ Whole(w) \in Nat
        /\ \A c \in Score!Scored(score) : w[c] * Factor(f, c, u, team) \in Nat
    <3> HIDE DEF S, T, x, y, a, b, n
    <3> QED BY ONLY BackedIs, WeightsOK(w), team \in SUBSET Members, ScoresOK(score), AgentsOK(u)
  <2> QED BY <2>1
<1>8. b \in Nat
  BY <1>0
<1>9. /\ ConfidenceOf(w, f, score, u, team) = IF n = 0 THEN 0 ELSE Score!Rounded(a, 10 * n)
      /\ ConfidenceOf(w, g, more, v, team) = IF n = 0 THEN 0 ELSE Score!Rounded(b, 10 * n)
  BY DEF ConfidenceOf
<1> HIDE DEF S, T, x, y, a, b, n
<1>10. a <= b
  <2>1. Sum(y, S) \in Nat /\ Sum(y, S) <= b
    BY <1>1, <1>2, <1>3, <1>5, SumGrows
  <2> DEFINE i == 1
  <2>2. i \in Int /\ Ints(x, S) /\ Ints(y, S) /\ \A c \in S : i * x[c] <= i * y[c]
    BY <1>1, <1>4, <1>5, <1>6 DEF Ints
  <2> HIDE DEF i
  <2>3. i * Sum(x, S) <= i * Sum(y, S)
    BY <1>1, <2>2, SumsCompare
  <2> QED BY <1>3, <1>7, <1>8, <2>1, <2>3 DEF i
<1>11. CASE n = 0
  <2>1. ConfidenceOf(w, f, score, u, team) = 0 /\ ConfidenceOf(w, g, more, v, team) = 0
    BY <1>9, <1>11
  <2> QED BY <2>1
<1>12. CASE n # 0
  <2> DEFINE d == 10 * n
  <2>1. d \in Nat /\ d > 0 /\ a \in Int /\ b \in Int
    BY <1>7, <1>8, <1>12
  <2>2. ConfidenceOf(w, f, score, u, team) = Score!Rounded(a, d) /\ ConfidenceOf(w, g, more, v, team) = Score!Rounded(b, d)
    BY <1>9, <1>12
  <2> HIDE DEF d
  <2> QED BY <1>10, <2>1, <2>2, RoundedGrows
<1> QED BY <1>11, <1>12

LEMMA PersonsAre ==
  ASSUME NEW f, FeaturesOK(f), NEW team \in SUBSET Members
  PROVE  /\ \A p \in team : /\ PersonsOf(f, team)[p] = Score!PersonScore(f, p) /\ PersonsOf(f, team)[p] \in Cell(1000)
                               /\ Score!Known(PersonsOf(f, team)[p]) <=> SubKnown(f, p) # {}
         /\ Score!Mixed(PersonsOf(f, team), 4) \in Cell(1000)
         /\ Score!Known(Score!Mixed(PersonsOf(f, team), 4)) <=> \E p \in team : SubKnown(f, p) # {}
<1> DEFINE of == PersonsOf(f, team)
<1>0. DOMAIN of = team
  BY DEF PersonsOf
<1>1. ASSUME NEW p \in team
      PROVE  of[p] = Score!PersonScore(f, p) /\ of[p] \in Cell(1000) /\ (Score!Known(of[p]) <=> SubKnown(f, p) # {})
  <2>1. p \in Score!People /\ of[p] = Score!PersonScore(f, p)
    BY TeamIs DEF PersonsOf
  <2>2. Score!PersonScore(f, p) \in Cell(1000)
    BY <2>1, PersonScoreIs
  <2> QED BY <2>1, <2>2, PersonScoreKnown
<1> HIDE DEF of
<1>2. Score!Mixed(of, 4) \in Cell(1000) /\ (Score!Known(Score!Mixed(of, 4)) <=> ScoredOf(of) # {})
  BY <1>0, <1>1, MixedIs
<1>3. ScoredOf(of) # {} <=> \E p \in team : SubKnown(f, p) # {}
  BY <1>0, <1>1 DEF ScoredOf
<1> QED BY <1>1, <1>2, <1>3 DEF of

LEMMA ScoresAre ==
  ASSUME NEW s, s.team \in SUBSET Members, NEW f, FeaturesOK(f), NEW v, AgentsOK(v)
  PROVE  /\ ScoresOK(ScoresOf(s, f, v))
         /\ ScoresOf(s, f, v) =
              [individual_experience |-> Score!Mixed(PersonsOf(f, s.team), 4), schools |-> Score!Schools(f, s.team),
               prior_collaboration |-> Score!PriorCollaboration(s), ideal_match |-> Score!IdealMatch(f, s.team),
               agents |-> v.score]
<1>1. ScoresOf(s, f, v) =
              [individual_experience |-> Score!Mixed(PersonsOf(f, s.team), 4), schools |-> Score!Schools(f, s.team),
               prior_collaboration |-> Score!PriorCollaboration(s), ideal_match |-> Score!IdealMatch(f, s.team),
               agents |-> v.score]
  BY DEF ScoresOf, Score!Scores
<1>2. Score!Mixed(PersonsOf(f, s.team), 4) \in Cell(1000)
  BY PersonsAre
<1>3. Score!Schools(f, s.team) \in Cell(1000)
  BY SchoolsAre
<1>4. Score!PriorCollaboration(s) \in Cell(1000)
  <2>1. Score!PriorCollaboration(s) \in {-1, 900, 650, 300}
    BY DEF Score!PriorCollaboration, Score!Unknown
  <2> QED BY <2>1 DEF Cell, Below
<1>5. Score!IdealMatch(f, s.team) \in Cell(1000)
  BY IdealMatchIs
<1>6. v.score \in Cell(1000)
  <2>1. v.score \in {-1, 0, 900}
    BY DEF AgentsOK
  <2> QED BY <2>1 DEF Cell, Below
<1>7. ScoresOK(ScoresOf(s, f, v))
  BY <1>1, <1>2, <1>3, <1>4, <1>5, <1>6 DEF ScoresOK, Score!Categories
<1> QED BY <1>1, <1>7

\* What has a score keeps one as more is known of the same team.
LEMMA ScoredStays ==
  ASSUME NEW s, NEW t, s.team \in SUBSET Members, t.team = s.team,
         NEW f, FeaturesOK(f), NEW g, FeaturesOK(g), Fuller(f, g, s.team),
         NEW u, AgentsOK(u), NEW v, AgentsOK(v), Score!Known(u.score) => Score!Known(v.score)
  PROVE  Score!Scored(ScoresOf(s, f, u)) \subseteq Score!Scored(ScoresOf(t, g, v))
<1> SUFFICES ASSUME NEW c \in Score!Categories, Score!Known(ScoresOf(s, f, u)[c])
             PROVE  Score!Known(ScoresOf(t, g, v)[c])
  BY DEF Score!Scored
<1> DEFINE a == ScoresOf(s, f, u)
           b == ScoresOf(t, g, v)
<1>1. a = [individual_experience |-> Score!Mixed(PersonsOf(f, s.team), 4), schools |-> Score!Schools(f, s.team),
           prior_collaboration |-> Score!PriorCollaboration(s), ideal_match |-> Score!IdealMatch(f, s.team),
           agents |-> u.score]
  BY ScoresAre
<1>2. b = [individual_experience |-> Score!Mixed(PersonsOf(g, t.team), 4), schools |-> Score!Schools(g, t.team),
           prior_collaboration |-> Score!PriorCollaboration(t), ideal_match |-> Score!IdealMatch(g, t.team),
           agents |-> v.score]
  BY ScoresAre
<1> HIDE DEF a, b
<1>3. \A p \in s.team : p \in Score!People
  BY TeamIs
<1>4. CASE c = "individual_experience"
  <2>1. PICK p \in s.team : SubKnown(f, p) # {}
    BY <1>1, <1>4, PersonsAre DEF a
  <2>2. GithubParts(f, p) # {} \/ Score!Known(f[p]["zero_to_one_flag"]) \/ Score!Known(f[p]["citations_total"])
    <3>1. "github" \in SubKnown(f, p) \/ "zero_to_one" \in SubKnown(f, p) \/ "papers" \in SubKnown(f, p)
      BY <2>1 DEF SubKnown, SubKeys
    <3> QED BY <1>3, <3>1, SubIs
  <2>3. GithubParts(g, p) # {} \/ Score!Known(g[p]["zero_to_one_flag"]) \/ Score!Known(g[p]["citations_total"])
    <3>1. \A k \in FeatureNames : Score!Known(f[p][k]) => Score!Known(g[p][k])
      BY <1>3 DEF Fuller
    <3>2. GithubParts(f, p) # {} => GithubParts(g, p) # {}
      BY <3>1 DEF GithubParts, FeatureNames
    <3> QED BY <2>2, <3>1, <3>2 DEF FeatureNames
  <2>4. SubKnown(g, p) # {}
    BY <1>3, <2>3, SubIs
  <2>5. Score!Known(Score!Mixed(PersonsOf(g, t.team), 4))
    BY <2>4, PersonsAre
  <2> QED BY <1>2, <1>4, <2>5 DEF b
<1>5. CASE c = "schools"
  <2>1. PICK p \in s.team : Score!Known(f[p]["school_tier"])
    BY <1>1, <1>5, SchoolsAre DEF a
  <2>2. Score!Known(g[p]["school_tier"])
    BY <1>3, <2>1 DEF Fuller, FeatureNames
  <2>3. Score!Known(Score!Schools(g, t.team))
    BY <2>2, SchoolsAre
  <2> QED BY <1>2, <1>5, <2>3 DEF b
<1>6. CASE c = "prior_collaboration"
  <2>1. Score!Known(Score!PriorCollaboration(s))
    BY <1>1, <1>6 DEF a
  <2>2. Score!Known(Score!PriorCollaboration(t))
    BY <2>1 DEF Score!PriorCollaboration, Score!Known, Score!Unknown
  <2> QED BY <1>2, <1>6, <2>2 DEF b
<1>7. CASE c = "ideal_match"
  <2>1. PICK p \in s.team : MatchKeys(f, p) # {}
    BY <1>1, <1>7, IdealMatchIs DEF a
  <2>2. PICK k : k \in MatchKeys(f, p)
    BY <2>1
  <2>3. k \in FeatureNames /\ k \in DOMAIN Targets
    BY <1>3, <2>2, TargetCells
  <2>4. k \in MatchKeys(g, p)
    BY <1>3, <2>2, <2>3 DEF Fuller, MatchKeys
  <2>5. Score!Known(Score!IdealMatch(g, t.team))
    BY <2>4, IdealMatchIs
  <2> QED BY <1>2, <1>7, <2>5 DEF b
<1>8. CASE c = "agents"
  BY <1>1, <1>2, <1>8 DEF a, b
<1> QED BY <1>4, <1>5, <1>6, <1>7, <1>8 DEF Score!Categories

----
(* Scoring: what happens.                                                    *)

ScoreInv ==
  /\ SilverOK(silver) /\ quarter \in Nat /\ Dated(silver, quarter)
  /\ AgentsOK(verdict) /\ WeightsOK(weights)
  /\ row = RowOf(weights, silver, quarter, verdict)

LEMMA ScoreAlone == PartsSpec => Score!Spec
<1>1. PartsInit => Score!Init
  BY DEF PartsInit
<1>2. [PartsNext]_partVars => [Score!Next]_(Score!vars)
  BY DEF PartsNext, Only, partVars, scoreVars, Score!vars
<1> QED BY <1>1, <1>2, PTL DEF PartsSpec, Score!Spec

\* Where all but the stars are as they were.
OnlyStars(s, t) ==
  /\ s.team = t.team /\ s.work = t.work /\ s.dates = t.dates
  /\ s.citations = t.citations /\ s.founder = t.founder /\ s.school = t.school

\* Where all but the citations of p are.
OnlyCitations(s, t, p) ==
  /\ s.team = t.team /\ s.work = t.work /\ s.dates = t.dates
  /\ s.stars = t.stars /\ s.founder = t.founder /\ s.school = t.school
  /\ \A q \in Score!People \ {p} : t.citations[q] = s.citations[q]

\* A step keeps what is known in its types and the row up to date; stars and
\* citations change alone.
ScoreStep ==
  /\ SilverOK(silver') /\ quarter' \in Nat /\ Dated(silver', quarter') /\ AgentsOK(verdict')
  /\ weights' = weights /\ row' = Score!Row(silver', quarter', verdict')
  /\ silver'.stars # silver.stars => quarter' = quarter /\ OnlyStars(silver, silver')
  /\ \A p \in Score!People :
       silver'.citations[p] # silver.citations[p] => quarter' = quarter /\ OnlyCitations(silver, silver', p)

\* One fact of silver replaced, where it may be stars or citations or neither.
LEMMA KnowsMoves ==
  ASSUME ScoreInv, NEW s, SilverOK(s), Dated(s, quarter), Score!Knows(s),
         s.stars # silver.stars => OnlyStars(silver, s),
         \A p \in Score!People : s.citations[p] # silver.citations[p] => OnlyCitations(silver, s, p)
  PROVE  ScoreStep
<1>1. /\ silver' = s /\ quarter' = quarter /\ verdict' = verdict /\ weights' = weights
      /\ row' = Score!Row(s, quarter, verdict)
  BY DEF Score!Knows, Score!Learns
<1>2. quarter \in Nat /\ AgentsOK(verdict)
  BY DEF ScoreInv
<1>3. AgentsOK(verdict')
  BY <1>1, <1>2 DEF AgentsOK
<1>4. SilverOK(silver') /\ Dated(silver', quarter')
  BY <1>1 DEF SilverOK, Dated
<1>5. row' = Score!Row(silver', quarter', verdict')
  BY <1>1
<1> QED BY <1>1, <1>2, <1>3, <1>4, <1>5 DEF ScoreStep

\* The verdict or the time, where silver is as it was.
LEMMA LearnsMoves ==
  ASSUME ScoreInv, silver' = silver, quarter' \in Nat, quarter <= quarter', AgentsOK(verdict'),
         Score!Learns(silver, quarter', verdict')
  PROVE  ScoreStep
<1>1. weights' = weights /\ row' = Score!Row(silver', quarter', verdict')
  BY DEF Score!Learns
<1>2. SilverOK(silver) /\ Dated(silver, quarter) /\ quarter \in Nat
  BY DEF ScoreInv
<1>3. Dated(silver, quarter')
  <2>1. ASSUME NEW p \in Score!People, NEW c \in silver.work[p] PROVE c.at <= quarter'
    <3>1. c.at \in Int /\ c.at <= quarter
      BY <1>2, <2>1, WorkIs DEF Dated
    <3> QED BY <1>2, <3>1
  <2>2. ASSUME NEW p \in Score!People, NEW d \in silver.dates[p] PROVE d <= quarter'
    <3>1. d \in Int /\ d <= quarter
      <4>1. silver.dates[p] \in Dates
        BY <1>2 DEF SilverOK
      <4> QED BY <1>2, <2>2, <4>1 DEF Dates, Dated
    <3> QED BY <1>2, <3>1
  <2> QED BY <2>1, <2>2 DEF Dated
<1>4. SilverOK(silver') /\ Dated(silver', quarter')
  BY <1>2, <1>3 DEF SilverOK, Dated
<1> QED BY <1>1, <1>4 DEF ScoreStep

LEMMA ScoreMoves ==
  ASSUME ScoreInv, Score!Next
  PROVE  ScoreStep
<1> DEFINE T == [team : SUBSET Members, work : [Score!People -> SUBSET Work], dates : [Score!People -> Dates],
                 stars : [Projects -> Nat], citations : [Score!People -> Nat \cup {-1}],
                 founder : [Score!People -> BOOLEAN], school : [Score!People -> Tiers \cup {-1}]]
<1>0. /\ silver \in T /\ quarter \in Nat /\ SilverOK(silver) /\ Dated(silver, quarter)
      /\ verdict \in [score : {-1, 0, 900}, kinds : {0, 1, 2}]
  BY DEF ScoreInv, SilverOK, AgentsOK
<1>1. \A p \in Members : p \in Score!People
  BY ScoreNumbers
<1>2. ASSUME NEW team \in SUBSET Members, Score!Team(team) PROVE ScoreStep
  <2> DEFINE s == [silver EXCEPT !.team = team]
  <2>1. Score!Knows(s)
    BY <1>2 DEF Score!Team
  <2>2. s \in T /\ s.stars = silver.stars /\ s.citations = silver.citations /\ s.work = silver.work /\ s.dates = silver.dates
    BY <1>0
  <2> HIDE DEF s
  <2>3. SilverOK(s) /\ Dated(s, quarter)
    BY <1>0, <2>2 DEF SilverOK, Dated
  <2> QED BY <2>1, <2>2, <2>3, KnowsMoves
\* What a person is known to have worked on.
<1>3. ASSUME NEW p \in Members, NEW w \in SUBSET Work, \A c \in w : c.at <= quarter,
             Score!Knows([silver EXCEPT !.work[p] = w])
      PROVE  ScoreStep
  <2> DEFINE s == [silver EXCEPT !.work[p] = w]
  <2>1. /\ s \in T /\ s.stars = silver.stars /\ s.citations = silver.citations /\ s.dates = silver.dates
        /\ \A q \in Score!People : s.work[q] = IF q = p THEN w ELSE silver.work[q]
    BY <1>0, <1>1
  <2>2. Score!Knows(s)
    BY <1>3
  <2> HIDE DEF s
  <2>3. SilverOK(s) /\ Dated(s, quarter)
    BY <1>0, <1>3, <2>1 DEF SilverOK, Dated
  <2> QED BY <2>1, <2>2, <2>3, KnowsMoves
<1>4. \A p \in Members : \A j : /\ Score!WorkElsewhere(p, j) \in SUBSET Work
                                /\ \A c \in Score!WorkElsewhere(p, j) : c.at <= quarter
  BY <1>0, <1>1 DEF Score!WorkElsewhere, SilverOK, Dated
<1>5. ASSUME NEW p \in Members, NEW c \in Work, Score!Contribution(p, c) PROVE ScoreStep
  <2> DEFINE w == Score!WorkElsewhere(p, c.project) \cup {c}
  <2>1. w \in SUBSET Work /\ \A d \in w : d.at <= quarter
    BY <1>4, <1>5 DEF Score!Contribution
  <2>2. Score!Knows([silver EXCEPT !.work[p] = w])
    BY <1>5 DEF Score!Contribution
  <2> HIDE DEF w
  <2> QED BY <1>3, <2>1, <2>2
<1>6. ASSUME NEW p \in Members, NEW j \in Projects, Score!Unlinked(p, j) PROVE ScoreStep
  <2> DEFINE w == Score!WorkElsewhere(p, j)
  <2>1. w \in SUBSET Work /\ \A d \in w : d.at <= quarter
    BY <1>4
  <2>2. Score!Knows([silver EXCEPT !.work[p] = w])
    BY <1>6 DEF Score!Unlinked
  <2> HIDE DEF w
  <2> QED BY <1>3, <2>1, <2>2
<1>7. ASSUME NEW p \in Members, NEW dates \in {{}, {quarter}}, Score!Dates(p, dates) PROVE ScoreStep
  <2> DEFINE s == [silver EXCEPT !.dates[p] = dates]
  <2>0. dates \in Dates /\ \A d \in dates : d <= quarter
    <3>1. IsFiniteSet({}) /\ IsFiniteSet({quarter})
      BY FS_EmptySet, FS_Singleton, Zenon
    <3>2. quarter \in Int /\ quarter <= quarter
      BY <1>0
    <3> QED BY <3>1, <3>2 DEF Dates
  <2>1. /\ s \in T /\ s.stars = silver.stars /\ s.citations = silver.citations /\ s.work = silver.work
        /\ \A q \in Score!People : s.dates[q] = IF q = p THEN dates ELSE silver.dates[q]
    BY <1>0, <1>1, <2>0
  <2>2. Score!Knows(s)
    BY <1>7 DEF Score!Dates
  <2> HIDE DEF s
  <2>3. SilverOK(s) /\ Dated(s, quarter)
    BY <1>0, <2>0, <2>1 DEF SilverOK, Dated
  <2> QED BY <2>1, <2>2, <2>3, KnowsMoves
<1>8. ASSUME NEW j \in Projects, NEW by \in {7, -7}, Score!Stars(j, by) PROVE ScoreStep
  <2> DEFINE s == [silver EXCEPT !.stars[j] = @ + by]
  <2>0. silver.stars[j] + by \in Nat
    <3>1. silver.stars[j] \in Nat /\ silver.stars[j] + by >= 0
      BY <1>0, <1>8 DEF Score!Stars
    <3> QED BY <3>1
  <2>1. /\ s \in T /\ s.work = silver.work /\ s.citations = silver.citations /\ s.dates = silver.dates
        /\ OnlyStars(silver, s)
    BY <1>0, <2>0 DEF OnlyStars
  <2>2. Score!Knows(s)
    BY <1>8 DEF Score!Stars
  <2> HIDE DEF s
  <2>3. SilverOK(s) /\ Dated(s, quarter)
    BY <1>0, <2>1 DEF SilverOK, Dated
  <2> QED BY <2>1, <2>2, <2>3, KnowsMoves
<1>9. ASSUME NEW p \in Members, NEW by \in {1, -1}, Score!Citations(p, by) PROVE ScoreStep
  <2> DEFINE s == [silver EXCEPT !.citations[p] = @ + by]
  <2>0. silver.citations[p] + by \in Nat
    <3>1. silver.citations[p] \in Nat \cup {-1} /\ silver.citations[p] + by >= 0
      BY <1>0, <1>1, <1>9 DEF Score!Citations
    <3> QED BY <3>1
  <2>1. /\ s \in T /\ s.work = silver.work /\ s.stars = silver.stars /\ s.dates = silver.dates
        /\ \A q \in Score!People : q # p => s.citations[q] = silver.citations[q]
    BY <1>0, <1>1, <2>0
  <2>2. OnlyCitations(silver, s, p)
    BY <1>0, <2>1 DEF OnlyCitations
  <2>3. Score!Knows(s)
    BY <1>9 DEF Score!Citations
  <2> HIDE DEF s
  <2>4. SilverOK(s) /\ Dated(s, quarter)
    BY <1>0, <2>1 DEF SilverOK, Dated
  <2> QED BY <2>1, <2>2, <2>3, <2>4, KnowsMoves
<1>10. ASSUME NEW p \in Members, Score!Founder(p) PROVE ScoreStep
  <2> DEFINE h == [silver.founder EXCEPT ![p] = ~@]
             s == [silver EXCEPT !.founder = h]
  <2>1. h \in [Score!People -> BOOLEAN]
    BY <1>0
  <2>2. Score!Knows(s)
    <3>1. [silver EXCEPT !.founder[p] = ~@] = s
      BY <1>0
    <3>2. Score!Knows([silver EXCEPT !.founder[p] = ~@])
      BY <1>10 DEF Score!Founder
    <3> QED BY <3>1, <3>2
  <2> HIDE DEF h
  <2>3. s \in T /\ s.stars = silver.stars /\ s.citations = silver.citations /\ s.work = silver.work /\ s.dates = silver.dates
    BY <1>0, <2>1
  <2> HIDE DEF s
  <2>4. SilverOK(s) /\ Dated(s, quarter)
    BY <1>0, <2>3 DEF SilverOK, Dated
  <2> QED BY <2>2, <2>3, <2>4, KnowsMoves
<1>11. ASSUME NEW p \in Members, NEW tier \in Tiers \cup {Score!Unknown}, Score!Affiliation(p, tier) PROVE ScoreStep
  <2> DEFINE s == [silver EXCEPT !.school[p] = tier]
  <2>1. s \in T /\ s.stars = silver.stars /\ s.citations = silver.citations /\ s.work = silver.work /\ s.dates = silver.dates
    BY <1>0, <1>1 DEF Score!Unknown
  <2>2. Score!Knows(s)
    BY <1>11 DEF Score!Affiliation
  <2> HIDE DEF s
  <2>3. SilverOK(s) /\ Dated(s, quarter)
    BY <1>0, <2>1 DEF SilverOK, Dated
  <2> QED BY <2>1, <2>2, <2>3, KnowsMoves
<1>12. ASSUME NEW agents \in {Score!NoVerdict} \cup [score : {0, 900}, kinds : 0..2], Score!Verdict(agents)
       PROVE  ScoreStep
  <2>1. verdict' = agents /\ quarter' = quarter /\ silver' = silver /\ Score!Learns(silver, quarter', verdict')
    BY <1>12 DEF Score!Verdict, Score!Learns
  <2>2. agents \in [score : {-1, 0, 900}, kinds : {0, 1, 2}]
    BY <1>12 DEF Score!NoVerdict, Score!Unknown
  <2>3. AgentsOK(verdict')
    BY <2>1, <2>2 DEF AgentsOK
  <2> QED BY <1>0, <2>1, <2>3, LearnsMoves
<1>13. CASE Score!Quarter
  <2>1. verdict' = verdict /\ quarter' = quarter + 1 /\ silver' = silver /\ Score!Learns(silver, quarter', verdict')
    BY <1>13 DEF Score!Quarter, Score!Learns
  <2>2. AgentsOK(verdict')
    BY <1>0, <2>1 DEF AgentsOK
  <2> QED BY <1>0, <2>1, <2>2, LearnsMoves
<1> QED BY <1>2, <1>5, <1>6, <1>7, <1>8, <1>9, <1>10, <1>11, <1>12, <1>13 DEF Score!Next

LEMMA ScoreInvariance == PartsSpec => []ScoreInv
<1>1. Score!Init => ScoreInv
  <2> SUFFICES ASSUME Score!Init PROVE ScoreInv
    OBVIOUS
  <2>1. PICK team \in SUBSET Members : silver = Score!Nothing(team)
    BY DEF Score!Init
  <2>1a. /\ quarter = 0 /\ verdict = [score |-> -1, kinds |-> 0] /\ weights \in WeightRows
         /\ row = Score!Row(silver, quarter, verdict)
    BY DEF Score!Init, Score!NoVerdict, Score!Unknown
  <2>2. WeightsOK(weights)
    <3>1. WeightRows \subseteq [Score!Categories -> Nat]
      BY ScoreAssumption
    <3> QED BY <2>1a, <3>1 DEF WeightsOK
  <2>3. SilverOK(silver)
    <3>1. {} \in Dates
      BY FS_EmptySet DEF Dates
    <3>2. [p \in Score!People |-> FALSE] \in [Score!People -> BOOLEAN]
      OBVIOUS
    <3> QED BY <2>1, <3>1, <3>2 DEF SilverOK, Score!Nothing, Score!Unknown
  <2>4. Dated(silver, quarter)
    BY <2>1 DEF Dated, Score!Nothing
  <2>5. AgentsOK(verdict) /\ quarter \in Nat
    BY <2>1a DEF AgentsOK
  <2>6. row = RowOf(weights, silver, quarter, verdict)
    BY <2>1a, <2>2, RowIs
  <2> QED BY <2>2, <2>3, <2>4, <2>5, <2>6 DEF ScoreInv
<1>2. ScoreInv /\ [Score!Next]_(Score!vars) => ScoreInv'
  <2>1. ASSUME ScoreInv, Score!Next PROVE ScoreInv'
    <3>1. /\ SilverOK(silver') /\ quarter' \in Nat /\ Dated(silver', quarter') /\ AgentsOK(verdict')
          /\ weights' = weights /\ row' = Score!Row(silver', quarter', verdict')
      BY <2>1, ScoreMoves DEF ScoreStep
    <3>2. WeightsOK(weights)
      BY <2>1 DEF ScoreInv
    <3>3. Score!Row(silver', quarter', verdict') = RowOf(weights, silver', quarter', verdict')
      BY <3>2, RowIs
    <3> QED BY <3>1, <3>2, <3>3 DEF ScoreInv
  <2>2. ASSUME ScoreInv, UNCHANGED Score!vars PROVE ScoreInv'
    BY <2>2 DEF ScoreInv, Score!vars
  <2> QED BY <2>1, <2>2
<1> QED BY <1>1, <1>2, ScoreAlone, PTL DEF Score!Spec

LEMMA ScoreRow ==
  ASSUME ScoreInv
  PROVE  /\ FeaturesOK(Score!Features(silver, quarter))
         /\ row.scores = ScoresOf(silver, Score!Features(silver, quarter), verdict) /\ ScoresOK(row.scores)
         /\ row.final = FinalOf(weights, row.scores)
         /\ row.confidence = ConfidenceOf(weights, Score!Features(silver, quarter), row.scores, verdict, silver.team)
         /\ row.persons = PersonsOf(Score!Features(silver, quarter), silver.team) /\ silver.team \in SUBSET Members
<1> DEFINE f == Score!Features(silver, quarter)
<1>1. FeaturesOK(f)
  BY FeaturesAre DEF ScoreInv, FeaturesOK
<1>2. /\ row.scores = ScoresOf(silver, f, verdict) /\ row.persons = PersonsOf(f, silver.team)
      /\ row.final = FinalOf(weights, row.scores)
      /\ row.confidence = ConfidenceOf(weights, f, row.scores, verdict, silver.team)
  BY DEF ScoreInv, RowOf
<1>3. silver.team \in SUBSET Members
  BY DEF ScoreInv, SilverOK
<1>4. ScoresOK(ScoresOf(silver, f, verdict))
  BY <1>1, <1>3, ScoresAre DEF ScoreInv
<1> QED BY <1>1, <1>2, <1>3, <1>4

LEMMA ScoreTyped ==
  ASSUME ScoreInv
  PROVE  Score!TypeOK
<1>1. \A c \in Score!Categories : row.scores[c] \in 0..1000 \cup {Score!Unknown}
  <2>1. \A c \in Score!Categories : row.scores[c] \in Cell(1000)
    BY ScoreRow DEF ScoresOK
  <2> DEFINE n == 1000
  <2>2. n \in Nat /\ \A c \in Score!Categories : row.scores[c] \in Cell(n)
    BY <2>1
  <2> HIDE DEF n
  <2>3. \A c \in Score!Categories : row.scores[c] \in 0..n \cup {-1}
    BY <2>2, BelowIs DEF Cell
  <2> QED BY <2>3 DEF n, Score!Unknown
<1>2. row.final \in 0..1000
  <2>1. WeightsOK(weights) /\ ScoresOK(row.scores) /\ row.final = FinalOf(weights, row.scores)
    BY ScoreRow DEF ScoreInv
  <2> DEFINE lo == 0
             hi == 1000
  <2>2. lo \in Int /\ hi \in Int /\ \A c \in Score!Scored(row.scores) : weights[c] > 0 => lo <= row.scores[c] /\ row.scores[c] <= hi
    BY <2>1, ScoredIs
  <2> HIDE DEF lo, hi
  <2>3. Avail(weights, row.scores) # 0 => row.final \in Int /\ lo <= row.final /\ row.final <= hi
    BY <2>1, <2>2, FinalBetween
  <2>4. Avail(weights, row.scores) = 0 => row.final = 0
    BY <2>1 DEF FinalOf
  <2> QED BY <2>3, <2>4 DEF lo, hi
<1>3. row.confidence \in 0..100
  <2>1. row.confidence \in Below(100)
    BY ScoreRow, ConfidenceIs DEF ScoreInv
  <2> QED BY <2>1 DEF Below
<1> QED BY <1>1, <1>2, <1>3 DEF Score!TypeOK

\* What is not available takes no part in the final score, which lies between
\* the worst and the best of the categories that count (base.py,
\* renormalized_weights and weighted_final), for any silver and weights.
THEOREM FinalWithin == PartsSpec => []FinalIsWithin
<1>1. ScoreInv => Score!FinalIsWithin
  <2> SUFFICES ASSUME ScoreInv PROVE Score!FinalIsWithin
    OBVIOUS
  <2> DEFINE counts == {d \in Score!Scored(row.scores) : weights[d] > 0}
             counting == {row.scores[c] : c \in counts}
             m == Score!Min(counting)
             n == Score!Max(counting)
  <2>1. SUFFICES ASSUME counting # {} PROVE m <= row.final /\ row.final <= n
    BY DEF Score!FinalIsWithin
  <2>2. WeightsOK(weights) /\ ScoresOK(row.scores) /\ row.final = FinalOf(weights, row.scores)
    BY ScoreRow DEF ScoreInv
  <2>3. \A c \in counts : row.scores[c] \in Int /\ 0 <= row.scores[c]
    BY <2>2, ScoredIs
  <2>4. IsFiniteSet(counts)
    <3>1. counts \in SUBSET Score!Scored(row.scores)
      OBVIOUS
    <3>2. IsFiniteSet(Score!Scored(row.scores))
      BY <2>2, ScoredIs
    <3> HIDE DEF counts
    <3> QED BY <3>1, <3>2, FS_Subset
  <2>5. \A c \in Score!Scored(row.scores) : weights[c] > 0 <=> c \in counts
    OBVIOUS
  <2> HIDE DEF counts
  <2>6. IsFiniteSet(counting)
    <3> DEFINE h == [c \in counts |-> row.scores[c]]
    <3>1. h \in Surjection(counts, counting)
      BY DEF Surjection
    <3> HIDE DEF h, counting
    <3> QED BY <2>4, <3>1, FS_Surjection
  <2>7. counting \in SUBSET Nat /\ counting \in SUBSET Int
    BY <2>3
  <2>8. \A c \in counts : row.scores[c] \in counting
    OBVIOUS
  <2>9. counts # {} /\ counts \subseteq Score!Scored(row.scores)
    BY <2>1 DEF counts
  <2> HIDE DEF counting
  <2>10. n \in Int /\ \A x \in counting : x <= n
    BY <2>1, <2>6, <2>7, MaxOf
  <2>11. m \in Int /\ \A x \in counting : m <= x
    <3>1. \E x \in counting : \A y \in counting : x <= y
      BY <2>1, <2>7, CP!MinOf
    <3>2. m \in counting /\ \A y \in counting : m <= y
      BY <3>1 DEF Score!Min
    <3> QED BY <2>7, <3>2
  <2> HIDE DEF m, n
  <2>12. \A c \in Score!Scored(row.scores) : weights[c] > 0 => m <= row.scores[c] /\ row.scores[c] <= n
    BY <2>5, <2>8, <2>10, <2>11
  <2>13. /\ Avail(weights, row.scores) # 0 =>
              FinalOf(weights, row.scores) \in Int /\ m <= FinalOf(weights, row.scores) /\ FinalOf(weights, row.scores) <= n
         /\ \A c \in Score!Scored(row.scores) : weights[c] > 0 => Avail(weights, row.scores) # 0
    BY <2>2, <2>10, <2>11, <2>12, FinalBetween
  <2>14. Avail(weights, row.scores) # 0
    BY <2>5, <2>9, <2>13
  <2> QED BY <2>2, <2>13, <2>14
<1>2. Score!FinalIsWithin => FinalIsWithin
  BY DEF FinalIsWithin
<1> QED BY <1>1, <1>2, ScoreInvariance, PTL

\* What the property asks of a step.
NoGaps ==
  /\ silver'.team = silver.team
  /\ \A p \in silver.team : Score!Held(silver, quarter, p) \subseteq Score!Held(silver', quarter', p)
  /\ Score!Known(verdict.score) => Score!Known(verdict'.score)
  /\ verdict.kinds <= verdict'.kinds

LEMMA ConfidenceStep ==
  ASSUME ScoreInv, ScoreInv', Score!Next, NoGaps
  PROVE  row'.confidence >= row.confidence
<1> DEFINE f == Score!Features(silver, quarter)
           g == Score!Features(silver', quarter')
           a == ScoresOf(silver, f, verdict)
           b == ScoresOf(silver', g, verdict')
           team == silver.team
<1>1. /\ SilverOK(silver) /\ SilverOK(silver') /\ quarter \in Int /\ quarter' \in Int
      /\ Dated(silver, quarter) /\ Dated(silver', quarter')
      /\ WeightsOK(weights) /\ weights' = weights /\ AgentsOK(verdict) /\ AgentsOK(verdict')
  <2>1. ScoreStep
    BY ScoreMoves
  <2>2. SilverOK(silver) /\ quarter \in Nat /\ Dated(silver, quarter) /\ WeightsOK(weights) /\ AgentsOK(verdict)
    BY DEF ScoreInv
  <2>3. SilverOK(silver') /\ quarter' \in Nat /\ Dated(silver', quarter') /\ weights' = weights /\ AgentsOK(verdict')
    BY <2>1 DEF ScoreStep
  <2> QED BY <2>2, <2>3
<1>2. row.confidence = ConfidenceOf(weights, f, a, verdict, team) /\ row'.confidence = ConfidenceOf(weights, g, b, verdict', team)
  BY <1>1 DEF ScoreInv, RowOf, NoGaps
<1>3. FeaturesOK(f) /\ FeaturesOK(g)
  BY <1>1, FeaturesAre DEF FeaturesOK
<1>4. team \in SUBSET Members /\ silver'.team = team
  BY <1>1 DEF SilverOK, NoGaps
<1>5. Fuller(f, g, team)
  <2> SUFFICES ASSUME NEW p \in team, NEW k \in FeatureNames, Score!Known(f[p][k])
               PROVE  Score!Known(g[p][k])
    BY DEF Fuller
  <2>1. p \in Score!People
    BY <1>4, TeamIs
  <2>2. k \in Score!Held(silver, quarter, p)
    BY <2>1, HeldIs
  <2>3. k \in Score!Held(silver', quarter', p)
    BY <2>2 DEF NoGaps
  <2> QED BY <2>1, <2>3, HeldIs
<1> HIDE DEF f, g
<1>6. ScoresOK(a) /\ ScoresOK(b) /\ Score!Scored(a) \subseteq Score!Scored(b)
  <2>1. ScoresOK(a) /\ ScoresOK(b)
    BY <1>1, <1>3, <1>4, ScoresAre
  <2>2. Score!Known(verdict.score) => Score!Known(verdict'.score)
    BY DEF NoGaps
  <2>3. Score!Scored(a) \subseteq Score!Scored(b)
    BY <1>1, <1>3, <1>4, <1>5, <2>2, ScoredStays
  <2> QED BY <2>1, <2>3
<1> HIDE DEF a, b, team
<1>7. ConfidenceOf(weights, f, a, verdict, team) <= ConfidenceOf(weights, g, b, verdict', team)
  <2>1. verdict.kinds <= verdict'.kinds
    BY DEF NoGaps
  <2> QED BY <1>1, <1>4, <1>5, <1>6, <2>1, ConfidenceIsKept
<1>8. ConfidenceOf(weights, f, a, verdict, team) \in Int /\ ConfidenceOf(weights, g, b, verdict', team) \in Int
  BY <1>1, <1>4, <1>6, ConfidenceIs DEF Below
<1> QED BY <1>2, <1>7, <1>8

\* Worse figures never lower the confidence in a score: where the team stays and
\* no feature of a member, no score and no kind of source of the agents is lost,
\* it does not fall, whatever replaces the facts (base.py, run_confidence, and
\* stage_a.py, feature_coverage).
THEOREM ConfidenceKept == PartsSpec => OnlyGapsLowerConfidence
<1> DEFINE Stays == NoGaps => row'.confidence >= row.confidence
<1>1. ScoreInv /\ ScoreInv' /\ [Score!Next]_(Score!vars) => [Stays]_(Score!vars)
  BY ConfidenceStep
<1>2. PartsSpec => [][ScoreInv /\ ScoreInv' /\ [Score!Next]_(Score!vars)]_(Score!vars)
  BY ScoreInvariance, ScoreAlone, PTL DEF Score!Spec
<1> QED BY <1>1, <1>2, PTL DEF OnlyGapsLowerConfidence, Score!OnlyGapsLowerConfidence, NoGaps

LEMMA StarsStep ==
  ASSUME ScoreInv, ScoreInv', Score!Next, silver'.stars # silver.stars, \A j \in Projects : silver'.stars[j] >= silver.stars[j]
  PROVE  row'.scores.ideal_match >= row.scores.ideal_match
<1> DEFINE f == Score!Features(silver, quarter)
           g == Score!Features(silver', quarter)
<1>1. /\ SilverOK(silver) /\ SilverOK(silver') /\ quarter \in Nat /\ Dated(silver, quarter) /\ Dated(silver', quarter)
      /\ AgentsOK(verdict) /\ AgentsOK(verdict') /\ quarter' = quarter /\ OnlyStars(silver, silver')
      /\ silver.team \in SUBSET Members /\ silver'.team = silver.team
      /\ \A j \in Projects : silver.stars[j] <= silver'.stars[j]
  <2>1. ScoreStep
    BY ScoreMoves
  <2>2. quarter' = quarter /\ OnlyStars(silver, silver')
    BY <2>1 DEF ScoreStep
  <2>3. SilverOK(silver) /\ quarter \in Nat /\ Dated(silver, quarter) /\ AgentsOK(verdict)
    BY DEF ScoreInv
  <2>4. SilverOK(silver') /\ Dated(silver', quarter) /\ AgentsOK(verdict')
    BY <2>1, <2>2 DEF ScoreStep
  <2>5. \A j \in Projects : silver.stars[j] \in Nat /\ silver'.stars[j] \in Nat
    BY <2>3, <2>4 DEF SilverOK
  <2>6. \A j \in Projects : silver.stars[j] <= silver'.stars[j]
    BY <2>5
  <2>7. silver.team \in SUBSET Members /\ silver'.team = silver.team
    BY <2>2, <2>3 DEF SilverOK, OnlyStars
  <2> QED BY <2>2, <2>3, <2>4, <2>6, <2>7
<1>2. row.scores = ScoresOf(silver, f, verdict) /\ row'.scores = ScoresOf(silver', g, verdict')
  BY <1>1 DEF ScoreInv, RowOf
<1>3. FeaturesOK(f) /\ FeaturesOK(g)
  BY <1>1, FeaturesAre DEF FeaturesOK
<1>4. ASSUME NEW p \in silver.team, NEW k \in DOMAIN Targets
      PROVE  (Score!Known(f[p][k]) <=> Score!Known(g[p][k])) /\ f[p][k] <= g[p][k]
  <2>1. p \in Score!People /\ k \in {"school_tier", "stars_weighted", "recency_score"}
    BY <1>1, TeamIs, ScoreNumbers
  <2>2. /\ f[p] = [stars_weighted |-> Score!StarsWeighted(silver, p), commits_12mo |-> Score!Commits12mo(silver, p, quarter),
                   zero_to_one_flag |-> Score!ZeroToOne(silver, p), school_tier |-> Score!SchoolTier(silver, p),
                   recency_score |-> Score!Recency(silver, p, quarter), citations_total |-> Score!CitationsTotal(silver, p)]
        /\ g[p] = [stars_weighted |-> Score!StarsWeighted(silver', p), commits_12mo |-> Score!Commits12mo(silver', p, quarter),
                   zero_to_one_flag |-> Score!ZeroToOne(silver', p), school_tier |-> Score!SchoolTier(silver', p),
                   recency_score |-> Score!Recency(silver', p, quarter), citations_total |-> Score!CitationsTotal(silver', p)]
    BY <2>1 DEF Score!Features
  <2>3. f[p] \in FeatureRow
    BY <1>3, <2>1 DEF FeaturesOK
  <2> HIDE DEF f, g
  <2>4. CASE k = "stars_weighted"
    <3>1. silver.work[p] = silver'.work[p] /\ \A j \in Projects : silver.stars[j] <= silver'.stars[j]
      BY <1>1 DEF OnlyStars
    <3>2. Score!StarsWeighted(silver, p) <= Score!StarsWeighted(silver', p)
      BY <1>1, <2>1, <3>1, StarsGrow
    <3>3. Score!Known(Score!StarsWeighted(silver, p)) <=> Score!Known(Score!StarsWeighted(silver', p))
      BY <1>1, <2>1, <3>1, StarsAre
    <3> QED BY <2>2, <2>4, <3>2, <3>3
  <2>5. CASE k \in {"school_tier", "recency_score"}
    <3>1. f[p][k] = g[p][k]
      <4>1. silver'.work = silver.work /\ silver'.dates = silver.dates /\ silver'.school = silver.school
        BY <1>1 DEF OnlyStars
      <4>2. Score!SchoolTier(silver, p) = Score!SchoolTier(silver', p)
        BY <4>1 DEF Score!SchoolTier
      <4>3. Score!Recency(silver, p, quarter) = Score!Recency(silver', p, quarter)
        BY <4>1 DEF Score!Recency
      <4> QED BY <2>2, <2>5, <4>2, <4>3
    <3>2. f[p][k] \in Int
      <4>1. f[p].school_tier \in Cell(100) /\ f[p].recency_score \in Cell(100)
        BY <2>3 DEF FeatureRow
      <4>2. f[p][k] \in Cell(100)
        BY <2>5, <4>1
      <4> QED BY <4>2 DEF Cell, Below
    <3> QED BY <3>1, <3>2
  <2> QED BY <2>1, <2>4, <2>5
<1> HIDE DEF f, g
<1>5. Score!IdealMatch(f, silver.team) <= Score!IdealMatch(g, silver.team)
  BY <1>1, <1>3, <1>4, IdealMatchGrows
<1>6. Score!IdealMatch(f, silver.team) \in Int /\ Score!IdealMatch(g, silver.team) \in Int
  <2>1. Score!IdealMatch(f, silver.team) \in Cell(1000) /\ Score!IdealMatch(g, silver.team) \in Cell(1000)
    BY <1>1, <1>3, IdealMatchIs
  <2> QED BY <2>1 DEF Cell, Below
<1>7. row.scores.ideal_match = Score!IdealMatch(f, silver.team) /\ row'.scores.ideal_match = Score!IdealMatch(g, silver.team)
  <2>1. ScoresOf(silver, f, verdict).ideal_match = Score!IdealMatch(f, silver.team)
    BY DEF ScoresOf, Score!Scores
  <2>2. ScoresOf(silver', g, verdict').ideal_match = Score!IdealMatch(g, silver.team)
    BY <1>1 DEF ScoresOf, Score!Scores
  <2> QED BY <1>2, <2>1, <2>2
<1> QED BY <1>5, <1>6, <1>7

LEMMA CitationsStep ==
  ASSUME ScoreInv, ScoreInv', Score!Next, NEW p \in silver.team,
         Score!Known(silver.citations[p]), silver'.citations[p] > silver.citations[p]
  PROVE  row'.persons[p] >= row.persons[p]
<1> DEFINE f == Score!Features(silver, quarter)
           g == Score!Features(silver', quarter)
           c == "citations_total"
<1>1. /\ SilverOK(silver) /\ SilverOK(silver') /\ quarter \in Nat /\ Dated(silver, quarter) /\ Dated(silver', quarter)
      /\ quarter' = quarter /\ OnlyCitations(silver, silver', p) /\ p \in Score!People
      /\ silver.team \in SUBSET Members /\ silver'.team = silver.team
      /\ silver.citations[p] \in Nat /\ silver'.citations[p] \in Nat /\ silver.citations[p] < silver'.citations[p]
  <2>1. ScoreStep
    BY ScoreMoves
  <2>2. SilverOK(silver) /\ quarter \in Nat /\ Dated(silver, quarter) /\ SilverOK(silver')
    BY <2>1 DEF ScoreInv, ScoreStep
  <2>3. silver.team \in SUBSET Members /\ p \in Score!People
    <3>1. silver.team \in SUBSET Members
      BY <2>2 DEF SilverOK
    <3> QED BY <3>1, TeamIs
  <2>4. silver.citations[p] \in Nat \cup {-1} /\ silver'.citations[p] \in Nat \cup {-1}
    BY <2>2, <2>3 DEF SilverOK
  <2>5. silver.citations[p] \in Nat /\ silver'.citations[p] \in Nat /\ silver.citations[p] < silver'.citations[p]
    BY <2>4 DEF Score!Known, Score!Unknown
  <2>6. quarter' = quarter /\ OnlyCitations(silver, silver', p)
    BY <2>1, <2>3, <2>5 DEF ScoreStep
  <2>7. Dated(silver', quarter)
    BY <2>1, <2>6 DEF ScoreStep
  <2> QED BY <2>2, <2>3, <2>5, <2>6, <2>7 DEF OnlyCitations
<1>2. row.persons = PersonsOf(f, silver.team) /\ row'.persons = PersonsOf(g, silver.team)
  BY <1>1 DEF ScoreInv, RowOf
<1>3. FeaturesOK(f) /\ FeaturesOK(g) /\ p \in Score!People
  BY <1>1, FeaturesAre DEF FeaturesOK
<1>4. ASSUME NEW q \in Score!People
      PROVE  /\ f[q].stars_weighted = g[q].stars_weighted /\ f[q].commits_12mo = g[q].commits_12mo
             /\ f[q].zero_to_one_flag = g[q].zero_to_one_flag
             /\ f[q].citations_total = silver.citations[q] /\ g[q].citations_total = silver'.citations[q]
  <2>1. silver'.work = silver.work /\ silver'.stars = silver.stars /\ silver'.founder = silver.founder
    BY <1>1 DEF OnlyCitations
  <2>2. Score!StarsWeighted(silver, q) = Score!StarsWeighted(silver', q)
    BY <2>1 DEF Score!StarsWeighted
  <2>3. Score!Commits12mo(silver, q, quarter) = Score!Commits12mo(silver', q, quarter)
    BY <2>1 DEF Score!Commits12mo
  <2>4. Score!ZeroToOne(silver, q) = Score!ZeroToOne(silver', q)
    BY <2>1 DEF Score!ZeroToOne
  <2> QED BY <2>2, <2>3, <2>4 DEF Score!Features, Score!CitationsTotal
<1> HIDE DEF f, g
<1>5. silver.citations[p] \in Nat /\ silver'.citations[p] \in Nat /\ silver.citations[p] < silver'.citations[p]
  BY <1>1
<1>6. \A q \in Score!People \ {p} : silver'.citations[q] = silver.citations[q]
  BY <1>1 DEF OnlyCitations
<1>7. Score!Known(f[p][c]) /\ Score!Known(g[p][c])
  BY <1>3, <1>4, <1>5 DEF Score!Known, Score!Unknown
<1>8. Observed(f, c) = Observed(g, c)
  <2>1. \A q \in Score!People : Score!Known(f[q][c]) <=> Score!Known(g[q][c])
    <3>1. ASSUME NEW q \in Score!People, q # p PROVE f[q][c] = g[q][c]
      BY <1>4, <1>6, <3>1
    <3> QED BY <1>7, <3>1
  <2> HIDE DEF c
  <2> QED BY <2>1 DEF Observed
<1>9. AtMost(f, p, c) \in SUBSET AtMost(g, p, c)
  <2> SUFFICES ASSUME NEW q \in Observed(f, c), f[q][c] <= f[p][c] PROVE g[q][c] <= g[p][c]
    BY <1>8 DEF AtMost
  <2>1. q \in Score!People /\ silver.citations[q] \in Nat \cup {-1}
    BY <1>1 DEF Observed, SilverOK
  <2>2. f[q][c] = silver.citations[q] /\ g[q][c] = silver'.citations[q] /\ f[p][c] = silver.citations[p]
        /\ g[p][c] = silver'.citations[p]
    BY <1>3, <1>4, <1>5, <2>1
  <2>3. CASE q = p
    BY <1>5, <2>2, <2>3
  <2>4. CASE q # p
    <3>1. silver'.citations[q] = silver.citations[q]
      BY <1>6, <2>1, <2>4
    <3> HIDE DEF c
    <3> QED BY <1>5, <2>1, <2>2, <3>1
  <2> QED BY <2>3, <2>4
<1>10. Score!Percentile(f, p, c) <= Score!Percentile(g, p, c)
  <2> HIDE DEF c
  <2> DEFINE a == Cardinality(AtMost(f, p, c))
             d == Cardinality(AtMost(g, p, c))
             b == Cardinality(Observed(f, c))
  <2>1. Score!Percentile(f, p, c) = (1000 * a) \div b /\ a \in Nat /\ b \in Nat /\ b > 0
    BY <1>3, <1>7, PercentileIs
  <2>2. Score!Percentile(g, p, c) = (1000 * d) \div b /\ d \in Nat
    BY <1>3, <1>7, <1>8, PercentileIs
  <2>3. a <= d
    <3>1. IsFiniteSet(AtMost(g, p, c))
      <4>1. AtMost(g, p, c) \in SUBSET Score!People
        BY DEF AtMost, Observed
      <4> QED BY <4>1, ScoreNumbers, FS_Subset
    <3> QED BY <1>9, <3>1, FS_Subset
  <2> HIDE DEF a, b, d
  <2> DEFINE x == 1000 * a
             y == 1000 * d
  <2>4. x \in Int /\ y \in Int /\ x <= y
    BY <2>1, <2>2, <2>3
  <2>5. Score!Percentile(f, p, c) = x \div b /\ Score!Percentile(g, p, c) = y \div b
    BY <2>1, <2>2
  <2> HIDE DEF x, y
  <2> QED BY <2>1, <2>4, <2>5, QuotientGrows
<1>11. Score!Github(f, p) = Score!Github(g, p)
  <2>1. ASSUME NEW k \in {"stars_weighted", "commits_12mo"} PROVE \A q \in Score!People : f[q][k] = g[q][k]
    <3>1. CASE k = "stars_weighted"
      BY <1>4, <3>1
    <3>2. CASE k = "commits_12mo"
      BY <1>4, <3>2
    <3> QED BY <3>1, <3>2
  <2>2. ASSUME NEW k \in {"stars_weighted", "commits_12mo"} PROVE Score!Percentile(f, p, k) = Score!Percentile(g, p, k)
    <3>1. Observed(f, k) = Observed(g, k)
      BY <2>1 DEF Observed
    <3>2. AtMost(f, p, k) = AtMost(g, p, k)
      BY <1>3, <2>1, <3>1 DEF AtMost, Observed
    <3>3. Score!Percentile(f, p, k) = (1000 * Cardinality(AtMost(f, p, k))) \div Cardinality(Observed(f, k))
      BY DEF Score!Percentile, Score!Cardinality, Cardinality, Observed, AtMost
    <3>4. Score!Percentile(g, p, k) = (1000 * Cardinality(AtMost(g, p, k))) \div Cardinality(Observed(g, k))
      BY DEF Score!Percentile, Score!Cardinality, Cardinality, Observed, AtMost
    <3> QED BY <3>1, <3>2, <3>3, <3>4
  <2>3. GithubParts(f, p) = GithubParts(g, p)
    BY <1>3, <2>1 DEF GithubParts
  <2>4. [k \in GithubParts(f, p) |-> Score!Percentile(f, p, k)] = [k \in GithubParts(g, p) |-> Score!Percentile(g, p, k)]
    BY <2>2, <2>3 DEF GithubParts
  <2> QED BY <2>3, <2>4 DEF Score!Github, GithubParts
<1>12. /\ Sub(f, p)["github"] = Sub(g, p)["github"] /\ Sub(f, p)["zero_to_one"] = Sub(g, p)["zero_to_one"]
       /\ Sub(f, p)["papers"] = Score!Percentile(f, p, c) /\ Sub(g, p)["papers"] = Score!Percentile(g, p, c)
  BY <1>3, <1>4, <1>7, <1>11 DEF Sub
<1>13. SubKnown(f, p) = SubKnown(g, p)
  <2>1. "papers" \in SubKnown(f, p) /\ "papers" \in SubKnown(g, p)
    BY <1>3, <1>7, SubIs
  <2> QED BY <1>12, <2>1 DEF SubKnown, SubKeys
<1>14. ASSUME NEW k \in SubKnown(f, p) PROVE Sub(f, p)[k] <= Sub(g, p)[k]
  <2>1. k \in SubKeys /\ Sub(f, p)[k] \in Int
    BY <1>3, SubIs DEF SubKnown
  <2>2. CASE k = "papers"
    BY <1>10, <1>12, <2>2
  <2>3. CASE k # "papers"
    <3>1. Sub(f, p)[k] = Sub(g, p)[k]
      BY <1>12, <2>1, <2>3 DEF SubKeys
    <3> QED BY <2>1, <3>1
  <2> QED BY <2>2, <2>3
<1>15. Score!PersonScore(f, p) <= Score!PersonScore(g, p)
  BY <1>3, <1>13, <1>14, PersonScoreGrows
<1>16. row.persons[p] = Score!PersonScore(f, p) /\ row'.persons[p] = Score!PersonScore(g, p)
  BY <1>2 DEF PersonsOf
<1>17. Score!PersonScore(f, p) \in Int /\ Score!PersonScore(g, p) \in Int
  <2>1. Score!PersonScore(f, p) \in Cell(1000) /\ Score!PersonScore(g, p) \in Cell(1000)
    BY <1>3, PersonScoreIs
  <2> QED BY <2>1 DEF Cell, Below
<1> QED BY <1>15, <1>16, <1>17

\* More stars never take a team further from its ideal, and more citations never
\* lower the score of their author (scorers.py, _closeness, percentile and
\* _person_score).
THEOREM NeverWorse == PartsSpec => BetterNeverWorse
<1> DEFINE Stays == /\ silver'.stars # silver.stars /\ (\A j \in Projects : silver'.stars[j] >= silver.stars[j])
                        => row'.scores.ideal_match >= row.scores.ideal_match
                   /\ \A p \in silver.team :
                        Score!Known(silver.citations[p]) /\ silver'.citations[p] > silver.citations[p]
                          => row'.persons[p] >= row.persons[p]
<1>1. ScoreInv /\ ScoreInv' /\ [Score!Next]_(Score!vars) => [Stays]_(Score!vars)
  BY StarsStep, CitationsStep
<1>2. PartsSpec => [][ScoreInv /\ ScoreInv' /\ [Score!Next]_(Score!vars)]_(Score!vars)
  BY ScoreInvariance, ScoreAlone, PTL DEF Score!Spec
<1> QED BY <1>1, <1>2, PTL DEF BetterNeverWorse, Score!BetterNeverWorse

----
(* The types.                                                                *)

\* The halves of a window are windows of the run.
FindTyped == FindInv /\ stage \in {"fast", "bisect", "done"}

LEMMA FindTypes == PartsSpec => []Find!TypeOK
<1>1. Find!Init => FindTyped
  BY FindStart DEF Find!Init, FindTyped
<1>2. FindTyped /\ [Find!Next]_(Find!vars) => FindTyped'
  <2> SUFFICES ASSUME FindTyped, [Find!Next]_(Find!vars) PROVE FindTyped'
    OBVIOUS
  <2>1. FindInv'
    BY FindStep DEF FindTyped
  <2>2. stage' \in {"fast", "bisect", "done"}
    BY DEF FindTyped, Find!Next, Find!FastPath, Find!Bisect, Find!Slice, Find!BisectEnds, Find!vars
  <2> QED BY <2>1, <2>2 DEF FindTyped
<1>3. FindTyped => Find!TypeOK
  <2> SUFFICES ASSUME FindTyped PROVE Find!TypeOK
    OBVIOUS
  <2>1. stack \in Seq(Windows)
    BY DEF FindTyped, FindInv
  <2>2. \A i \in DOMAIN stack : stack[i] \in Windows
    BY <2>1, PlacesOf
  <2>3. \A i \in DOMAIN stack :
          1 <= stack[i].start /\ stack[i].start <= stack[i].end /\ stack[i].end <= LastDay
    BY <2>2 DEF Windows
  <2> QED BY <2>3 DEF FindTyped, FindInv, Find!TypeOK
<1> QED BY <1>1, <1>2, <1>3, FindAlone, PTL DEF Find!Spec

LEMMA GqlTypes == PartsSpec => []Gql!TypeOK
<1> DEFINE Typed == GqlInv /\ raised \in BOOLEAN
<1>1. Gql!Init => Typed
  BY GqlStart DEF Gql!Init
<1>2. Typed /\ [Gql!Next]_(Gql!vars) => Typed'
  <2> SUFFICES ASSUME Typed, [Gql!Next]_(Gql!vars) PROVE Typed'
    OBVIOUS
  <2>1. GqlInv'
    BY GqlStep
  <2>2. raised' \in BOOLEAN
    BY DEF Gql!Next, Gql!Answered, Gql!TooHeavy, Gql!OtherStatus, Gql!AskAgain, Gql!vars
  <2> QED BY <2>1, <2>2
<1>3. Typed => Gql!TypeOK
  BY DEF GqlInv, PlacesInv, AskedInv, Failing, Gql!TypeOK
<1> QED BY <1>1, <1>2, <1>3, GqlAlone, PTL DEF Gql!Spec

LEMMA DiveTypes == PartsSpec => []Dive!TypeOK
<1>1. DiveInv => Dive!TypeOK
  <2> SUFFICES ASSUME DiveInv PROVE Dive!TypeOK
    OBVIOUS
  <2>1. ASSUME dive.on
        PROVE  /\ dive.week \in Dive!Weeks /\ dive.at \in 1..(Stages + 1)
               /\ dive.rounds \in 0..(MaxRounds - 1) /\ dive.used + dive.searches <= MaxSearches
    <3>1. PICK w, a, u, s, r, b, x : dive = DiveOf(w, a, u, s, r, b, x) /\ Sound(w, a, u, s, r, b, x)
      BY <2>1, IdleIsOff DEF DiveInv
    <3>2. dive.week = w /\ dive.at = a /\ dive.used = u /\ dive.searches = s /\ dive.rounds = r
      BY <3>1 DEF DiveOf
    <3>3. /\ w \in Dive!Weeks /\ a \in Nat \ {0} /\ a <= Stages + 1 /\ r \in Nat /\ r < MaxRounds
          /\ u + s <= MaxSearches
      BY <3>1 DEF Sound
    <3>4. a \in 1..(Stages + 1) /\ r \in 0..(MaxRounds - 1)
      BY <3>3, DiveNumbers
    <3> QED BY <3>2, <3>3, <3>4
  <2>2. week \in Dive!Weeks /\ cache \subseteq Verdicts /\ answered \in [Verdicts -> Nat]
    BY DEF DiveInv, BoughtInv
  <2> QED BY <2>1, <2>2 DEF Dive!TypeOK, Verdicts, Stages
<1> QED BY <1>1, DiveInvariance, PTL

LEMMA VentureTypes == PartsSpec => []Venture!TypeOK
<1>1. VentureInv => Venture!TypeOK
  <2> SUFFICES ASSUME VentureInv PROVE Venture!TypeOK
    OBVIOUS
  <2>1. \A n \in Nat : n <= 100 => n \in 0..100
    OBVIOUS
  <2>2. \A v \in DOMAIN rows : \A x \in DOMAIN rows[v] : rows[v][x].weight \in 0..100
    BY <2>1 DEF VentureInv, SeedRows
  <2>3. \A k \in DOMAIN gold : gold[k].weight \in 0..100
    BY <2>1 DEF VentureInv, SeedRows
  <2> QED BY <2>2, <2>3 DEF VentureInv, AllFacts, Venture!TypeOK
<1> QED BY <1>1, VentureInvariance, PTL

\* Whoever has been seen has a person after a run.
LEMMA ViewsNamed ==
  ASSUME NamedInv, NEW M \in SUBSET Match!InView, NEW clusters, clusters = Match!Components(M),
         NEW owner, owner = Match!NewPersonOf(clusters), NEW x \in Match!Views
  PROVE  owner[x] \in Ids
<1>0. x \in Ids
  BY DEF Match!Views
<1>1. \A m \in Ids : m \in Match!Linked => personOf[m] \in Ids
  BY DEF NamedInv, Match!Linked, Match!Nobody
<1>2. CASE x \in Match!Linked
  BY <1>0, <1>1, <1>2, LinkedStay
<1>3. CASE x \notin Match!Linked /\ Match!Of(clusters, x) = {}
  BY <1>0, <1>3 DEF Match!NewPersonOf
<1>4. CASE x \notin Match!Linked /\ Match!Of(clusters, x) # {}
  <2>1. PICK c \in Match!Of(clusters, x) : owner[x] = Match!PersonFor(Match!Kept(c))
    BY <1>0, <1>4 DEF Match!NewPersonOf
  <2>2. c \in clusters /\ x \in Match!Kept(c)
    BY <2>1 DEF Match!Of
  <2>3. Match!Kept(c) \subseteq Ids
    <3>1. c \subseteq UNION M
      BY <2>2, SameComponents, CP!ComponentsCovered
    <3>2. Match!Kept(c) \subseteq c
      BY DEF Match!Kept
    <3>3. M \in SUBSET Match!Pairs
      BY DEF Match!InView
    <3> QED BY <3>1, <3>2, <3>3, PairsAreOfIds
  <2> DEFINE kept == Match!Kept(c)
             old == kept \cap Match!Linked
  <2>4. kept \in SUBSET Nat /\ kept # {} /\ kept \in SUBSET Ids
    BY <2>2, <2>3, MatchAssumption
  <2>5. owner[x] = IF old = {} THEN Match!Min(kept) ELSE personOf[Match!Min(old)]
    BY <2>1 DEF Match!PersonFor
  <2> HIDE DEF kept
  <2>6. CASE old = {}
    <3>1. Match!Min(kept) \in kept
      BY ONLY <2>4, LeastOf
    <3> QED BY <2>4, <2>5, <2>6, <3>1
  <2>7. CASE old # {}
    <3>1. old \in SUBSET Nat
      BY <2>4
    <3> HIDE DEF old
    <3>2. Match!Min(old) \in old
      BY ONLY <2>7, <3>1, LeastOf
    <3> QED BY <1>1, <2>4, <2>5, <2>7, <3>2 DEF old
  <2> QED BY <2>6, <2>7
<1> QED BY <1>2, <1>3, <1>4

\* Of a cluster somebody stays.
LEMMA SomebodyStays ==
  ASSUME NEW M \in SUBSET Match!InView, NEW c \in Match!Components(M), NEW x \in c
  PROVE  c \subseteq Match!Views /\ Match!Min(Match!Kept(c)) \in c
<1>1. c \subseteq Match!Views
  <2>1. c \subseteq UNION M
    BY SameComponents, CP!ComponentsCovered
  <2> QED BY <2>1 DEF Match!InView
<1>2. c \in SUBSET Nat /\ c # {}
  BY <1>1, MatchAssumption DEF Match!Views
<1> DEFINE m == Match!Min(c)
<1>3. m \in c /\ \A y \in c : m <= y
  BY ONLY <1>2, LeastOf
<1> HIDE DEF m
<1>4. \A y \in c : ~(y < m)
  BY <1>2, <1>3
<1>5. m \in Match!Kept(c)
  BY <1>3, <1>4 DEF Match!Kept
<1>6. Match!Kept(c) \in SUBSET Nat /\ Match!Kept(c) # {} /\ Match!Kept(c) \in SUBSET c
  BY <1>2, <1>5 DEF Match!Kept
<1>7. Match!Min(Match!Kept(c)) \in Match!Kept(c)
  BY ONLY <1>6, LeastOf
<1> QED BY <1>1, <1>6, <1>7

\* The pairs of a run are of identities in view, and so are the two of a
\* question: somebody in view and the person of another.
LEMMA RunTyped ==
  ASSUME NamedInv, Match!Run, review \subseteq Ids \X Ids, settled \subseteq Match!Pairs
  PROVE  review' \subseteq Ids \X Ids /\ settled' \subseteq Match!Pairs
<1> DEFINE ruled == {p \in Match!InView : Match!AutoRule(p)}
           play == Match!InPlay(ruled)
<1>1. PICK scoring \in Scorings : RunWith(ruled, play, scoring)
  BY RunIs
<1>2. ruled \subseteq Match!InView /\ play \subseteq Match!InView /\ Match!InView \subseteq Match!Pairs
  BY DEF Match!InPlay, Match!InView
<1> HIDE DEF ruled, play
<1>3. Match!Asked(play, scoring) \subseteq Match!InView
  BY <1>2 DEF Match!Asked, Match!Banded
<1>4. \A band : Match!Banded(play, scoring, band) \subseteq Match!InView
  BY <1>2 DEF Match!Banded
<1>5. PICK doubts, found :
        /\ doubts \in SUBSET Match!InView /\ found \in SUBSET Match!InView
        /\ settled' = settled \cup Match!Asked(play, scoring)
        /\ review' = review
             \cup Match!PairReviews(doubts, Match!NewPersonOf(Match!ClustersOf(ruled \cup found)),
                                    Match!Anchored(Match!ClustersOf(ruled \cup found)))
             \cup Match!EjectionReviews(Match!ClustersOf(ruled \cup found),
                                        Match!NewPersonOf(Match!ClustersOf(ruled \cup found)))
  <2>1. PICK matched \in SUBSET Match!Asked(play, scoring) :
        \E unsure \in SUBSET (Match!Asked(play, scoring) \ matched) :
        \E found \in {Match!Banded(play, scoring, "auto") \cup matched},
           doubts \in {{p \in Match!InView : Match!ByNameAndOrg(p)}
                         \cup Match!Banded(play, scoring, "review") \cup unsure} :
        \E clusters \in {Match!ClustersOf(ruled \cup found)} :
        \E owner \in {Match!NewPersonOf(clusters)} :
          /\ settled' = settled \cup Match!Asked(play, scoring)
          /\ review' = review \cup Match!PairReviews(doubts, owner, Match!Anchored(clusters))
                              \cup Match!EjectionReviews(clusters, owner)
    BY <1>1 DEF RunWith
  <2> DEFINE All(unsure) == {p \in Match!InView : Match!ByNameAndOrg(p)}
                              \cup Match!Banded(play, scoring, "review") \cup unsure
             found == Match!Banded(play, scoring, "auto") \cup matched
  <2>2. PICK unsure \in SUBSET (Match!Asked(play, scoring) \ matched) :
        \E doubts \in {All(unsure)} :
        \E clusters \in {Match!ClustersOf(ruled \cup found)} :
        \E owner \in {Match!NewPersonOf(clusters)} :
          /\ settled' = settled \cup Match!Asked(play, scoring)
          /\ review' = review \cup Match!PairReviews(doubts, owner, Match!Anchored(clusters))
                              \cup Match!EjectionReviews(clusters, owner)
    BY <2>1
  <2>3. All(unsure) \in SUBSET Match!InView
    <3>1. unsure \subseteq Match!InView
      BY <1>3
    <3> QED BY <1>4, <3>1
  <2>4. found \in SUBSET Match!InView
    <3>1. matched \subseteq Match!InView
      BY <1>3
    <3> QED BY <1>4, <3>1
  <2> HIDE DEF All, found
  <2> QED BY <2>2, <2>3, <2>4
<1> DEFINE M == {p \in ruled \cup found : ~(p \subseteq Match!Linked)}
           clusters == Match!ClustersOf(ruled \cup found)
           owner == Match!NewPersonOf(clusters)
           anchored == Match!Anchored(clusters)
<1>6. clusters = Match!Components(M) /\ M \in SUBSET Match!InView
  BY <1>2, <1>5 DEF Match!ClustersOf
<1>7. review' = review \cup Match!PairReviews(doubts, owner, anchored) \cup Match!EjectionReviews(clusters, owner)
  BY <1>5
<1> HIDE DEF M, clusters, anchored
<1>8. \A x \in Match!Views : x \in Ids /\ owner[x] \in Ids
  <2>1. \A x \in Match!Views : x \in Ids
    BY DEF Match!Views
  <2> QED BY <1>6, <2>1, ViewsNamed
<1> HIDE DEF owner
<1>9. ASSUME NEW p \in doubts
      PROVE  <<Match!Subject(p, anchored), owner[CHOOSE y \in p : y # Match!Subject(p, anchored)]>> \in Ids \X Ids
  <2> DEFINE x == Match!Subject(p, anchored)
             y == CHOOSE z \in p : z # x
  <2>1. p \in Match!Pairs /\ p \subseteq Match!Views
    BY <1>5 DEF Match!InView
  <2>2. Match!Min(p) # Match!Max(p) /\ p = {Match!Min(p), Match!Max(p)}
    BY <2>1, TwoOf
  <2>3. x \in p
    BY <2>2 DEF Match!Subject
  <2>4. \E z \in p : z # x
    BY <2>2
  <2> HIDE DEF x
  <2>5. y \in p
    BY <2>4
  <2> HIDE DEF y
  <2>6. x \in Ids /\ owner[y] \in Ids
    BY <1>8, <2>1, <2>3, <2>5
  <2> QED BY <2>6 DEF x, y
<1>10. Match!PairReviews(doubts, owner, anchored) \subseteq Ids \X Ids
  BY <1>9 DEF Match!PairReviews
<1>11. Match!EjectionReviews(clusters, owner) \subseteq Ids \X Ids
  <2>1. ASSUME NEW c \in clusters, NEW x \in c
        PROVE  <<x, owner[Match!Min(Match!Kept(c))]>> \in Ids \X Ids
    <3>1. x \in Match!Views /\ Match!Min(Match!Kept(c)) \in Match!Views
      BY <1>6, <2>1, SomebodyStays
    <3> QED BY <1>8, <3>1
  <2> QED BY <2>1 DEF Match!EjectionReviews
<1>12. settled' \subseteq Match!Pairs
  BY <1>2, <1>3, <1>5
<1> QED BY <1>7, <1>10, <1>11, <1>12

LEMMA MatchTypes == PartsSpec => []Match!TypeOK
<1> DEFINE Typed == /\ NamedInv /\ ConnectedInv /\ DoubtInv
                    /\ facts \subseteq Said \cup ToBeSaid /\ \A f \in facts : Match!Observed(f)
                    /\ settled \subseteq Match!Pairs /\ review \subseteq Ids \X Ids
<1>1. Match!Init => Typed
  <2> SUFFICES ASSUME Match!Init PROVE Typed
    OBVIOUS
  <2>1. NamedInv /\ ConnectedInv
    BY MatchStart DEF MatchInv
  <2>2. DoubtInv
    BY DEF Match!Init, DoubtInv, Match!DoubtIsReviewed
  <2> QED BY <2>1, <2>2, FactAssumption DEF Match!Init
<1>2. Typed /\ [Match!Next]_(Match!vars) => Typed'
  <2> SUFFICES ASSUME Typed, [Match!Next]_(Match!vars) PROVE Typed'
    OBVIOUS
  <2>0. Match!Pairs' = Match!Pairs
    BY DEF Match!Pairs
  <2>1. NamedInv' /\ ConnectedInv'
    BY MatchStep DEF MatchInv
  <2>2. DoubtInv'
    BY DoubtStep
  <2>3. facts' \subseteq Said \cup ToBeSaid /\ \A f \in facts' : Match!Observed(f)
    BY DEF Match!Next, Match!Learn, Match!Run, Match!vars
  <2>4. review' \subseteq Ids \X Ids /\ settled' \subseteq Match!Pairs
    <3>1. CASE Match!Run
      BY <3>1, RunTyped
    <3>2. CASE (\E f \in ToBeSaid : Match!Learn(f)) \/ UNCHANGED Match!vars
      BY <3>2 DEF Match!Learn, Match!vars
    <3> QED BY <3>1, <3>2 DEF Match!Next
  <2>5. \A f : Match!Observed(f)' <=> Match!Observed(f)
    BY DEF Match!Observed, Match!Fields
  <2> QED BY <2>0, <2>1, <2>2, <2>3, <2>4, <2>5
<1>3. Typed => Match!TypeOK
  <2> SUFFICES ASSUME Typed PROVE Match!TypeOK
    OBVIOUS
  <2>1. personOf \in [Ids -> Ids \cup {0}]
    BY DEF NamedInv
  <2> QED BY <2>1 DEF NamedInv, DoubtInv, Match!TypeOK, Match!Nobody
<1> QED BY <1>1, <1>2, <1>3, MatchAlone, PTL DEF Match!Spec

\* Where the participant is seen.
Spots == DOMAIN Show!Nothing
Named(r) == r.name \in ShownNames \cup {Show!None}
Pieced(g) == g = [p \in Spots |-> g[p]] /\ \A p \in Spots : g[p] \in Show!Pieces(p)

LEMMA SpotsAre ==
  /\ DOMAIN Show!Places \in SUBSET Nat /\ \A i \in DOMAIN Show!Places : Show!Places[i] \in Spots
  /\ Spots = {Show!Places[i] : i \in DOMAIN Show!Places}
  /\ "cv" \in Spots
<1> DEFINE first == <<"people">>
           last == <<"cv">>
           front == first \o Shown
           all == front \o last
           S == {Shown[i] : i \in DOMAIN Shown} \cup {"people", "cv"}
<1>1. Show!Places = all
  BY DEF Show!Places
<1>2. /\ first \in Seq(S) /\ last \in Seq(S) /\ Shown \in Seq(S)
      /\ Len(last) = 1 /\ last[1] = "cv"
  <2>1. "people" \in S /\ "cv" \in S /\ \A i \in DOMAIN Shown : Shown[i] \in S
    OBVIOUS
  <2> HIDE DEF S
  <2>2. \A x \in S : <<x>> \in Seq(S) /\ Len(<<x>>) = 1 /\ <<x>>[1] = x
    OBVIOUS
  <2>3. Shown \in Seq(S)
    BY <2>1, ShowAssumption
  <2> QED BY <2>1, <2>2, <2>3
<1> HIDE DEF first, last, S
<1>3. front \in Seq(S)
  BY <1>2, ConcatProperties
<1> HIDE DEF front
<1>4. /\ all \in Seq(S) /\ Len(all) = Len(front) + Len(last) /\ Len(front) \in Nat
      /\ \A i \in 1 .. Len(front) + Len(last) : all[i] = IF i <= Len(front) THEN front[i] ELSE last[i - Len(front)]
  BY <1>2, <1>3, ConcatProperties, LenProperties
<1> DEFINE n == Len(front)
<1> HIDE DEF all
<1>5. DOMAIN all = 1..(n + 1)
  BY <1>2, <1>4, LenProperties
<1>6. all[n + 1] = "cv"
  <2>1. n + 1 \in 1..(n + 1) /\ ~(n + 1 <= n) /\ (n + 1) - n = 1
    BY <1>4
  <2> QED BY <1>2, <1>4, <2>1
<1>7. n + 1 \in DOMAIN all /\ DOMAIN all \in SUBSET Nat
  BY <1>4, <1>5
<1>8. Spots = {Show!Places[i] : i \in DOMAIN Show!Places}
  BY DEF Spots, Show!Nothing
<1> HIDE DEF n
<1> QED BY <1>1, <1>6, <1>7, <1>8

LEMMA AbsentIs == Named(Show!Absent) /\ \A p : Show!Absent \in Show!Pieces(p)
<1>1. Show!Absent = [name |-> Show!None, items |-> {}]
  BY DEF Show!Absent
<1>2. ASSUME NEW p PROVE Show!Absent \in Show!Pieces(p)
  BY <1>1 DEF Show!Pieces
<1> QED BY <1>1, <1>2 DEF Named

LEMMA NothingIs == Pieced(Show!Nothing)
<1>1. Show!Nothing = [p \in Spots |-> Show!Absent]
  BY DEF Spots, Show!Nothing
<1> QED BY <1>1, AbsentIs DEF Pieced

LEMMA OneOfTwo == \A a, b : Show!Over(a, b) = a \/ Show!Over(a, b) = b
BY DEF Show!Over

\* What is merged has a name that a piece has, or none.
LEMMA MergedNamed ==
  ASSUME NEW g, Pieced(g)
  PROVE  Named(Show!MergePieces(g))
<1> DEFINE all == [i \in DOMAIN Show!Places |-> g[Show!Places[i]]]
           having == {i \in DOMAIN all : all[i].name # Show!None}
<1>1. Show!MergePieces(g).name = IF having = {} THEN Show!None ELSE all[Show!Min(having)].name
  BY DEF Show!MergePieces, Show!MergeGroup
<1>2. CASE having # {}
  <2>1. having \in SUBSET Nat
    BY SpotsAre
  <2>2. Show!Min(having) = Match!Min(having)
    BY DEF Show!Min, Match!Min
  <2>3. \A i \in having : all[i].name \in ShownNames \cup {Show!None}
    <3> SUFFICES ASSUME NEW i \in having PROVE all[i].name \in ShownNames \cup {Show!None}
      OBVIOUS
    <3>1. all[i] = g[Show!Places[i]] /\ Show!Places[i] \in Spots
      BY SpotsAre
    <3>2. all[i] \in Show!Pieces(Show!Places[i])
      BY <3>1 DEF Pieced
    <3> QED BY <3>2 DEF Show!Pieces
  <2> HIDE DEF having
  <2>4. Match!Min(having) \in having
    BY ONLY <1>2, <2>1, LeastOf
  <2> QED BY <1>1, <1>2, <2>2, <2>3, <2>4 DEF Named
<1>3. CASE having = {}
  BY <1>1, <1>3 DEF Named
<1> QED BY <1>2, <1>3

\* What is written is made of pieces, by the scrape as by entity resolution.
ShowInv ==
  /\ Pieced(site) /\ Pieced(bronze) /\ Named(source) /\ Named(person)
  /\ scrape = [stage |-> scrape.stage, got |-> scrape.got, cv |-> scrape.cv]
  /\ scrape.stage \in {"idle", "merge", "cv"} /\ Pieced(scrape.got) /\ scrape.cv \in Show!Pieces("cv")
  /\ er = [stage |-> er.stage, source |-> er.source, person |-> er.person]
  /\ er.stage \in {"idle", "person", "source"} /\ Named(er.source) /\ Named(er.person)
  /\ edits \in 0..MaxEdits

\* A step of a job that leaves the others' state alone.
LEMMA ScrapeSteps ==
  ASSUME ShowInv, UNCHANGED <<site, person, er, edits>>, Pieced(bronze'), Named(source'),
         NEW s \in {"idle", "merge", "cv"}, NEW g, Pieced(g), NEW c \in Show!Pieces("cv"),
         scrape' = [stage |-> s, got |-> g, cv |-> c]
  PROVE  ShowInv'
<1>1. scrape'.stage = s /\ scrape'.got = g /\ scrape'.cv = c
  OBVIOUS
<1>2. \A h : Pieced(h)' <=> Pieced(h)
  BY DEF Pieced, Spots, Show!Nothing, Show!Pieces
<1>3. \A r : Named(r)' <=> Named(r)
  BY DEF Named
<1> QED BY <1>1, <1>2, <1>3 DEF ShowInv

LEMMA ErSteps ==
  ASSUME ShowInv, UNCHANGED <<site, bronze, scrape>>, Named(source'), Named(person'),
         edits' \in 0..MaxEdits,
         NEW s \in {"idle", "person", "source"}, NEW a, Named(a), NEW b, Named(b),
         er' = [stage |-> s, source |-> a, person |-> b]
  PROVE  ShowInv'
<1>1. er'.stage = s /\ er'.source = a /\ er'.person = b
  OBVIOUS
<1>2. \A h : Pieced(h)' <=> Pieced(h)
  BY DEF Pieced, Spots, Show!Nothing, Show!Pieces
<1>3. \A r : Named(r)' <=> Named(r)
  BY DEF Named
<1> QED BY <1>1, <1>2, <1>3 DEF ShowInv

LEMMA ShowStep ==
  ASSUME ShowInv, [Show!Next]_(Show!vars)
  PROVE  ShowInv'
<1>0. /\ \A h : Pieced(h)' <=> Pieced(h)
      /\ \A r : Named(r)' <=> Named(r)
      /\ Show!Pieces("cv")' = Show!Pieces("cv")
  BY DEF Pieced, Spots, Show!Nothing, Show!Pieces, Named
<1>a. /\ \A p \in Spots : site[p] \in Show!Pieces(p) /\ bronze[p] \in Show!Pieces(p)
      /\ site = [p \in Spots |-> site[p]] /\ bronze = [p \in Spots |-> bronze[p]]
      /\ DOMAIN site = Spots /\ DOMAIN bronze = Spots
  BY DEF ShowInv, Pieced
<1>1. ASSUME NEW i \in DOMAIN Show!Places, NEW piece \in Show!Pieces(Show!Places[i]),
             Show!Edit(Show!Places[i], piece)
      PROVE  ShowInv'
  <2>1. site' = [site EXCEPT ![Show!Places[i]] = piece] /\ Show!Places[i] \in Spots
    BY <1>1, SpotsAre DEF Show!Edit
  <2> DEFINE new == site'
             spot == Show!Places[i]
  <2>2. new = [p \in Spots |-> IF p = spot THEN piece ELSE site[p]]
    BY <1>a, <2>1
  <2>3. Pieced(new)
    <3> HIDE DEF new, spot
    <3>1. \A p \in Spots : new[p] \in Show!Pieces(p)
      BY <1>1, <1>a, <2>2 DEF spot
    <3> QED BY <2>2, <3>1 DEF Pieced
  <2>4. edits' \in 0..MaxEdits
    BY <1>1, ShowAssumption DEF Show!Edit, ShowInv
  <2> HIDE DEF new
  <2> QED BY <1>0, <1>1, <2>3, <2>4 DEF Show!Edit, ShowInv, new
<1>2. ASSUME NEW fetched \in SUBSET {Shown[i] : i \in DOMAIN Shown}, NEW withCv \in BOOLEAN,
             Show!ScrapeBronze(fetched, withCv)
      PROVE  ShowInv'
  <2> DEFINE got == Show!Sweep(fetched, withCv)
  <2>1. /\ bronze' = [p \in DOMAIN bronze |-> IF p \in fetched THEN got[p]
                        ELSE IF p = "people" THEN Show!Over(bronze[p], got[p]) ELSE bronze[p]]
        /\ scrape' = [stage |-> "merge", got |-> got, cv |-> got["cv"]]
        /\ source' = source /\ UNCHANGED <<site, person, er, edits>>
    BY <1>2 DEF Show!ScrapeBronze
  <2>2. got = [p \in Spots |-> IF p \in fetched \cup {"people"} THEN site[p]
                                ELSE IF p = "cv" THEN Show!Captured(fetched, withCv) ELSE Show!Absent]
    BY DEF Show!Sweep, Spots
  <2>3. Show!Captured(fetched, withCv) \in Show!Pieces("cv")
    BY <1>a, SpotsAre, AbsentIs DEF Show!Captured
  <2> HIDE DEF got
  <2>4. \A p \in Spots : got[p] \in Show!Pieces(p)
    BY <1>a, <2>2, <2>3, AbsentIs
  <2>5. Pieced(got) /\ got["cv"] \in Show!Pieces("cv")
    BY <2>2, <2>4, SpotsAre DEF Pieced
  <2> DEFINE new == bronze'
  <2>6. new = [p \in Spots |-> IF p \in fetched THEN got[p]
                        ELSE IF p = "people" THEN Show!Over(bronze[p], got[p]) ELSE bronze[p]]
    BY <1>a, <2>1
  <2> HIDE DEF new
  <2>7. \A p \in Spots : new[p] \in Show!Pieces(p)
    <3> SUFFICES ASSUME NEW p \in Spots PROVE new[p] \in Show!Pieces(p)
      OBVIOUS
    <3>1. new[p] = got[p] \/ new[p] = bronze[p]
      BY <2>6, OneOfTwo
    <3> QED BY <1>a, <2>4, <3>1
  <2>8. Pieced(new)
    BY <2>6, <2>7 DEF Pieced
  <2>9. Pieced(bronze') /\ Named(source')
    BY <2>1, <2>8 DEF ShowInv, new
  <2> QED BY <2>1, <2>5, <2>9, ScrapeSteps
<1>3. CASE Show!ScrapeSource
  <2>1. /\ source' = Show!Over(source, Show!MergePieces(scrape.got)) /\ bronze' = bronze
        /\ UNCHANGED <<site, person, er, edits>>
        /\ scrape' = [scrape EXCEPT !.stage = "cv", !.got = Show!Nothing]
    BY <1>3 DEF Show!ScrapeSource
  <2>2. scrape' = [stage |-> "cv", got |-> Show!Nothing, cv |-> scrape.cv] /\ scrape.cv \in Show!Pieces("cv")
    BY <2>1 DEF ShowInv
  <2>3. Named(Show!MergePieces(scrape.got)) /\ Named(source)
    BY MergedNamed DEF ShowInv
  <2>4. Named(source') /\ Pieced(bronze')
    BY <2>1, <2>3, OneOfTwo DEF ShowInv
  <2> QED BY <2>1, <2>2, <2>4, NothingIs, ScrapeSteps
<1>4. CASE Show!ScrapeCv
  <2>1. /\ bronze' = [bronze EXCEPT !["cv"] = Show!Over(@, scrape.cv)] /\ source' = source
        /\ UNCHANGED <<site, person, er, edits>>
        /\ scrape' = [stage |-> "idle", got |-> Show!Nothing, cv |-> Show!Absent]
    BY <1>4 DEF Show!ScrapeCv
  <2> DEFINE new == bronze'
  <2>2. new = [p \in Spots |-> IF p = "cv" THEN Show!Over(bronze["cv"], scrape.cv) ELSE bronze[p]]
    BY <1>a, <2>1, SpotsAre
  <2> HIDE DEF new
  <2>3. Show!Over(bronze["cv"], scrape.cv) \in Show!Pieces("cv")
    BY <1>a, OneOfTwo, SpotsAre DEF ShowInv
  <2>4. Pieced(new)
    BY <1>a, <2>2, <2>3 DEF Pieced
  <2>5. Pieced(bronze') /\ Named(source')
    BY <2>1, <2>4 DEF ShowInv, new
  <2> QED BY <2>1, <2>5, NothingIs, AbsentIs, ScrapeSteps
<1>5. CASE Show!ScrapeDies
  <2>1. Pieced(bronze') /\ Named(source')
    BY <1>5 DEF Show!ScrapeDies, ShowInv
  <2> QED BY <1>5, <2>1, NothingIs, AbsentIs, ScrapeSteps DEF Show!ScrapeDies
<1>6. CASE Show!ErReads
  <2>1. Named(Show!Fresh) /\ Named(Show!Golden)
    BY MergedNamed DEF ShowInv, Show!Fresh, Show!Golden
  <2>2. Named(source') /\ Named(person') /\ edits' \in 0..MaxEdits
    BY <1>6 DEF Show!ErReads, ShowInv
  <2> QED BY <1>6, <2>1, <2>2, ErSteps DEF Show!ErReads
<1>7. CASE Show!ErPerson
  <2>1. er' = [stage |-> "source", source |-> er.source, person |-> er.person]
    BY <1>7 DEF Show!ErPerson, ShowInv
  <2>2. Named(er.source) /\ Named(er.person) /\ Named(person) /\ Named(source) /\ edits \in 0..MaxEdits
    BY DEF ShowInv
  <2>3. Named(source') /\ Named(person') /\ edits' \in 0..MaxEdits
    BY <1>7, <2>2, OneOfTwo DEF Show!ErPerson
  <2> QED BY <1>7, <2>1, <2>2, <2>3, ErSteps DEF Show!ErPerson
<1>8. CASE Show!ErSource
  <2>1. Named(er.source) /\ Named(person) /\ Named(source) /\ edits \in 0..MaxEdits
    BY DEF ShowInv
  <2>2. Named(source') /\ Named(person') /\ edits' \in 0..MaxEdits
    BY <1>8, <2>1, OneOfTwo DEF Show!ErSource
  <2> QED BY <1>8, <2>2, AbsentIs, ErSteps DEF Show!ErSource
<1>9. CASE Show!ErDies
  <2>1. Named(source') /\ Named(person')
    BY <1>9 DEF Show!ErDies, ShowInv
  <2>2. edits' \in 0..MaxEdits
    BY <1>9, ShowAssumption DEF Show!ErDies, ShowInv
  <2> QED BY <1>9, <2>1, <2>2, AbsentIs, ErSteps DEF Show!ErDies
<1>10. CASE UNCHANGED Show!vars
  BY <1>0, <1>10 DEF Show!vars, ShowInv
<1> QED BY <1>1, <1>2, <1>3, <1>4, <1>5, <1>6, <1>7, <1>8, <1>9, <1>10 DEF Show!Next

LEMMA ShowAlone == PartsSpec => Show!Spec
<1>1. PartsInit => Show!Init
  BY DEF PartsInit
<1>2. [PartsNext]_partVars => [Show!Next]_(Show!vars)
  BY DEF PartsNext, Only, partVars, showVars, Show!vars
<1> QED BY <1>1, <1>2, PTL DEF PartsSpec, Show!Spec

LEMMA ShowTypes == PartsSpec => []Show!TypeOK
<1>1. Show!Init => ShowInv
  <2> SUFFICES ASSUME Show!Init PROVE ShowInv
    OBVIOUS
  <2>1. /\ site = Show!Nothing /\ bronze = Show!Nothing /\ source = Show!Absent /\ person = Show!Absent
        /\ scrape.stage = "idle" /\ scrape.got = Show!Nothing /\ scrape.cv = Show!Absent
        /\ scrape = [stage |-> scrape.stage, got |-> scrape.got, cv |-> scrape.cv]
        /\ er.stage = "idle" /\ er.source = Show!Absent /\ er.person = Show!Absent
        /\ er = [stage |-> er.stage, source |-> er.source, person |-> er.person]
        /\ edits = 0
    BY DEF Show!Init
  <2>2. 0 \in 0..MaxEdits
    BY ShowAssumption
  <2> QED BY <2>1, <2>2, NothingIs, AbsentIs DEF ShowInv
<1>2. ShowInv /\ [Show!Next]_(Show!vars) => ShowInv'
  BY ShowStep
<1>3. ShowInv => Show!TypeOK
  BY DEF ShowInv, Pieced, Named, Spots, Show!TypeOK
<1> QED BY <1>1, <1>2, <1>3, ShowAlone, PTL DEF Show!Spec

LEMMA HttpAlone == PartsSpec => Spec
<1>1. PartsInit => Init
  BY DEF PartsInit
<1>2. [PartsNext]_partVars => [Next]_vars
  BY DEF PartsNext, Only, partVars
<1> QED BY <1>1, <1>2, PTL DEF PartsSpec, Spec

\* The state of every part is as its module says, for any instance.
THEOREM TypesKept == PartsSpec => []PartsTypeOK
<1>1. PartsSpec => []TypeOK
  BY HttpAlone, TypeCorrect
<1>2. PartsSpec => []Score!TypeOK
  <2>1. ScoreInv => Score!TypeOK
    BY ScoreTyped
  <2> QED BY <2>1, ScoreInvariance, PTL
<1> QED BY <1>1, <1>2, FindTypes, GqlTypes, DiveTypes, MatchTypes, VentureTypes, ShowTypes, PTL DEF PartsTypeOK

====
