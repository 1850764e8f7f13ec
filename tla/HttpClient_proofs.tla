---- MODULE HttpClient_proofs ----
(***************************************************************************)
(* Proofs about the module HttpClient, for any rate, burst, number of      *)
(* attempts and answers: the rate is kept, and the server is heard.        *)
(***************************************************************************)
EXTENDS HttpClient, SequenceTheorems, FiniteSetTheorems, TLAPS

(***************************************************************************)
(* The inductive invariant of the bucket.  When a sleep ends matters to it *)
(* only while a token or a hint is waited for; TypeCorrect, at the end, is *)
(* about the rest.                                                         *)
(***************************************************************************)

Attempt == [at : 0..MaxTime, told : Nat, dated : BOOLEAN]

BucketType ==
  /\ now \in 0..MaxTime /\ refilled \in 0..now
  /\ tokens \in 0..Full
  /\ phase \in {"idle", "acquire", "drained", "sent", "backoff"}
  /\ told \in Nat /\ dated \in BOOLEAN
  /\ sent \in Seq(Attempt)

\* What n requests cost.
Cost(n) == n * Period

\* What was sent since any attempt, and what is left in the bucket, is not more
\* than a burst and what was refilled since.
BucketInv ==
  \A i \in 1..Len(sent) :
    /\ sent[i].at <= refilled
    /\ Cost(Len(sent) - i + 1) + tokens <= Full + (refilled - sent[i].at)

\* The sleep in acquire lasts until there is a token.
SleepInv ==
  phase = "drained" => wake \in Nat /\ tokens + (wake - refilled) >= Period

\* Before a request is sent the time the server named has come, unless it was a
\* date.
HeardInv ==
  dated \/ /\ phase \in {"acquire", "drained"} => told <= now
           /\ phase = "backoff" /\ told # 0 => wake \in Nat /\ told <= wake

\* RateIsKept over the indices of a sequence.
Kept ==
  \A i, j \in 1..Len(sent) :
    i <= j => Cost(j - i + 1) <= Full + (sent[j].at - sent[i].at)

Heard == \A i \in 1..Len(sent) : sent[i].dated \/ sent[i].told <= sent[i].at

Inv == BucketType /\ BucketInv /\ SleepInv /\ HeardInv /\ Kept /\ Heard

(***************************************************************************)
(* Facts about the definitions.                                            *)
(***************************************************************************)

\* A request costs what it costs after the others.
LEMMA CostOfOneMore ==
  ASSUME NEW n \in Nat
  PROVE  Cost(n) \in Nat /\ Cost(n + 1) = Cost(n) + Period
BY HttpAssumption DEF Cost

\* The bucket holds a token.
LEMMA FullType == Full \in Nat /\ Full >= Period /\ Period \in Nat \ {0} /\ Cost(1) = Period
<1>1. Capacity \in Nat \ {0} /\ Period \in Nat \ {0}
  BY HttpAssumption
<1>2. \A c, p \in Nat \ {0} : c * p \in Nat /\ c * p >= p
  OBVIOUS
<1>3. QED
  BY <1>1, <1>2 DEF Full, Cost

\* What a refill gives: between what was there and a full bucket, and no more
\* than the time that has passed.
LEMMA RefillBounds ==
  ASSUME BucketType
  PROVE  /\ Refill \in 0..Full
         /\ Refill >= tokens
         /\ Refill <= tokens + (now - refilled)
         /\ Refill = Full \/ Refill = tokens + (now - refilled)
BY FullType, HttpAssumption DEF BucketType, Refill, Lower

\* A sum on one side of a bound grows by no more than the other side, without
\* and with a charge p.
LEMMA SlackOfRefill ==
  ASSUME NEW c \in Int, NEW t \in Int, NEW u \in Int, NEW full \in Int,
         NEW then \in Int, NEW last \in Int, NEW at \in Int,
         c + t <= full + (last - at),
         u <= t + (then - last)
  PROVE  c + u <= full + (then - at)
OBVIOUS

LEMMA SlackOfCharge ==
  ASSUME NEW c \in Int, NEW p \in Int, NEW t \in Int, NEW u \in Int, NEW full \in Int,
         NEW then \in Int, NEW last \in Int, NEW at \in Int,
         c + t <= full + (last - at),
         u <= t + (then - last) - p
  PROVE  (c + p) + u <= full + (then - at)
OBVIOUS

(***************************************************************************)
(* The steps.                                                              *)
(***************************************************************************)

\* A step that leaves the bucket, the attempts and the clock alone keeps all
\* that is said of them alone.
LEMMA BucketUntouched ==
  ASSUME BucketInv, Kept, Heard, UNCHANGED <<tokens, refilled, sent>>
  PROVE  BucketInv' /\ Kept' /\ Heard'
BY DEF BucketInv, Kept, Heard

LEMMA InitInv == Init => Inv
<1> SUFFICES ASSUME Init PROVE Inv
  OBVIOUS
<1>1. BucketType
  <2>1. /\ now = 0 /\ refilled = 0 /\ tokens = Full /\ phase = "idle" /\ told = 0
        /\ dated = FALSE /\ sent = <<>>
    BY DEF Init
  <2>2. now \in 0..MaxTime /\ refilled \in 0..now /\ tokens \in 0..Full /\ told \in Nat
    BY <2>1, FullType, HttpAssumption
  <2>3. sent \in Seq(Attempt)
    BY <2>1, EmptySeq
  <2> QED BY <2>1, <2>2, <2>3 DEF BucketType
<1>2. Len(sent) = 0
  BY DEF Init
<1>3. QED
  BY <1>1, <1>2 DEF Init, Inv, BucketInv, SleepInv, HeardInv, Kept, Heard

\* Sending: the token that is charged is there.
LEMMA SendInv == Inv /\ Send => Inv'
<1> SUFFICES ASSUME Inv, Send PROVE Inv'
  OBVIOUS
<1> DEFINE n == Len(sent)
           new == [at |-> now, told |-> told, dated |-> dated]
<1>1. BucketType /\ BucketInv /\ SleepInv /\ HeardInv /\ Kept /\ Heard
  BY DEF Inv
<1>0. /\ now \in Nat /\ refilled \in 0..now /\ tokens \in 0..Full
      /\ Full \in Nat /\ Full >= Period /\ Period \in Nat
  BY <1>1, FullType, HttpAssumption DEF BucketType
<1>0a. Refill \in 0..Full /\ Refill <= tokens + (now - refilled)
  BY <1>1, RefillBounds
<1>0b. Refill = Full \/ Refill = tokens + (now - refilled)
  BY <1>1, RefillBounds
<1>2. Refill >= Period
  <2>1. CASE phase = "acquire"
    BY <2>1 DEF Send
  <2>2. CASE phase = "drained"
    <3>1. now >= wake /\ wake \in Nat /\ tokens + (wake - refilled) >= Period
      BY <2>2, <1>1 DEF Send, SleepInv
    <3>2. QED
      BY <3>1, <1>0, <1>0b
  <2>3. QED
    BY <2>1, <2>2 DEF Send
<1>3. /\ tokens' = Refill - Period /\ refilled' = now /\ now' = now
      /\ sent' = Append(sent, new) /\ phase' = "sent" /\ told' = told /\ dated' = dated
  BY DEF Send
<1>4. new \in Attempt /\ (dated \/ told <= now)
  BY <1>1 DEF BucketType, HeardInv, Attempt, Send
<1>5. /\ n \in Nat /\ sent' \in Seq(Attempt) /\ Len(sent') = n + 1
      /\ sent'[n + 1] = new /\ \A i \in 1..n : sent'[i] = sent[i]
  BY <1>1, <1>3, <1>4, AppendProperties, LenProperties DEF BucketType
<1>6. \A i \in 1..n : sent[i] \in Attempt
  BY <1>1, ElementOfSeq DEF BucketType
<1>7. BucketType'
  <2>0. Refill - Period \in 0..Full
    BY <1>0, <1>0a, <1>2
  <2>1. tokens' \in 0..Full /\ refilled' \in 0..now'
    BY <2>0, <1>0, <1>3
  <2>2. QED
    BY <2>1, <1>1, <1>3, <1>5 DEF BucketType
<1>8. \A i \in 1..n :
        Cost((n + 1) - i + 1) + tokens' <= Full + (now - sent[i].at) /\ sent[i].at <= now
  <2> TAKE i \in 1..n
  <2>0. n - i + 1 \in Nat /\ (n + 1) - i + 1 = (n - i + 1) + 1
    BY <1>5
  <2>1. Cost(n - i + 1) \in Nat /\ Cost((n + 1) - i + 1) = Cost(n - i + 1) + Period
    BY <2>0, CostOfOneMore
  <2>2. Cost(n - i + 1) + tokens <= Full + (refilled - sent[i].at) /\ sent[i].at <= refilled
    BY <1>1 DEF BucketInv
  <2>3. sent[i].at \in Nat
    BY <1>6 DEF Attempt
  <2>4. tokens' <= tokens + (now - refilled) - Period /\ tokens' \in Int
    BY <1>0, <1>0a, <1>3
  <2>5. QED
    <3>1. sent[i].at <= now
      BY <1>0, <2>2, <2>3
    <3>2. (Cost(n - i + 1) + Period) + tokens' <= Full + (now - sent[i].at)
      <4>1. now \in Int /\ refilled \in Int /\ tokens \in Int /\ Period \in Int /\ Full \in Int
            /\ sent[i].at \in Int /\ Cost(n - i + 1) \in Int /\ tokens' \in Int
        BY <1>0, <2>1, <2>3, <2>4
      <4>2. QED
        BY <4>1, <2>2, <2>4, SlackOfCharge
    <3>3. QED
      BY <3>1, <3>2, <2>1
<1>9. BucketInv'
  <2> SUFFICES ASSUME NEW i \in 1..(n + 1)
               PROVE  /\ sent'[i].at <= now
                      /\ Cost((n + 1) - i + 1) + tokens' <= Full + (now - sent'[i].at)
    BY <1>3, <1>5 DEF BucketInv
  <2>1. CASE i \in 1..n
    BY <2>1, <1>5, <1>8
  <2>2. CASE i = n + 1
    <3>1. sent'[i].at = now /\ (n + 1) - i + 1 = 1
      BY <2>2, <1>5
    <3>2. Cost((n + 1) - i + 1) = Period
      BY <3>1, FullType
    <3>3. Period + tokens' <= Full
      BY <1>0, <1>0a, <1>3
    <3>4. QED
      BY <3>1, <3>2, <3>3, <1>0
  <2>3. QED
    BY <2>1, <2>2, <1>5
<1>10. Kept'
  <2> SUFFICES ASSUME NEW i \in 1..(n + 1), NEW j \in 1..(n + 1), i <= j
               PROVE  Cost(j - i + 1) <= Full + (sent'[j].at - sent'[i].at)
    BY <1>5 DEF Kept
  <2>1. CASE j \in 1..n
    <3>1. i \in 1..n
      BY <2>1, <1>5
    <3>2. QED
      BY <3>1, <2>1, <1>1, <1>5 DEF Kept
  <2>2. CASE j = n + 1
    <3>1. CASE i \in 1..n
      <4>1. Cost(j - i + 1) + tokens' <= Full + (now - sent[i].at)
        BY <3>1, <2>2, <1>8
      <4>2. Cost(j - i + 1) \in Nat
        <5>1. j - i + 1 \in Nat
          BY <1>5
        <5>2. QED
          BY <5>1, CostOfOneMore
      <4>3. tokens' \in Nat /\ sent[i].at \in Nat
        BY <3>1, <1>0, <1>0a, <1>2, <1>3, <1>6 DEF Attempt
      <4>4. sent'[j].at = now /\ sent'[i].at = sent[i].at
        BY <3>1, <2>2, <1>5
      <4>5. QED
        BY <1>0, <4>1, <4>2, <4>3, <4>4
    <3>2. CASE i = n + 1
      <4>1. j - i + 1 = 1
        BY <3>2, <2>2, <1>5
      <4>2. sent'[j].at - sent'[i].at = 0
        BY <3>2, <2>2, <1>0, <1>5
      <4>3. QED
        BY <4>1, <4>2, <1>0, FullType
    <3>3. QED
      BY <3>1, <3>2, <1>5
  <2>3. QED
    BY <2>1, <2>2, <1>5
<1>11. Heard'
  <2> SUFFICES ASSUME NEW i \in 1..(n + 1) PROVE sent'[i].dated \/ sent'[i].told <= sent'[i].at
    BY <1>5 DEF Heard
  <2>1. CASE i \in 1..n
    BY <2>1, <1>1, <1>5 DEF Heard
  <2>2. CASE i = n + 1
    BY <2>2, <1>4, <1>5
  <2>3. QED
    BY <2>1, <2>2, <1>5
<1>12. SleepInv' /\ HeardInv'
  BY <1>3 DEF SleepInv, HeardInv
<1>13. QED
  BY <1>7, <1>9, <1>10, <1>11, <1>12 DEF Inv

\* Falling asleep for a token.
LEMMA DrainedInv == Inv /\ Drained => Inv'
<1> SUFFICES ASSUME Inv, Drained PROVE Inv'
  OBVIOUS
<1>1. BucketType /\ BucketInv /\ HeardInv /\ Kept /\ Heard
  BY DEF Inv
<1>0. /\ now \in Nat /\ refilled \in 0..now /\ tokens \in 0..Full
      /\ Full \in Nat /\ Full >= Period /\ Period \in Nat
  BY <1>1, FullType, HttpAssumption DEF BucketType
<1>0a. Refill \in 0..Full /\ Refill <= tokens + (now - refilled)
  BY <1>1, RefillBounds
<1>2. /\ tokens' = Refill /\ refilled' = now /\ now' = now /\ wake' = now + (Period - Refill)
      /\ phase' = "drained" /\ told' = told /\ dated' = dated /\ sent' = sent /\ Refill < Period
      /\ phase = "acquire"
  BY DEF Drained
<1>3. BucketType'
  <2>1. tokens' \in 0..Full /\ refilled' \in 0..now'
    BY <1>0, <1>0a, <1>2
  <2>2. QED
    BY <2>1, <1>1, <1>2 DEF BucketType
<1>4. BucketInv'
  <2> SUFFICES ASSUME NEW i \in 1..Len(sent)
               PROVE  /\ sent[i].at <= now
                      /\ Cost(Len(sent) - i + 1) + Refill <= Full + (now - sent[i].at)
    BY <1>2 DEF BucketInv
  <2>1. sent[i] \in Attempt /\ Len(sent) \in Nat
    BY <1>1, ElementOfSeq, LenProperties DEF BucketType
  <2>2. Cost(Len(sent) - i + 1) \in Nat
    <3>1. Len(sent) - i + 1 \in Nat
      BY <2>1
    <3>2. QED
      BY <3>1, CostOfOneMore
  <2>3. sent[i].at \in Nat
    BY <2>1 DEF Attempt
  <2>4. sent[i].at <= refilled
        /\ Cost(Len(sent) - i + 1) + tokens <= Full + (refilled - sent[i].at)
    BY <1>1 DEF BucketInv
  <2>5. QED
    <3>1. sent[i].at <= now
      BY <2>3, <2>4, <1>0
    <3>2. now \in Int /\ refilled \in Int /\ tokens \in Int /\ Full \in Int /\ Refill \in Int
          /\ sent[i].at \in Int /\ Cost(Len(sent) - i + 1) \in Int
      BY <1>0, <1>0a, <2>2, <2>3
    <3>3. Cost(Len(sent) - i + 1) + Refill <= Full + (now - sent[i].at)
      BY <3>2, <1>0a, <2>4, SlackOfRefill
    <3>4. QED
      BY <3>1, <3>3
<1>5. SleepInv'
  BY <1>0, <1>0a, <1>2 DEF SleepInv
<1>6. HeardInv'
  BY <1>1, <1>2 DEF HeardInv
<1>7. Kept' /\ Heard'
  BY <1>1, <1>2 DEF Kept, Heard
<1>8. QED
  BY <1>3, <1>4, <1>5, <1>6, <1>7 DEF Inv

\* Until when an answer asks to wait is a time.
LEMMA AskType ==
  ASSUME now \in Nat, NEW answer \in Answers
  PROVE  AsksUntil(answer) \in Nat /\ (answer.after # None /\ answer.dated) \in BOOLEAN
<1>1. /\ answer.after = None \/ answer.after \in Nat
      /\ answer.reset = None \/ answer.reset \in Nat
      /\ answer.dated \in BOOLEAN
  BY HttpAssumption DEF Answers
<1> QED BY <1>1 DEF AsksUntil

\* What is not asked with a date is waited for, wherever the clock starts.
LEMMA AskIsKept ==
  ASSUME now \in Nat, NEW answer \in Answers, ~(answer.after # None /\ answer.dated)
  PROVE  \/ AsksUntil(answer) = 0
         \/ /\ now + RetryDelay(answer) \in Nat
            /\ AsksUntil(answer) <= now + RetryDelay(answer)
<1>1. /\ answer.after = None \/ answer.after \in Nat
      /\ answer.reset = None \/ answer.reset \in Nat
      /\ answer.dated \in BOOLEAN
  BY HttpAssumption DEF Answers
<1>2. CASE answer.after # None
  <2>1. RetryDelay(answer) = Higher(answer.after, 1) /\ AsksUntil(answer) = now + answer.after
    BY <1>1, <1>2 DEF RetryDelay, AsksUntil
  <2> QED BY <1>1, <1>2, <2>1 DEF Higher
<1>3. CASE answer.after = None /\ answer.reset # None
  <2>1. /\ RetryDelay(answer) = Higher((Boot + now + answer.reset) - now, 1)
        /\ AsksUntil(answer) = now + answer.reset
    BY <1>3 DEF RetryDelay, AsksUntil, ResetEpoch
  <2> QED BY <1>1, <1>3, <2>1, HttpAssumption DEF Higher
<1>4. CASE answer.after = None /\ answer.reset = None
  BY <1>4 DEF AsksUntil
<1> QED BY <1>2, <1>3, <1>4

\* The steps in which nothing is charged.
LEMMA OtherInv ==
  ASSUME Inv,
         \/ Tick \/ Request \/ Broken \/ Surface \/ Retry
         \/ \E answer \in Answers : Refused(answer)
  PROVE  Inv'
<1> USE FullType, HttpAssumption
<1>1. BucketType /\ BucketInv /\ SleepInv /\ HeardInv /\ Kept /\ Heard
  BY DEF Inv
<1>2. CASE Tick
  <2>1. BucketInv' /\ Kept' /\ Heard'
    BY <1>1, <1>2, BucketUntouched DEF Tick
  <2>2. BucketType' /\ SleepInv' /\ HeardInv'
    BY <1>1, <1>2 DEF Tick, BucketType, SleepInv, HeardInv
  <2>3. QED
    BY <2>1, <2>2 DEF Inv
<1>3. CASE Request
  <2>1. BucketInv' /\ Kept' /\ Heard'
    BY <1>1, <1>3, BucketUntouched DEF Request
  <2>2. BucketType' /\ SleepInv' /\ HeardInv'
    <3>1. /\ phase' = "acquire" /\ told' = 0 /\ dated' = FALSE
          /\ UNCHANGED <<now, tokens, refilled, wake, sent>>
      BY <1>3 DEF Request
    <3>2. BucketType'
      BY <3>1, <1>1 DEF BucketType
    <3>3. SleepInv'
      BY <3>1 DEF SleepInv
    <3>4. now \in Nat
      BY <1>1 DEF BucketType
    <3>5. told' <= now' /\ phase' # "backoff"
      BY <3>1, <3>4
    <3> QED BY <3>2, <3>3, <3>5 DEF HeardInv
  <2>3. QED
    BY <2>1, <2>2 DEF Inv
<1>4. CASE Broken
  <2>1. BucketInv' /\ Kept' /\ Heard'
    BY <1>1, <1>4, BucketUntouched DEF Broken
  <2>2. BucketType' /\ SleepInv' /\ HeardInv'
    BY <1>1, <1>4 DEF Broken, BucketType, SleepInv, HeardInv
  <2>3. QED
    BY <2>1, <2>2 DEF Inv
<1>5. CASE Surface
  <2>1. BucketInv' /\ Kept' /\ Heard'
    BY <1>1, <1>5, BucketUntouched DEF Surface
  <2>2. BucketType' /\ SleepInv' /\ HeardInv'
    BY <1>1, <1>5 DEF Surface, BucketType, SleepInv, HeardInv
  <2>3. QED
    BY <2>1, <2>2 DEF Inv
<1>6. CASE Retry
  <2>1. BucketInv' /\ Kept' /\ Heard'
    BY <1>1, <1>6, BucketUntouched DEF Retry
  <2>2. BucketType' /\ SleepInv'
    BY <1>1, <1>6 DEF Retry, BucketType, SleepInv
  <2>3. dated \/ told <= now
    <3>1. CASE told = 0
      BY <3>1, <1>1 DEF BucketType
    <3>2. CASE told # 0
      BY <3>2, <1>1, <1>6 DEF Retry, BucketType, HeardInv
    <3>3. QED
      BY <3>1, <3>2
  <2>4. HeardInv'
    BY <2>3, <1>6 DEF Retry, HeardInv
  <2>5. QED
    BY <2>1, <2>2, <2>4 DEF Inv
<1>7. ASSUME NEW answer \in Answers, Refused(answer)
      PROVE  Inv'
  <2>1. BucketInv' /\ Kept' /\ Heard'
    BY <1>1, <1>7, BucketUntouched DEF Refused
  <2>2. now \in Nat
    BY <1>1 DEF BucketType
  <2>3. told' \in Nat /\ dated' \in BOOLEAN
    BY <2>2, <1>7, AskType DEF Refused
  <2>4. dated' \/ told' = 0 \/ (wake' \in Nat /\ told' <= wake')
    BY <2>2, <1>7, AskIsKept DEF Refused
  <2>5. BucketType' /\ SleepInv' /\ HeardInv'
    BY <2>3, <2>4, <1>1, <1>7 DEF Refused, BucketType, SleepInv, HeardInv
  <2>6. QED
    BY <2>1, <2>5 DEF Inv
<1>8. QED
  BY <1>2, <1>3, <1>4, <1>5, <1>6, <1>7

\* The invariant holds, for every rate, burst and answer.
THEOREM Invariance == Spec => []Inv
<1>1. Inv /\ [Next]_vars => Inv'
  <2> SUFFICES ASSUME Inv, [Next]_vars PROVE Inv'
    OBVIOUS
  <2>1. CASE Send
    BY <2>1, SendInv
  <2>2. CASE Drained
    BY <2>2, DrainedInv
  <2>3. CASE \/ Tick \/ Request \/ Broken \/ Surface \/ Retry
             \/ \E answer \in Answers : Refused(answer)
    BY <2>3, OtherInv
  <2>4. CASE UNCHANGED vars
    BY <2>4 DEF vars, Inv, BucketType, BucketInv, SleepInv, HeardInv, Kept, Heard
  <2>5. QED
    BY <2>1, <2>2, <2>3, <2>4 DEF Next
<1>2. QED
  BY <1>1, InitInv, PTL DEF Spec

\* TokenBucket.acquire: any stretch of time holds no more requests than the
\* burst and the rate over that stretch.
THEOREM RateKept == Spec => []RateIsKept
<1>1. Inv => RateIsKept
  <2> SUFFICES ASSUME Inv PROVE RateIsKept
    OBVIOUS
  <2>1. DOMAIN sent = 1..Len(sent)
    BY LenProperties DEF Inv, BucketType
  <2>2. QED
    BY <2>1 DEF Inv, Kept, Cost, RateIsKept
<1>2. QED
  BY <1>1, Invariance, PTL

\* HttpClient._request: no attempt goes out before the time the answer to the
\* one before it has named in seconds or as a reset, wherever the monotonic clock
\* starts.
THEOREM ServerHeard == Spec => []ServerIsHeard
<1>1. Inv => ServerIsHeard
  <2> SUFFICES ASSUME Inv PROVE ServerIsHeard
    OBVIOUS
  <2>1. DOMAIN sent = 1..Len(sent)
    BY LenProperties DEF Inv, BucketType
  <2>2. QED
    BY <2>1 DEF Inv, Heard, ServerIsHeard
<1>2. QED
  BY <1>1, Invariance, PTL

(***************************************************************************)
(* The type, with that of a backoff, which is a power of two.              *)
(***************************************************************************)

\* Powers of two count the subsets of a set; the provers know nothing else of
\* them.
LEMMA TwoTo ==
  ASSUME NEW n \in Nat
  PROVE  2 ^ n \in Nat /\ 2 ^ n >= 1 /\ 2 ^ 0 = 1
<1>1. IsFiniteSet(1..n) /\ Cardinality(1..n) = n
  <2>1. /\ IsFiniteSet(1..n)
        /\ Cardinality(1..n) = IF 1 > n THEN 0 ELSE n - 1 + 1
    BY FS_Interval
  <2>2. (IF 1 > n THEN 0 ELSE n - 1 + 1) = n
    OBVIOUS
  <2> QED BY <2>1, <2>2
<1> DEFINE S == 1..n
<1>2. IsFiniteSet(S) /\ Cardinality(S) = n
  BY <1>1
<1> HIDE DEF S
<1>3. Cardinality(SUBSET S) = 2 ^ n /\ IsFiniteSet(SUBSET S)
  BY <1>2, FS_SUBSET
<1>4. Cardinality(SUBSET S) \in Nat /\ Cardinality(SUBSET S) # 0
  <2>1. SUBSET S # {}
    OBVIOUS
  <2> DEFINE T == SUBSET S
  <2>2. T # {} /\ IsFiniteSet(T)
    BY <1>3, <2>1
  <2> HIDE DEF T
  <2> QED BY <2>2, FS_EmptySet, FS_CardinalityType DEF T
<1>5. 2 ^ 0 = 1
  <2> DEFINE E == {}
  <2>1. Cardinality(E) = 0 /\ IsFiniteSet(E)
    BY FS_EmptySet
  <2>2. SUBSET E = {E}
    OBVIOUS
  <2> HIDE DEF E
  <2>3. Cardinality(SUBSET E) = 2 ^ 0
    BY <2>1, FS_SUBSET
  <2>4. Cardinality({E}) = 1
    BY FS_Singleton
  <2> QED BY <2>2, <2>3, <2>4
<1> DEFINE m == 2 ^ n
<1>6. m \in Nat /\ m # 0
  BY <1>3, <1>4
<1> HIDE DEF m
<1>7. m >= 1
  BY <1>6
<1> QED BY <1>5, <1>6, <1>7 DEF m

\* Every sleep ends some time, and after a backoff there is an attempt left.
SleepType ==
  /\ wake \in Nat /\ attempt \in 1..MaxAttempts
  /\ phase = "backoff" => attempt < MaxAttempts

LEMMA BackoffType == ASSUME attempt \in Nat \ {0} PROVE Backoff \in Nat
<1> DEFINE n == attempt - 1
<1>1. n \in Nat
  OBVIOUS
<1>2. 2 ^ n \in Nat
  BY <1>1, TwoTo
<1> QED BY <1>2, HttpAssumption DEF Backoff, Lower

LEMMA SleepTypeStep ==
  ASSUME BucketType, SleepType, [Next]_vars
  PROVE  SleepType'
<1> USE HttpAssumption
<1>1. now \in Nat /\ attempt \in Nat \ {0}
  BY DEF BucketType, SleepType
<1>2. CASE Tick \/ Send \/ Surface \/ UNCHANGED vars
  BY <1>2 DEF SleepType, Tick, Send, Surface, vars
<1>3. CASE Request
  BY <1>3 DEF SleepType, Request
<1>4. CASE Drained
  <2>1. Refill \in 0..Full /\ Period \in Nat /\ Refill < Period
    BY <1>4, FullType, RefillBounds DEF Drained
  <2>2. now + (Period - Refill) \in Nat
    BY <1>1, <2>1, FullType
  <2> QED BY <1>4, <2>2 DEF SleepType, Drained
<1>5. ASSUME NEW answer \in Answers, Refused(answer) PROVE SleepType'
  <2>1. RetryDelay(answer) \in Nat
    <3>1. /\ answer.after = None \/ answer.after \in Nat
          /\ answer.reset = None \/ answer.reset \in Nat
          /\ answer.dated \in BOOLEAN
      BY DEF Answers
    <3>2. CASE answer.after # None /\ ~answer.dated
      BY <3>1, <3>2 DEF RetryDelay, Higher
    <3>3. CASE ~(answer.after # None /\ ~answer.dated) /\ answer.reset # None
      BY <1>1, <3>1, <3>3 DEF RetryDelay, ResetEpoch, Higher
    <3>4. CASE ~(answer.after # None /\ ~answer.dated) /\ answer.reset = None
      BY <1>1, <3>4, BackoffType DEF RetryDelay
    <3> QED BY <3>2, <3>3, <3>4
  <2> QED BY <1>1, <1>5, <2>1 DEF SleepType, Refused
<1>6. CASE Broken
  BY <1>1, <1>6, BackoffType DEF SleepType, Broken
<1>7. CASE Retry
  BY <1>7 DEF SleepType, Retry
<1> QED BY <1>2, <1>3, <1>4, <1>5, <1>6, <1>7 DEF Next

\* HttpClient: every variable keeps its type, for any rate, burst, number of
\* attempts and answers.
THEOREM TypeCorrect == Spec => []TypeOK
<1>1. Init => SleepType
  BY HttpAssumption DEF Init, SleepType
<1>2. Inv /\ SleepType /\ [Next]_vars => SleepType'
  BY SleepTypeStep DEF Inv
<1>3. Inv /\ SleepType => TypeOK
  BY DEF Inv, BucketType, SleepType, TypeOK, Attempt
<1> QED BY <1>1, <1>2, <1>3, Invariance, PTL DEF Spec

====
