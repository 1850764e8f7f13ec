---- MODULE HttpClient ----
(***************************************************************************)
(* The one HTTP client of the scrapers (scrapers/common/http.py): a token   *)
(* bucket in front of a loop of attempts.  Time is in seconds; tokens are   *)
(* counted in parts, so that a second refills one part and a request costs  *)
(* Period of them.                                                          *)
(***************************************************************************)
EXTENDS Integers, Sequences

CONSTANTS
  Period,       \* seconds per token: 1 / rate_per_sec
  Capacity,     \* tokens of a full bucket
  MaxAttempts,
  BackoffCap,   \* BACKOFF_CAP_SECONDS
  Hints,        \* seconds a server may ask to wait
  Boot,         \* what time.time() is when time.monotonic() is 0
  MaxTime,      \* bound on the clock
  MaxSent       \* bound on what is sent

ASSUME HttpAssumption ==
  /\ {Period, Capacity, MaxAttempts, BackoffCap} \subseteq Nat \ {0}
  /\ {MaxTime, MaxSent, Boot} \subseteq Nat
  /\ Hints \subseteq Nat

VARIABLES
  now,                \* time.monotonic(), the clock every caller hands in
  tokens, refilled,   \* the bucket and when it was last filled
  phase,              \* "idle", "acquire", "drained", "sent" or "backoff"
  attempt,            \* number of the attempt under way
  wake,               \* when a sleep ends
  told, dated,        \* history: not before then, the server said, with a date
  sent                \* history: per attempt [at, told, dated]

vars == <<now, tokens, refilled, phase, attempt, wake, told, dated, sent>>

Lower(a, b) == IF a < b THEN a ELSE b
Higher(a, b) == IF a < b THEN b ELSE a

Full == Capacity * Period

Init ==
  /\ now = 0 /\ tokens = Full /\ refilled = 0
  /\ phase = "idle" /\ attempt = 1 /\ wake = 0
  /\ told = 0 /\ dated = FALSE /\ sent = <<>>

\* A sleep may last longer than asked, an answer may take its time.
Tick ==
  /\ now < MaxTime
  /\ now' = now + 1
  /\ UNCHANGED <<tokens, refilled, phase, attempt, wake, told, dated, sent>>

Request ==
  /\ phase = "idle"
  /\ Len(sent) < MaxSent
  /\ phase' = "acquire" /\ attempt' = 1 /\ told' = 0 /\ dated' = FALSE
  /\ UNCHANGED <<now, tokens, refilled, wake, sent>>

\* Mutant: what a long pause refills is not capped.
Uncapped == tokens + (now - refilled)

Refill == Lower(Full, tokens + (now - refilled))

\* acquire and the sending after it, when there is a token; after the sleep
\* for one nothing looks again.
Send ==
  /\ \/ phase = "acquire" /\ Refill >= Period
     \/ phase = "drained" /\ now >= wake
  /\ tokens' = Refill - Period /\ refilled' = now
  /\ phase' = "sent"
  /\ sent' = Append(sent, [at |-> now, told |-> told, dated |-> dated])
  /\ UNCHANGED <<now, attempt, wake, told, dated>>

\* acquire sleeps just as long as the missing part takes.
Drained ==
  /\ phase = "acquire"
  /\ Refill < Period
  /\ tokens' = Refill /\ refilled' = now
  /\ wake' = now + (Period - Refill)
  /\ phase' = "drained"
  /\ UNCHANGED <<now, attempt, told, dated, sent>>

Backoff == Lower(BackoffCap, 2 ^ (attempt - 1))

\* What an answer that is retried names: seconds to wait or a date in its
\* Retry-After, the reset of a secondary limit (403 and nothing remaining).  All
\* are counted from now; None is a header that is not there.
None == -1
Answers == [after : Hints \cup {None}, dated : BOOLEAN, reset : Hints \cup {None}]

\* x-ratelimit-reset is a time of day.
ResetEpoch(answer) == Boot + now + answer.reset

\* Mutant: the backoff is kept whatever the server says.
OnlyBackoff(answer) == Backoff

\* At least a second for what the server names.  A Retry-After that is a date is
\* passed over, and the clock is taken from a time of day, whatever its zero is.
RetryDelay(answer) ==
  IF answer.after # None /\ ~answer.dated THEN Higher(answer.after, 1)
  ELSE IF answer.reset # None THEN Higher(ResetEpoch(answer) - now, 1)
  ELSE Backoff

\* Until when an answer asks to wait; Retry-After comes before the reset.
AsksUntil(answer) ==
  IF answer.after # None THEN now + answer.after
  ELSE IF answer.reset # None THEN now + answer.reset
  ELSE 0

\* 429, 5xx or a secondary limit, and not the last attempt.
Refused(answer) ==
  /\ phase = "sent"
  /\ attempt < MaxAttempts
  /\ wake' = now + RetryDelay(answer)
  /\ told' = AsksUntil(answer)
  /\ dated' = (answer.after # None /\ answer.dated)
  /\ phase' = "backoff"
  /\ UNCHANGED <<now, tokens, refilled, attempt, sent>>

\* No answer at all (httpx.TransportError), and not the last attempt.
Broken ==
  /\ phase = "sent"
  /\ attempt < MaxAttempts
  /\ wake' = now + Backoff
  /\ told' = 0 /\ dated' = FALSE
  /\ phase' = "backoff"
  /\ UNCHANGED <<now, tokens, refilled, attempt, sent>>

\* An answer that is not retried, or the last attempt: the caller has it.
Surface ==
  /\ phase = "sent"
  /\ phase' = "idle"
  /\ UNCHANGED <<now, tokens, refilled, attempt, wake, told, dated, sent>>

Retry ==
  /\ phase = "backoff"
  /\ now >= wake
  /\ Len(sent) < MaxSent
  /\ attempt' = attempt + 1
  /\ phase' = "acquire"
  /\ UNCHANGED <<now, tokens, refilled, wake, told, dated, sent>>

Next ==
  \/ Tick \/ Request \/ Send \/ Drained
  \/ \E answer \in Answers : Refused(answer)
  \/ Broken \/ Surface \/ Retry

Spec == Init /\ [][Next]_vars

----
(* Properties *)

TypeOK ==
  /\ now \in 0..MaxTime /\ refilled \in 0..now
  /\ tokens \in 0..Full
  /\ phase \in {"idle", "acquire", "drained", "sent", "backoff"}
  /\ attempt \in 1..MaxAttempts
  /\ wake \in Nat /\ told \in Nat /\ dated \in BOOLEAN
  /\ sent \in Seq([at : 0..MaxTime, told : Nat, dated : BOOLEAN])

\* However requests, retries and pauses fall, any stretch of time holds no
\* more requests than the bucket's burst and the rate over that stretch.
RateIsKept ==
  \A i, j \in DOMAIN sent :
    i <= j => (j - i + 1) * Period <= Full + (sent[j].at - sent[i].at)

\* No attempt of a request goes out before the time the answer to the one
\* before it has named, be it as the seconds of a Retry-After or as the reset of
\* a secondary limit, wherever the clock that is taken from the reset starts.
\* Not so for a Retry-After that is a date, which nothing reads.
ServerIsHeard == \A i \in DOMAIN sent : sent[i].dated \/ sent[i].told <= sent[i].at

====
