---- MODULE GraphqlBatch ----
(***************************************************************************)
(* A batch of keys (repositories, profiles) asked of GraphQL with one alias *)
(* each (scrapers/github/client_gql.py).  A batch too heavy for the gateway *)
(* is halved until it goes through; an alias that failed is asked once more *)
(* on its own.  A request is one post_json, with the retries of the client  *)
(* behind it.                                                               *)
(***************************************************************************)
EXTENDS Naturals, Sequences, SequencesExt, FiniteSets

CONSTANT Keys   \* a batch, as a sequence without repetitions

Heavy == "HTTP 502 or 504"
Answers == {"object", "not found", "other error"}

VARIABLES
  queue,      \* batches to send, the next one first
  retried,    \* the keys are asked a second time
  results,    \* keys with an object
  missing,    \* keys that are not found: logged and dropped
  retryable,  \* keys that failed in the first round
  failures,   \* keys that failed in both: they become rejects
  raised,     \* another status ended it all
  asked       \* history: how often each key was part of a request that was answered

vars == <<queue, retried, results, missing, retryable, failures, raised, asked>>

AllKeys == ToSet(Keys)

Init ==
  /\ queue = <<Keys>> /\ retried = FALSE
  /\ results = {} /\ missing = {} /\ retryable = {} /\ failures = {}
  /\ raised = FALSE
  /\ asked = [k \in AllKeys |-> 0]

Batch == Head(queue)
Sending == queue # <<>> /\ ~raised

\* In the first round a key that failed is to be asked again, in the second it
\* has failed, whatever the answer (`not found' included).
Failed(answered, answer) ==
  {k \in answered : answer[k] = "other error" \/ (retried /\ answer[k] = "not found")}

\* The request is answered, alias by alias (_query_map).
Answered(answer) ==
  /\ Sending
  /\ LET keys == ToSet(Batch)
         failed == Failed(keys, answer)
     IN  /\ results' = results \cup {k \in keys : answer[k] = "object"}
         /\ missing' = missing \cup {k \in keys \ failed : answer[k] = "not found"}
         /\ retryable' = IF retried THEN retryable ELSE retryable \cup failed
         /\ failures' = IF retried THEN failures \cup failed ELSE failures
         /\ asked' = [k \in AllKeys |-> IF k \in keys THEN asked[k] + 1 ELSE asked[k]]
  /\ queue' = Tail(queue)
  /\ UNCHANGED <<retried, raised>>

\* Mutant: of an odd batch the key in the middle is in neither half.
Halves == LET middle == Len(Batch) \div 2
          IN  <<SubSeq(Batch, 1, middle), SubSeq(Batch, Len(Batch) - middle + 1, Len(Batch))>>

Split == LET middle == Len(Batch) \div 2
         IN  <<SubSeq(Batch, 1, middle), SubSeq(Batch, middle + 1, Len(Batch))>>

\* The gateway times out: a batch is halved, a single key has failed.
TooHeavy ==
  /\ Sending
  /\ IF Len(Batch) > 1
     THEN /\ queue' = Split \o Tail(queue)
          /\ UNCHANGED <<retryable, failures>>
     ELSE /\ queue' = Tail(queue)
          /\ retryable' = IF retried THEN retryable ELSE retryable \cup ToSet(Batch)
          /\ failures' = IF retried THEN failures \cup ToSet(Batch) ELSE failures
  /\ UNCHANGED <<retried, results, missing, raised, asked>>

\* Any other status that is left after the client's retries.
OtherStatus ==
  /\ Sending
  /\ raised' = TRUE
  /\ UNCHANGED <<queue, retried, results, missing, retryable, failures, asked>>

\* The second round: each key that failed, on its own (_with_retry).
AskAgain ==
  /\ queue = <<>> /\ ~retried /\ ~raised
  /\ retried' = TRUE
  /\ queue' = [i \in 1..Cardinality(retryable) |-> <<SetToSeq(retryable)[i]>>]
  /\ UNCHANGED <<results, missing, retryable, failures, raised, asked>>

Next ==
  \/ \E answer \in [AllKeys -> Answers] : Answered(answer)
  \/ TooHeavy \/ OtherStatus \/ AskAgain

Spec == Init /\ [][Next]_vars

Done == queue = <<>> /\ retried /\ ~raised

----
(* Properties *)

TypeOK ==
  /\ queue \in Seq(Seq(AllKeys)) /\ {retried, raised} \subseteq BOOLEAN
  /\ {results, missing, retryable, failures} \subseteq SUBSET AllKeys
  /\ asked \in [AllKeys -> Nat]

\* Halving and asking again lose no key and count none twice: in the end each
\* has its object, is known not to be there, or is a failure, and was answered
\* at most twice.
EveryKeyHasAnAnswer ==
  /\ Done => results \cup missing \cup failures = AllKeys
  /\ results \cap missing = {} /\ results \cap failures = {} /\ missing \cap failures = {}
  /\ \A k \in AllKeys : asked[k] <= 2

====
