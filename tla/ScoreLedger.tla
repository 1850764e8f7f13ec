---- MODULE ScoreLedger ----
(***************************************************************************)
(* The scores and memos of one venture and the ledger of the runs that     *)
(* write them: scoring/rescore.py, stage_a.py and memo.py, driven by the   *)
(* server (app/rescoring.py) and by the jobs of scoring/cli.py.            *)
(*                                                                         *)
(* A writer reads the prior rows, computes, and merges its new row         *)
(* together with copies of the rows it saw as the latest, whose is_latest  *)
(* is now false.  One merge is atomic; nothing holds two of them together. *)
(*                                                                         *)
(* With fixtures the server has its tables in memory, starting from        *)
(* fixtures/data, and is alone: a handler runs in one go and a restart     *)
(* starts again from the fixtures.  Live, the tables are in the warehouse, *)
(* the server reads them through an allowlist, and the jobs read a         *)
(* directory of exported tables, which is fixtures/data unless they are    *)
(* told otherwise, and write to the warehouse.                             *)
(***************************************************************************)
EXTENDS Naturals, Sequences, FiniteSets

CONSTANTS
  Modes,          \* TRUE: live, FALSE: with fixtures
  Jobs,           \* processes of the command line
  MaxInterviews,  \* bound: rows of gold.interview
  MaxSilver,      \* bound: changes of the silver tables
  MaxRows         \* bound: rows added to each of the other tables

ASSUME ModesAssumption == Modes \subseteq BOOLEAN

ASSUME BoundsAssumption ==
  /\ MaxInterviews \in Nat \ {0}
  /\ MaxSilver \in Nat
  /\ MaxRows \in Nat

VARIABLES
  live,        \* how the server was started
  silver,      \* version of the silver tables
  interviews,  \* number of completed interviews, the newest is the last
  runs,        \* gold.score_run: fingerprint and status
  scores,      \* gold.venture_score: fingerprint of the run, is_latest
  memos,       \* gold.memo: is_latest
  export,      \* what the jobs read
  pc,          \* next merge of a job
  work         \* what the job has computed

tables == <<silver, interviews, runs, scores, memos>>
jobVars == <<pc, work>>
vars == <<live, tables, export, jobVars>>

----
(* Tables *)

\* A run is told by the interview and the silver snapshot it is computed from.
Fingerprint == [interview : 1..MaxInterviews, silver : 0..MaxSilver]

\* Scores of stage-a belong to no run.
NoRun == [interview |-> 0, silver |-> 0]

RunRow == [of : Fingerprint, status : {"ok", "skipped_duplicate"}]
ScoreRow == [of : Fingerprint \cup {NoRun}, latest : BOOLEAN]

\* The venture of fixtures/data that has an interview.
SeedScores == <<[of |-> NoRun, latest |-> FALSE], [of |-> NoRun, latest |-> TRUE]>>
SeedMemos == <<TRUE>>

Settled == {runs[n].of : n \in {m \in DOMAIN runs : runs[m].status = "ok"}}

LatestScores == {n \in DOMAIN scores : scores[n].latest}
LatestMemos == {n \in DOMAIN memos : memos[n]}

\* The tables as a scoring job sees them.
Snapshot ==
  [silver |-> silver, interviews |-> interviews, settled |-> Settled,
   scores |-> LatestScores, memos |-> LatestMemos]

Snapshots ==
  [silver : 0..MaxSilver, interviews : 1..MaxInterviews, settled : SUBSET Fingerprint,
   scores : SUBSET Nat, memos : SUBSET Nat]

\* What a job has computed and is going to merge: the fingerprint, whether the
\* run is a repeat, and the rows it saw as the latest.
Output ==
  [of : Fingerprint \cup {NoRun}, duplicate : BOOLEAN, scores : SUBSET Nat, memos : SUBSET Nat]

SeedSnapshot ==
  [silver |-> 0, interviews |-> 1, settled |-> {}, scores |-> {2}, memos |-> {1}]

\* The work of a job that does not run.
Resting == [of |-> NoRun, duplicate |-> FALSE, scores |-> {}, memos |-> {}]

Init ==
  /\ live \in Modes
  /\ silver = 0
  /\ interviews = 1
  /\ runs = <<>>
  /\ scores = SeedScores
  /\ memos = SeedMemos
  /\ export = SeedSnapshot
  /\ pc = [j \in Jobs |-> "idle"]
  /\ work = [j \in Jobs |-> Resting]

----
(* Merges *)

HasRoom(rows, seed) == Len(rows) < Len(seed) + MaxRows

\* Mutant: the ledger is not looked at.
NeverDuplicate(settled, of) == FALSE

IsDuplicate(settled, of) == of \in settled

\* Mutant: the row is merged when the run starts.
AddUnfinishedRun(of, duplicate) ==
  /\ HasRoom(runs, <<>>)
  /\ runs' = Append(runs, [of |-> of, status |-> "running"])

AddRun(of, duplicate) ==
  /\ HasRoom(runs, <<>>)
  /\ runs' =
       Append(runs, [of |-> of, status |-> IF duplicate THEN "skipped_duplicate" ELSE "ok"])

\* Mutant: the copies of the rows that were seen as the latest stay the latest.
CopiedFlag(latest, n, seen) == latest \/ n \in seen

\* Mutant: the flag is worked out again from what the writer saw.
RecomputedFlag(latest, n, seen) == n \notin seen

\* The flag of row n after a merge by a writer that saw the rows seen as the latest.
Flag(latest, n, seen) == latest /\ n \notin seen

\* Mutant: a new row waits for something else to serve it.
Unserved == FALSE

Served == TRUE

AddScore(of, seen) ==
  /\ HasRoom(scores, SeedScores)
  /\ scores' =
       Append([n \in DOMAIN scores |->
                 [scores[n] EXCEPT !.latest = Flag(scores[n].latest, n, seen)]],
              [of |-> of, latest |-> Served])

AddMemo(seen) ==
  /\ HasRoom(memos, SeedMemos)
  /\ memos' = Append([n \in DOMAIN memos |-> Flag(memos[n], n, seen)], Served)

----
(* The server *)

\* What run_interview_rescore reads.
InputTables ==
  {"silver.project", "silver.company", "silver.publication", "silver.contribution",
   "silver.authorship", "silver.officer", "silver.person", "silver.person_connection",
   "bronze.zefix_sogc_raw", "bronze.hacknation_projects_raw", "silver.person_source_link",
   "gold.thesis", "gold.score_weights", "gold.ideal_candidate", "gold.venture",
   "gold.venture_member", "gold.venture_score", "gold.interview", "gold.person_features",
   "gold.institution_score", "gold.memo", "gold.score_run"}

READABLE_NAMES ==
  {"gold.thesis", "gold.score_weights", "gold.ideal_candidate", "gold.candidate_pool",
   "gold.venture", "gold.venture_member", "gold.venture_score", "gold.venture_gaps",
   "gold.memo", "gold.outreach", "gold.interview", "gold.score_run",
   "gold.person_features", "gold.institution_score", "gold.v_ranked_ventures",
   "gold.v_venture_team", "gold.v_person_network", "gold.v_person_similarity",
   "gold.v_person_signals", "silver.person", "silver.person_connection",
   "silver.person_source_link", "silver.person_source_record", "silver.project",
   "silver.company", "silver.publication", "silver.contribution", "silver.authorship",
   "silver.officer", "bronze.zefix_sogc_raw", "ops.erasure_suppression"}

\* A live read of a name that is not in the allowlist raises.
Readable(name) == live => name \in READABLE_NAMES

\* InterviewEngine.complete keeps an interview (module Interview).
KeepInterview ==
  /\ interviews < MaxInterviews
  /\ interviews' = interviews + 1
  /\ UNCHANGED <<live, silver, runs, scores, memos, export, jobVars>>

\* run_interview_rescore of the newest interview, at the end of complete or on
\* request (rescore_post).
Rescore ==
  /\ \A name \in InputTables : Readable(name)
  /\ LET of == [interview |-> interviews, silver |-> silver]
         duplicate == IsDuplicate(Settled, of)
     IN
       /\ AddRun(of, duplicate)
       /\ \/ /\ duplicate
             /\ UNCHANGED <<scores, memos>>
          \/ /\ ~duplicate
             /\ AddScore(of, LatestScores)
             /\ AddMemo(LatestMemos)
  /\ UNCHANGED <<live, silver, interviews, export, jobVars>>

\* The overlay of FixtureStore goes with the process.
Restart ==
  /\ ~live
  /\ silver' = 0
  /\ interviews' = 1
  /\ runs' = <<>>
  /\ scores' = SeedScores
  /\ memos' = SeedMemos
  /\ UNCHANGED <<live, export, jobVars>>

----
(* The jobs *)

\* A job reads the export and computes all it will merge.
Begin(j, first, output) ==
  /\ live
  /\ pc[j] = "idle"
  /\ pc' = [pc EXCEPT ![j] = first]
  /\ work' = [work EXCEPT ![j] = output]
  /\ UNCHANGED <<live, tables, export>>

GoOn(j, from, to) ==
  /\ pc[j] = from
  /\ pc' = [pc EXCEPT ![j] = to]
  /\ work' = IF to = "idle" THEN [work EXCEPT ![j] = Resting] ELSE work

StageA(j) == Begin(j, "score", [Resting EXCEPT !.scores = export.scores])

Memo(j) == Begin(j, "memo", [Resting EXCEPT !.memos = export.memos])

\* Mutant: a rescore merges the score before the run.
ScoreFirst == "score"

RunFirst == "run"

\* The interview is the first of the venture in the exported table, whichever
\* that is.
RescoreJob(j) ==
  \E i \in 1..export.interviews :
    LET of == [interview |-> i, silver |-> export.silver] IN
      Begin(j, RunFirst,
            [of |-> of, duplicate |-> IsDuplicate(export.settled, of),
             scores |-> export.scores, memos |-> export.memos])

MergeRun(j) ==
  /\ AddRun(work[j].of, work[j].duplicate)
  /\ GoOn(j, "run", IF work[j].duplicate THEN "idle" ELSE "score")
  /\ UNCHANGED <<live, silver, interviews, scores, memos, export>>

\* stage-a ends with its score, a rescore goes on to the memo.
MergeScore(j) ==
  /\ AddScore(work[j].of, work[j].scores)
  /\ GoOn(j, "score", IF work[j].of = NoRun THEN "idle" ELSE "memo")
  /\ UNCHANGED <<live, silver, interviews, runs, memos, export>>

MergeMemo(j) ==
  /\ AddMemo(work[j].memos)
  /\ GoOn(j, "memo", "idle")
  /\ UNCHANGED <<live, silver, interviews, runs, scores, export>>

\* An exception or a crash.
Abandon(j) ==
  /\ pc[j] # "idle"
  /\ GoOn(j, pc[j], "idle")
  /\ UNCHANGED <<live, tables, export>>

----
(* The pipelines around them, live *)

\* The tables are exported for the jobs to come.
Export ==
  /\ live
  /\ export' = Snapshot
  /\ UNCHANGED <<live, tables, jobVars>>

\* Scrapers and entity resolution move the silver tables.
MoveSilver ==
  /\ live
  /\ silver < MaxSilver
  /\ silver' = silver + 1
  /\ UNCHANGED <<live, interviews, runs, scores, memos, export, jobVars>>

\* An unmerge of a member of the team withdraws the scores of the venture.
Invalidate ==
  /\ live
  /\ scores' = [n \in DOMAIN scores |-> [scores[n] EXCEPT !.latest = FALSE]]
  /\ UNCHANGED <<live, silver, interviews, runs, memos, export, jobVars>>

----

Server == KeepInterview \/ Rescore \/ Restart

Job(j) ==
  \/ StageA(j)
  \/ Memo(j)
  \/ RescoreJob(j)
  \/ MergeRun(j)
  \/ MergeScore(j)
  \/ MergeMemo(j)
  \/ Abandon(j)

Next ==
  \/ Server
  \/ \E j \in Jobs : Job(j)
  \/ Export
  \/ MoveSilver
  \/ Invalidate

Spec == Init /\ [][Next]_vars

\* The server rescores as long as it is asked to, and an interview asks.
FairSpec == Spec /\ WF_vars(Rescore)

----
(* Properties *)

TypeOK ==
  /\ live \in Modes
  /\ silver \in 0..MaxSilver
  /\ interviews \in 1..MaxInterviews
  /\ runs \in Seq(RunRow)
  /\ scores \in Seq(ScoreRow)
  /\ memos \in Seq(BOOLEAN)
  /\ export \in Snapshots
  /\ pc \in [Jobs -> {"idle", "run", "score", "memo"}]
  /\ work \in [Jobs -> Output]

\* Whatever crashes, repeats and overlaps: a score that comes from an interview
\* has its run in the ledger, with the status ok.
ScoresAreRecorded ==
  \A n \in DOMAIN scores : scores[n].of # NoRun => scores[n].of \in Settled

\* Whenever some score is served, the newest one is; the newest memo always is.
\* Writers with old exports may leave older rows served beside it, but never
\* instead of it.
NewestIsServed ==
  /\ (\E n \in DOMAIN scores : scores[n].latest) => scores[Len(scores)].latest
  /\ memos[Len(memos)]

\* The server alone keeps the ledger exact: one score and one memo are served, an
\* interview is scored once per silver snapshot, however often the rescore is
\* asked for, and exactly the interviews of the ok runs are scored.
AloneIsExact ==
  ~live =>
    /\ \E n \in DOMAIN scores : LatestScores = {n}
    /\ \E n \in DOMAIN memos : LatestMemos = {n}
    /\ \A m, n \in DOMAIN scores :
         scores[m].of # NoRun /\ scores[m].of = scores[n].of => m = n
    /\ Settled = {scores[n].of : n \in DOMAIN scores} \ {NoRun}

ScoreFlags == [n \in DOMAIN scores |-> scores[n].latest]

SeedFlags == [n \in DOMAIN SeedScores |-> SeedScores[n].latest]

ScoreLog == INSTANCE AppendOnly WITH served <- ScoreFlags, Seed <- SeedFlags

MemoLog == INSTANCE AppendOnly WITH served <- memos, Seed <- SeedMemos

\* No writer, however old its export, takes a row away or serves again a score
\* that was superseded or withdrawn.
ScoresAppendOnly == ScoreLog!Spec

\* The same of the memos.
MemosAppendOnly == MemoLog!Spec

----
(* What the documents say, and the code does not keep. *)

\* "append-only; exactly one is_latest row per venture" (docs/contract.md): at
\* most one, once the ones an unmerge withdrew are set apart.
OneLatestScore == \A m, n \in LatestScores : m = n

\* gold.interview "triggers rescore" (schemas/ddl/30_gold.sql): every interview
\* kept after the seed is scored in the end, or superseded by a newer one, or
\* the bound on the ledger is used up.
InterviewTriggersRescore ==
  \A i \in 2..MaxInterviews :
    interviews = i ~>
      \/ \E n \in DOMAIN scores : scores[n].of.interview = i
      \/ interviews > i
      \/ ~HasRoom(runs, <<>>)

====
