---- MODULE ScoreLedger_proofs ----
(***************************************************************************)
(* Proofs about the module ScoreLedger, for any number of jobs, rows and   *)
(* silver snapshots: its invariants, and that the scores and the memos     *)
(* implement AppendOnly.                                                   *)
(***************************************************************************)
EXTENDS ScoreLedger, SequenceTheorems, TLAPS

(***************************************************************************)
(* The inductive invariant: the properties, and what a job knows between   *)
(* two of its merges.                                                      *)
(***************************************************************************)

\* A job that is about to merge the score of a run has merged the run; a job
\* only runs live.
JobInv ==
  \A j \in Jobs :
    /\ pc[j] = "run" => work[j].of # NoRun
    /\ pc[j] = "score" => work[j].of = NoRun \/ work[j].of \in Settled
    /\ pc[j] # "idle" => live

\* The seeds are there.
SeedInv == scores # <<>> /\ memos # <<>>

Inv ==
  /\ TypeOK
  /\ SeedInv
  /\ JobInv
  /\ ScoresAreRecorded
  /\ NewestIsServed
  /\ AloneIsExact

(***************************************************************************)
(* Facts about single definitions.                                         *)
(***************************************************************************)

\* The scores of stage-a are told from those of every run.
LEMMA NoRunIsNoFingerprint == NoRun \notin Fingerprint
BY BoundsAssumption DEF NoRun, Fingerprint

\* What is settled are fingerprints.
LEMMA SettledType ==
  ASSUME runs \in Seq(RunRow)
  PROVE  Settled \subseteq Fingerprint
<1>1. \A n \in DOMAIN runs : runs[n] \in RunRow
  BY ElementOfSeq, LenProperties
<1>2. QED
  BY <1>1 DEF Settled, RunRow

\* What one merge of a score does to the table.
LEMMA ScoreAdded ==
  ASSUME scores \in Seq(ScoreRow), NEW of \in Fingerprint \cup {NoRun}, NEW seen,
         AddScore(of, seen)
  PROVE  /\ scores' \in Seq(ScoreRow)
         /\ Len(scores') = Len(scores) + 1
         /\ scores' # <<>>
         /\ \A n \in DOMAIN scores :
              /\ scores'[n].of = scores[n].of
              /\ (scores'[n].latest <=> scores[n].latest /\ n \notin seen)
         /\ scores'[Len(scores) + 1] = [of |-> of, latest |-> TRUE]
<1> DEFINE old == [n \in DOMAIN scores |->
                     [scores[n] EXCEPT !.latest = Flag(scores[n].latest, n, seen)]]
           new == [of |-> of, latest |-> TRUE]
<1>0. \A n \in 1..Len(scores) : scores[n] \in ScoreRow
  BY ElementOfSeq
<1>1. old \in Seq(ScoreRow) /\ Len(old) = Len(scores)
  <2>1. \A n \in 1..Len(scores) :
          [scores[n] EXCEPT !.latest = Flag(scores[n].latest, n, seen)] \in ScoreRow
    BY <1>0 DEF ScoreRow, Flag
  <2>2. old \in [1..Len(scores) -> ScoreRow]
    BY <2>1, LenProperties
  <2>3. QED
    BY <2>2, LenProperties
<1>2. \A n \in DOMAIN scores :
        /\ old[n].of = scores[n].of
        /\ (old[n].latest <=> scores[n].latest /\ n \notin seen)
  BY <1>0, LenProperties DEF ScoreRow, Flag
<1>3. new \in ScoreRow
  BY DEF ScoreRow
<1>4. scores' = Append(old, new)
  BY DEF AddScore, Served
<1> HIDE DEF old, new
<1>5. /\ scores' \in Seq(ScoreRow)
      /\ Len(scores') = Len(scores) + 1
      /\ \A n \in 1..Len(scores) : scores'[n] = old[n]
      /\ scores'[Len(scores) + 1] = new
  BY <1>1, <1>3, <1>4, AppendProperties
<1>6. QED
  BY <1>2, <1>5, LenProperties, EmptySeq DEF new

\* What one merge of a memo does to the table.
LEMMA MemoAdded ==
  ASSUME memos \in Seq(BOOLEAN), NEW seen, AddMemo(seen)
  PROVE  /\ memos' \in Seq(BOOLEAN)
         /\ Len(memos') = Len(memos) + 1
         /\ memos' # <<>>
         /\ \A n \in DOMAIN memos : (memos'[n] <=> memos[n] /\ n \notin seen)
         /\ memos'[Len(memos) + 1]
<1> DEFINE old == [n \in DOMAIN memos |-> Flag(memos[n], n, seen)]
<1>1. old \in Seq(BOOLEAN) /\ Len(old) = Len(memos)
  <2>1. old \in [1..Len(memos) -> BOOLEAN]
    BY LenProperties DEF Flag
  <2>2. QED
    BY <2>1, LenProperties
<1>2. \A n \in DOMAIN memos : (old[n] <=> memos[n] /\ n \notin seen)
  BY DEF Flag
<1> DEFINE new == TRUE
<1>3. memos' = Append(old, new) /\ new \in BOOLEAN
  BY DEF AddMemo, Served
<1> HIDE DEF old, new
<1>4. /\ memos' \in Seq(BOOLEAN)
      /\ Len(memos') = Len(memos) + 1
      /\ \A n \in 1..Len(memos) : memos'[n] = old[n]
      /\ memos'[Len(memos) + 1] = new
  BY <1>1, <1>3, AppendProperties
<1>5. QED
  BY <1>2, <1>4, LenProperties, EmptySeq DEF new

\* What one merge of a run does to the ledger.
LEMMA RunAdded ==
  ASSUME runs \in Seq(RunRow), NEW of \in Fingerprint, NEW duplicate \in BOOLEAN,
         AddRun(of, duplicate)
  PROVE  /\ runs' \in Seq(RunRow)
         /\ Settled' = IF duplicate THEN Settled ELSE Settled \cup {of}
<1> DEFINE row == [of |-> of, status |-> IF duplicate THEN "skipped_duplicate" ELSE "ok"]
<1>1. row \in RunRow
  BY DEF RunRow
<1>2. runs' = Append(runs, row)
  BY DEF AddRun
<1>3. /\ runs' \in Seq(RunRow)
      /\ Len(runs') = Len(runs) + 1
      /\ \A n \in 1..Len(runs) : runs'[n] = runs[n]
      /\ runs'[Len(runs) + 1] = row
  BY <1>1, <1>2, AppendProperties
<1>4. /\ DOMAIN runs = 1..Len(runs) /\ Len(runs) \in Nat
      /\ DOMAIN runs' = 1..(Len(runs) + 1)
  BY <1>3, LenProperties
<1>5. row.of = of /\ (row.status = "ok" <=> ~duplicate)
  OBVIOUS
<1> HIDE DEF row
<1>6. Settled' = {runs'[n].of : n \in {m \in DOMAIN runs' : runs'[m].status = "ok"}}
  BY DEF Settled
<1>7. \A x : x \in Settled' <=> x \in Settled \/ (~duplicate /\ x = of)
  <2>1. ASSUME NEW x, x \in Settled' PROVE x \in Settled \/ (~duplicate /\ x = of)
    <3>1. PICK n \in DOMAIN runs' : runs'[n].status = "ok" /\ x = runs'[n].of
      BY <1>6, <2>1
    <3>2. n \in 1..Len(runs) \/ n = Len(runs) + 1
      BY <1>4, <3>1
    <3>3. QED
      BY <1>3, <1>4, <1>5, <3>1, <3>2 DEF Settled
  <2>2. ASSUME NEW x, x \in Settled PROVE x \in Settled'
    <3>1. PICK n \in DOMAIN runs : runs[n].status = "ok" /\ x = runs[n].of
      BY <2>2 DEF Settled
    <3>2. n \in DOMAIN runs' /\ runs'[n] = runs[n]
      BY <1>3, <1>4, <3>1
    <3>3. QED
      BY <1>6, <3>1, <3>2
  <2>3. ASSUME ~duplicate PROVE of \in Settled'
    BY <1>3, <1>4, <1>5, <1>6, <2>3
  <2>4. QED
    BY <2>1, <2>2, <2>3
<1>8. QED
  BY <1>3, <1>7

\* The tables as they are at first, and again after a restart with fixtures.
SeedTables ==
  /\ silver = 0
  /\ interviews = 1
  /\ runs = <<>>
  /\ scores = SeedScores
  /\ memos = SeedMemos

TableTypes ==
  /\ silver \in 0..MaxSilver
  /\ interviews \in 1..MaxInterviews
  /\ runs \in Seq(RunRow)
  /\ scores \in Seq(ScoreRow)
  /\ memos \in Seq(BOOLEAN)

\* The seed satisfies the invariant.
LEMMA SeedTablesInv ==
  SeedTables =>
    TableTypes /\ SeedInv /\ ScoresAreRecorded /\ NewestIsServed /\ AloneIsExact
<1> SUFFICES ASSUME SeedTables
             PROVE  TableTypes /\ SeedInv /\ ScoresAreRecorded /\ NewestIsServed /\ AloneIsExact
  OBVIOUS
<1>1. /\ scores = <<[of |-> NoRun, latest |-> FALSE], [of |-> NoRun, latest |-> TRUE]>>
      /\ memos = <<TRUE>>
      /\ runs = <<>>
  BY DEF SeedTables, SeedScores, SeedMemos
<1>2. /\ runs \in Seq(RunRow) /\ scores \in Seq(ScoreRow) /\ memos \in Seq(BOOLEAN)
      /\ Len(scores) = 2 /\ Len(memos) = 1
      /\ DOMAIN scores = {1, 2} /\ DOMAIN memos = {1}
  BY <1>1 DEF ScoreRow
<1>3. Settled = {}
  BY <1>1 DEF Settled
<1>4. TableTypes
  BY <1>2, BoundsAssumption DEF SeedTables, TableTypes
<1>5. SeedInv
  BY <1>1 DEF SeedInv
<1>6. ScoresAreRecorded /\ NewestIsServed
  BY <1>1, <1>2 DEF ScoresAreRecorded, NewestIsServed
<1>7. AloneIsExact
  <2>1. ~scores[1].latest /\ scores[2].latest /\ memos[1]
    BY <1>1
  <2>2. \A n \in DOMAIN scores : scores[n].latest <=> n = 2
    BY <1>2, <2>1
  <2>3. LatestScores = {2}
    BY <1>2, <2>2 DEF LatestScores
  <2>4. LatestMemos = {1}
    BY <1>2, <2>1 DEF LatestMemos
  <2>5. \A n \in DOMAIN scores : scores[n].of = NoRun
    BY <1>1, <1>2
  <2>6. {scores[n].of : n \in DOMAIN scores} \ {NoRun} = {}
    BY <2>5
  <2>7. QED
    BY <1>2, <1>3, <2>3, <2>4, <2>5, <2>6 DEF AloneIsExact
<1>8. QED
  BY <1>4, <1>5, <1>6, <1>7

\* Init.
LEMMA InitInv == Init => Inv
<1> SUFFICES ASSUME Init PROVE Inv
  OBVIOUS
<1>1. SeedTables
  BY DEF Init, SeedTables
<1>2. TypeOK
  <2>1. SeedSnapshot \in Snapshots
    BY BoundsAssumption DEF SeedSnapshot, Snapshots
  <2>2. Resting \in Output
    BY DEF Resting, Output
  <2>3. QED
    BY <1>1, <2>1, <2>2, SeedTablesInv DEF Init, TypeOK, TableTypes
<1>3. JobInv
  BY DEF Init, JobInv
<1>4. QED
  BY <1>1, <1>2, <1>3, SeedTablesInv DEF Inv

(***************************************************************************)
(* The parts of the invariant that a merge disturbs.                       *)
(***************************************************************************)

\* A merge leaves the row it adds as the newest, served one, and withdraws the
\* rows its writer saw.
LEMMA MergedScoreIsNewest ==
  ASSUME scores \in Seq(ScoreRow), NEW of \in Fingerprint \cup {NoRun}, NEW seen,
         AddScore(of, seen)
  PROVE  /\ scores'[Len(scores')].latest
         /\ LatestScores' = (LatestScores \ seen) \cup {Len(scores')}
<1>0. /\ scores' \in Seq(ScoreRow)
      /\ Len(scores') = Len(scores) + 1
      /\ \A n \in DOMAIN scores : (scores'[n].latest <=> scores[n].latest /\ n \notin seen)
      /\ scores'[Len(scores) + 1] = [of |-> of, latest |-> TRUE]
  BY ScoreAdded
<1>1. /\ DOMAIN scores = 1..Len(scores) /\ Len(scores) \in Nat
      /\ DOMAIN scores' = 1..(Len(scores) + 1) /\ Len(scores') = Len(scores) + 1
      /\ \A n \in DOMAIN scores : (scores'[n].latest <=> scores[n].latest /\ n \notin seen)
      /\ scores'[Len(scores) + 1].latest
  BY <1>0, LenProperties
<1>2. ASSUME NEW n \in DOMAIN scores'
      PROVE  scores'[n].latest <=> n \in LatestScores \ seen \/ n = Len(scores')
  BY <1>1 DEF LatestScores
<1>3. LatestScores' = {n \in DOMAIN scores' : scores'[n].latest}
  BY DEF LatestScores
<1>4. LatestScores \subseteq DOMAIN scores' /\ Len(scores') \in DOMAIN scores'
  BY <1>1 DEF LatestScores
<1>5. QED
  BY <1>1, <1>2, <1>3, <1>4

\* The same of a memo.
LEMMA MergedMemoIsNewest ==
  ASSUME memos \in Seq(BOOLEAN), NEW seen, AddMemo(seen)
  PROVE  /\ memos'[Len(memos')]
         /\ LatestMemos' = (LatestMemos \ seen) \cup {Len(memos')}
<1>1. /\ DOMAIN memos = 1..Len(memos) /\ Len(memos) \in Nat
      /\ DOMAIN memos' = 1..(Len(memos) + 1) /\ Len(memos') = Len(memos) + 1
      /\ \A n \in DOMAIN memos : (memos'[n] <=> memos[n] /\ n \notin seen)
      /\ memos'[Len(memos) + 1]
  BY MemoAdded, LenProperties
<1>2. ASSUME NEW n \in DOMAIN memos'
      PROVE  memos'[n] <=> n \in LatestMemos \ seen \/ n = Len(memos')
  BY <1>1 DEF LatestMemos
<1>3. LatestMemos' = {n \in DOMAIN memos' : memos'[n]}
  BY DEF LatestMemos
<1>4. LatestMemos \subseteq DOMAIN memos' /\ Len(memos') \in DOMAIN memos'
  BY <1>1 DEF LatestMemos
<1>5. QED
  BY <1>1, <1>2, <1>3, <1>4

\* The runs of the scores are those there were and the one of the merge.
LEMMA MergedScoreRuns ==
  ASSUME scores \in Seq(ScoreRow), NEW of \in Fingerprint \cup {NoRun}, NEW seen,
         AddScore(of, seen)
  PROVE  /\ DOMAIN scores' = DOMAIN scores \cup {Len(scores')}
         /\ Len(scores') \notin DOMAIN scores
         /\ \A n \in DOMAIN scores : scores'[n].of = scores[n].of
         /\ scores'[Len(scores')].of = of
<1>1. /\ scores' \in Seq(ScoreRow)
      /\ Len(scores') = Len(scores) + 1
      /\ \A n \in DOMAIN scores : scores'[n].of = scores[n].of
      /\ scores'[Len(scores) + 1] = [of |-> of, latest |-> TRUE]
  BY ScoreAdded
<1>2. DOMAIN scores = 1..Len(scores) /\ DOMAIN scores' = 1..Len(scores') /\ Len(scores) \in Nat
  BY <1>1, LenProperties
<1>3. QED
  BY <1>1, <1>2

\* After the merge of a score, the newest score is served.
LEMMA MergedScoreServed ==
  ASSUME scores \in Seq(ScoreRow), NEW of \in Fingerprint \cup {NoRun}, NEW seen,
         AddScore(of, seen), NewestIsServed, memos[Len(memos)]'
  PROVE  NewestIsServed'
BY MergedScoreIsNewest DEF NewestIsServed

\* A score whose run is settled keeps the ledger complete.
LEMMA MergedScoreRecorded ==
  ASSUME scores \in Seq(ScoreRow), NEW of \in Fingerprint \cup {NoRun}, NEW seen,
         AddScore(of, seen), ScoresAreRecorded,
         Settled \subseteq Settled', of = NoRun \/ of \in Settled'
  PROVE  ScoresAreRecorded'
BY MergedScoreRuns DEF ScoresAreRecorded

(***************************************************************************)
(* The steps: one lemma per process, one step per action.                  *)
(***************************************************************************)

\* The server keeps the invariant.
LEMMA ServerInv == Inv /\ Server => Inv'
<1> SUFFICES ASSUME Inv, Server PROVE Inv'
  OBVIOUS
<1> USE DEF Inv
<1>1. ASSUME KeepInterview PROVE Inv'
  <2>1. /\ interviews < MaxInterviews /\ interviews' = interviews + 1
        /\ UNCHANGED <<live, silver, runs, scores, memos, export, pc, work>>
    BY <1>1 DEF KeepInterview, jobVars
  <2>2. TypeOK'
    BY <2>1, BoundsAssumption DEF TypeOK
  <2>3. (SeedInv /\ JobInv /\ ScoresAreRecorded /\ NewestIsServed)'
    BY <2>1 DEF SeedInv, JobInv, ScoresAreRecorded, NewestIsServed, Settled
  <2>4. AloneIsExact'
    BY <2>1 DEF AloneIsExact, LatestScores, LatestMemos, Settled
  <2>5. QED
    BY <2>2, <2>3, <2>4
<1>2. ASSUME Rescore PROVE Inv'
  <2> DEFINE now == [interview |-> interviews, silver |-> silver]
  <2>1. /\ AddRun(now, IsDuplicate(Settled, now))
        /\ \/ /\ IsDuplicate(Settled, now)
              /\ UNCHANGED <<scores, memos>>
           \/ /\ ~IsDuplicate(Settled, now)
              /\ AddScore(now, LatestScores)
              /\ AddMemo(LatestMemos)
        /\ UNCHANGED <<live, silver, interviews, export, pc, work>>
    BY <1>2 DEF Rescore, jobVars
  <2>2. now \in Fingerprint
    BY DEF TypeOK, Fingerprint
  <2> HIDE DEF now
  <2>3. PICK of \in Fingerprint : of = now
    BY <2>2
  <2>4. PICK duplicate \in BOOLEAN : duplicate <=> of \in Settled
    <3>1. CASE of \in Settled
      <4> WITNESS TRUE \in BOOLEAN
      <4> QED
        BY <3>1
    <3>2. CASE of \notin Settled
      <4> WITNESS FALSE \in BOOLEAN
      <4> QED
        BY <3>2
    <3>3. QED
      BY <3>1, <3>2
  <2>5. AddRun(of, duplicate)
    BY <2>1, <2>3, <2>4 DEF IsDuplicate
  <2>6. /\ runs' \in Seq(RunRow)
        /\ Settled' = IF duplicate THEN Settled ELSE Settled \cup {of}
    BY <2>5, RunAdded DEF TypeOK
  <2>7. Settled \subseteq Settled' /\ of \in Settled'
    BY <2>4, <2>6
  <2>8. JobInv'
    BY <2>1, <2>7 DEF JobInv
  <2>9. CASE duplicate
    <3>1. UNCHANGED <<scores, memos>> /\ Settled' = Settled
      BY <2>1, <2>3, <2>4, <2>6, <2>9 DEF IsDuplicate
    <3>2. TypeOK'
      BY <2>1, <2>6, <3>1 DEF TypeOK
    <3>3. (SeedInv /\ ScoresAreRecorded /\ NewestIsServed)'
      BY <3>1 DEF SeedInv, ScoresAreRecorded, NewestIsServed
    <3>4. AloneIsExact'
      BY <2>1, <3>1 DEF AloneIsExact, LatestScores, LatestMemos
    <3>5. QED
      BY <2>8, <3>2, <3>3, <3>4
  <2>10. CASE ~duplicate
    <3>1. of \notin Settled /\ Settled' = Settled \cup {of}
      BY <2>4, <2>6, <2>10
    <3>2. PICK seen, seenMemos :
            /\ seen = LatestScores /\ seenMemos = LatestMemos
            /\ AddScore(of, seen) /\ AddMemo(seenMemos)
      BY <2>1, <2>3, <3>1 DEF IsDuplicate
    <3>3. /\ scores' \in Seq(ScoreRow) /\ scores' # <<>>
          /\ memos' \in Seq(BOOLEAN) /\ memos' # <<>>
      BY <3>2, ScoreAdded, MemoAdded DEF TypeOK
    <3>4. TypeOK' /\ SeedInv'
      BY <2>1, <2>6, <3>3 DEF TypeOK, SeedInv
    <3>5. ScoresAreRecorded'
      BY <2>7, <3>2, MergedScoreRecorded DEF TypeOK
    <3>6. memos'[Len(memos')] /\ LatestMemos' = {Len(memos')}
      BY <3>2, MergedMemoIsNewest DEF TypeOK
    <3>7. NewestIsServed'
      BY <3>2, <3>6, MergedScoreServed DEF TypeOK
    <3>8. AloneIsExact'
      <4>1. SUFFICES ASSUME ~live PROVE AloneIsExact'
        BY <2>1 DEF AloneIsExact
      <4>2. LatestScores' = {Len(scores')}
        BY <3>2, MergedScoreIsNewest DEF TypeOK
      <4>3. /\ DOMAIN scores' = DOMAIN scores \cup {Len(scores')}
            /\ Len(scores') \notin DOMAIN scores
            /\ \A n \in DOMAIN scores : scores'[n].of = scores[n].of
            /\ scores'[Len(scores')].of = of
        BY <3>2, MergedScoreRuns DEF TypeOK
      <4>4. Len(memos') \in DOMAIN memos'
        BY <3>6 DEF LatestMemos
      <4>5. \A n \in DOMAIN scores : scores[n].of # of
        BY <3>1, NoRunIsNoFingerprint DEF ScoresAreRecorded
      <4>6. /\ \A m, n \in DOMAIN scores :
                 scores[m].of # NoRun /\ scores[m].of = scores[n].of => m = n
            /\ Settled = {scores[n].of : n \in DOMAIN scores} \ {NoRun}
        BY <4>1 DEF AloneIsExact
      <4>7. \A m, n \in DOMAIN scores' :
              scores'[m].of # NoRun /\ scores'[m].of = scores'[n].of => m = n
        BY <4>3, <4>5, <4>6
      <4>8. Settled' = {scores'[n].of : n \in DOMAIN scores'} \ {NoRun}
        <5>1. {scores'[n].of : n \in DOMAIN scores'} = {scores[n].of : n \in DOMAIN scores} \cup {of}
          <6>1. ASSUME NEW x
                PROVE  (\E n \in DOMAIN scores' : x = scores'[n].of)
                         <=> (\E n \in DOMAIN scores : x = scores[n].of) \/ x = of
            BY <4>3
          <6>2. QED
            BY <6>1
        <5>2. QED
          BY <3>1, <4>6, <5>1, NoRunIsNoFingerprint
      <4>9. QED
        BY <3>6, <4>2, <4>3, <4>4, <4>7, <4>8 DEF AloneIsExact
    <3>9. QED
      BY <2>8, <3>4, <3>5, <3>7, <3>8
  <2>11. QED
    BY <2>9, <2>10
<1>3. ASSUME Restart PROVE Inv'
  <2>1. /\ silver' = 0 /\ interviews' = 1 /\ runs' = <<>>
        /\ scores' = SeedScores /\ memos' = SeedMemos
        /\ ~live /\ UNCHANGED <<live, export, pc, work>>
    BY <1>3 DEF Restart, jobVars
  <2>2. SeedTables'
    BY <2>1 DEF SeedTables
  <2>3. (TableTypes /\ SeedInv /\ ScoresAreRecorded /\ NewestIsServed /\ AloneIsExact)'
    BY <2>2, SeedTablesInv, PTL
  <2>4. TypeOK'
    BY <2>1, <2>3 DEF TypeOK, TableTypes
  <2>5. JobInv'
    BY <2>1 DEF JobInv
  <2>6. QED
    BY <2>3, <2>4, <2>5
<1>4. QED
  BY <1>1, <1>2, <1>3 DEF Server

\* A job that begins touches no table.
LEMMA BeginInv ==
  ASSUME Inv, NEW j \in Jobs, NEW first \in {"run", "score", "memo"}, NEW output \in Output,
         Begin(j, first, output),
         first = "run" => output.of # NoRun,
         first = "score" => output.of = NoRun
  PROVE  Inv'
<1> USE DEF Inv
<1>1. /\ live /\ pc' = [pc EXCEPT ![j] = first] /\ work' = [work EXCEPT ![j] = output]
      /\ UNCHANGED <<live, silver, interviews, runs, scores, memos, export>>
  BY DEF Begin, tables
<1>2. TypeOK'
  BY <1>1 DEF TypeOK
<1>3. Settled' = Settled /\ LatestScores' = LatestScores /\ LatestMemos' = LatestMemos
  BY <1>1 DEF Settled, LatestScores, LatestMemos
<1>4. JobInv'
  BY <1>1, <1>3 DEF JobInv, TypeOK
<1>5. (SeedInv /\ ScoresAreRecorded /\ NewestIsServed /\ AloneIsExact)'
  BY <1>1, <1>3 DEF SeedInv, ScoresAreRecorded, NewestIsServed, AloneIsExact
<1>6. QED
  BY <1>2, <1>4, <1>5

\* A job that goes on to the score has a settled run or none, and only a job
\* that begins goes on to the run.
LEMMA GoOnInv ==
  ASSUME TypeOK, JobInv, NEW j \in Jobs, NEW from, NEW to \in {"idle", "score", "memo"},
         from # "idle", GoOn(j, from, to),
         Settled \subseteq Settled', live' = live,
         to = "score" => work[j].of \in Settled'
  PROVE  /\ pc' \in [Jobs -> {"idle", "run", "score", "memo"}]
         /\ work' \in [Jobs -> Output]
         /\ JobInv'
         /\ live
<1>1. /\ pc[j] = from /\ pc' = [pc EXCEPT ![j] = to]
      /\ work' = IF to = "idle" THEN [work EXCEPT ![j] = Resting] ELSE work
  BY DEF GoOn
<1>2. pc' \in [Jobs -> {"idle", "run", "score", "memo"}] /\ work' \in [Jobs -> Output]
  <2>1. Resting \in Output
    BY DEF Resting, Output
  <2>2. QED
    BY <1>1, <2>1 DEF TypeOK
<1>3. \A k \in Jobs \ {j} : pc'[k] = pc[k] /\ work'[k] = work[k]
  BY <1>1 DEF TypeOK
<1>4. pc'[j] = to /\ (to # "idle" => work'[j] = work[j])
  BY <1>1 DEF TypeOK
<1>5. live
  BY <1>1 DEF JobInv
<1>6. JobInv'
  BY <1>3, <1>4, <1>5 DEF JobInv
<1>7. QED
  BY <1>2, <1>5, <1>6

\* A job keeps the invariant.
LEMMA JobsInv == ASSUME Inv, NEW j \in Jobs, Job(j) PROVE Inv'
<1> USE DEF Inv
<1>1. work[j] \in Output /\ export \in Snapshots
  BY DEF TypeOK
<1>2. ASSUME StageA(j) PROVE Inv'
  <2>1. PICK output : output = [Resting EXCEPT !.scores = export.scores]
    OBVIOUS
  <2>2. output \in Output /\ output.of = NoRun
    BY <1>1, <2>1 DEF Resting, Output, Snapshots
  <2>3. Begin(j, "score", output)
    BY <1>2, <2>1 DEF StageA
  <2>4. QED
    BY <2>2, <2>3, BeginInv
<1>3. ASSUME Memo(j) PROVE Inv'
  <2>1. PICK output : output = [Resting EXCEPT !.memos = export.memos]
    OBVIOUS
  <2>2. output \in Output
    BY <1>1, <2>1 DEF Resting, Output, Snapshots
  <2>3. Begin(j, "memo", output)
    BY <1>3, <2>1 DEF Memo
  <2>4. QED
    BY <2>2, <2>3, BeginInv
<1>4. ASSUME RescoreJob(j) PROVE Inv'
  <2>1. PICK i \in 1..export.interviews :
          Begin(j, RunFirst,
                [of |-> [interview |-> i, silver |-> export.silver],
                 duplicate |->
                   IsDuplicate(export.settled, [interview |-> i, silver |-> export.silver]),
                 scores |-> export.scores, memos |-> export.memos])
    BY <1>4 DEF RescoreJob
  <2>2. PICK of : of = [interview |-> i, silver |-> export.silver]
    OBVIOUS
  <2>3. PICK output :
          output = [of |-> of, duplicate |-> IsDuplicate(export.settled, of),
                    scores |-> export.scores, memos |-> export.memos]
    OBVIOUS
  <2>4. of \in Fingerprint
    BY <1>1, <2>2, BoundsAssumption DEF Fingerprint, Snapshots
  <2>5. output \in Output /\ output.of # NoRun
    BY <1>1, <2>3, <2>4, NoRunIsNoFingerprint DEF Output, Snapshots, IsDuplicate
  <2>6. Begin(j, "run", output)
    BY <2>1, <2>2, <2>3 DEF RunFirst
  <2>7. QED
    BY <2>5, <2>6, BeginInv
<1>5. ASSUME MergeRun(j) PROVE Inv'
  <2>1. /\ AddRun(work[j].of, work[j].duplicate)
        /\ GoOn(j, "run", IF work[j].duplicate THEN "idle" ELSE "score")
        /\ UNCHANGED <<live, silver, interviews, scores, memos, export>>
    BY <1>5 DEF MergeRun
  <2>2. work[j].of \in Fingerprint /\ work[j].duplicate \in BOOLEAN
    BY <1>1, <2>1 DEF GoOn, JobInv, Output
  <2>3. PICK of \in Fingerprint, duplicate \in BOOLEAN :
          of = work[j].of /\ duplicate = work[j].duplicate
    BY <2>2
  <2>4. /\ runs' \in Seq(RunRow)
        /\ Settled' = IF duplicate THEN Settled ELSE Settled \cup {of}
    BY <2>1, <2>3, RunAdded DEF TypeOK
  <2>5. PICK to \in {"idle", "score"} : to = IF duplicate THEN "idle" ELSE "score"
    OBVIOUS
  <2>6. /\ pc' \in [Jobs -> {"idle", "run", "score", "memo"}] /\ work' \in [Jobs -> Output]
        /\ JobInv'
        /\ live
    BY <2>1, <2>3, <2>4, <2>5, GoOnInv
  <2>7. TypeOK' /\ SeedInv' /\ NewestIsServed'
    BY <2>1, <2>4, <2>6 DEF TypeOK, SeedInv, NewestIsServed
  <2>8. ScoresAreRecorded'
    BY <2>1, <2>4 DEF ScoresAreRecorded
  <2>9. AloneIsExact'
    BY <2>1, <2>6 DEF AloneIsExact
  <2>10. QED
    BY <2>6, <2>7, <2>8, <2>9
<1>6. ASSUME MergeScore(j) PROVE Inv'
  <2>1. /\ AddScore(work[j].of, work[j].scores)
        /\ GoOn(j, "score", IF work[j].of = NoRun THEN "idle" ELSE "memo")
        /\ UNCHANGED <<live, silver, interviews, runs, memos, export>>
    BY <1>6 DEF MergeScore
  <2>2. PICK of, seen :
          /\ of \in Fingerprint \cup {NoRun}
          /\ of = work[j].of
          /\ seen = work[j].scores
    BY <1>1 DEF Output
  <2>3. AddScore(of, seen)
    BY <2>1, <2>2
  <2>4. Settled' = Settled
    BY <2>1 DEF Settled
  <2>5. of = NoRun \/ of \in Settled
    BY <2>1, <2>2 DEF GoOn, JobInv
  <2>6. PICK to \in {"idle", "memo"} : to = IF of = NoRun THEN "idle" ELSE "memo"
    OBVIOUS
  <2>7. /\ pc' \in [Jobs -> {"idle", "run", "score", "memo"}] /\ work' \in [Jobs -> Output]
        /\ JobInv'
        /\ live
    BY <2>1, <2>2, <2>4, <2>6, GoOnInv
  <2>8. TypeOK' /\ SeedInv'
    BY <2>2, <2>1, <2>3, <2>7, ScoreAdded DEF TypeOK, SeedInv
  <2>9. ScoresAreRecorded'
    BY <2>2, <2>3, <2>4, <2>5, MergedScoreRecorded DEF TypeOK
  <2>10. NewestIsServed'
    BY <2>2, <2>1, <2>3, MergedScoreServed DEF TypeOK, NewestIsServed
  <2>11. AloneIsExact'
    BY <2>1, <2>7 DEF AloneIsExact
  <2>12. QED
    BY <2>7, <2>8, <2>9, <2>10, <2>11
<1>7. ASSUME MergeMemo(j) PROVE Inv'
  <2>1. /\ AddMemo(work[j].memos)
        /\ GoOn(j, "memo", "idle")
        /\ UNCHANGED <<live, silver, interviews, runs, scores, export>>
    BY <1>7 DEF MergeMemo
  <2>2. PICK seen : seen = work[j].memos
    OBVIOUS
  <2>3. AddMemo(seen)
    BY <2>1, <2>2
  <2>4. Settled' = Settled
    BY <2>1 DEF Settled
  <2>5. /\ pc' \in [Jobs -> {"idle", "run", "score", "memo"}] /\ work' \in [Jobs -> Output]
        /\ JobInv'
        /\ live
    BY <2>1, <2>4, GoOnInv
  <2>6. TypeOK' /\ SeedInv'
    BY <2>1, <2>3, <2>5, MemoAdded DEF TypeOK, SeedInv
  <2>7. ScoresAreRecorded'
    BY <2>1, <2>4 DEF ScoresAreRecorded
  <2>8. NewestIsServed'
    BY <2>1, <2>3, MergedMemoIsNewest DEF TypeOK, NewestIsServed
  <2>9. AloneIsExact'
    BY <2>1, <2>5 DEF AloneIsExact
  <2>10. QED
    BY <2>5, <2>6, <2>7, <2>8, <2>9
<1>8. ASSUME Abandon(j) PROVE Inv'
  <2>1. /\ pc[j] # "idle" /\ GoOn(j, pc[j], "idle")
        /\ UNCHANGED <<live, silver, interviews, runs, scores, memos, export>>
    BY <1>8 DEF Abandon, tables
  <2>2. PICK from : from = pc[j]
    OBVIOUS
  <2>3. Settled' = Settled
    BY <2>1 DEF Settled
  <2>4. /\ pc' \in [Jobs -> {"idle", "run", "score", "memo"}] /\ work' \in [Jobs -> Output]
        /\ JobInv'
        /\ live
    BY <2>1, <2>2, <2>3, GoOnInv
  <2>5. TypeOK' /\ SeedInv' /\ NewestIsServed'
    BY <2>1, <2>4 DEF TypeOK, SeedInv, NewestIsServed
  <2>6. ScoresAreRecorded' /\ AloneIsExact'
    BY <2>1, <2>3, <2>4 DEF ScoresAreRecorded, AloneIsExact
  <2>7. QED
    BY <2>4, <2>5, <2>6
<1>9. QED
  BY <1>2, <1>3, <1>4, <1>5, <1>6, <1>7, <1>8 DEF Job

\* What a withdrawal of every score leaves.
LEMMA ScoresWithdrawn ==
  ASSUME scores \in Seq(ScoreRow),
         scores' = [n \in DOMAIN scores |-> [scores[n] EXCEPT !.latest = FALSE]]
  PROVE  /\ scores' \in Seq(ScoreRow)
         /\ Len(scores') = Len(scores)
         /\ DOMAIN scores' = DOMAIN scores
         /\ \A n \in DOMAIN scores : scores'[n].of = scores[n].of /\ scores'[n].latest = FALSE
<1>1. /\ DOMAIN scores = 1..Len(scores) /\ Len(scores) \in Nat
      /\ \A n \in 1..Len(scores) : scores[n] \in ScoreRow
  BY LenProperties, ElementOfSeq
<1>2. \A n \in 1..Len(scores) :
        /\ [scores[n] EXCEPT !.latest = FALSE] \in ScoreRow
        /\ [scores[n] EXCEPT !.latest = FALSE].of = scores[n].of
        /\ [scores[n] EXCEPT !.latest = FALSE].latest = FALSE
  BY <1>1 DEF ScoreRow
<1>3. scores' \in [1..Len(scores) -> ScoreRow]
  BY <1>1, <1>2
<1>4. scores' \in Seq(ScoreRow) /\ Len(scores') = Len(scores)
  BY <1>1, <1>3
<1>5. QED
  BY <1>1, <1>2, <1>4

\* The exports, the silver tables and the unmerge, live.
LEMMA PipelinesInv == Inv /\ (Export \/ MoveSilver \/ Invalidate) => Inv'
<1> SUFFICES ASSUME Inv, Export \/ MoveSilver \/ Invalidate PROVE Inv'
  OBVIOUS
<1> USE DEF Inv
<1>1. ASSUME Export PROVE Inv'
  <2>1. /\ export' = Snapshot
        /\ UNCHANGED <<live, silver, interviews, runs, scores, memos, pc, work>>
    BY <1>1 DEF Export, tables, jobVars
  <2>2. Snapshot \in Snapshots
    <3>1. Settled \subseteq Fingerprint
      BY SettledType DEF TypeOK
    <3>2. LatestScores \subseteq Nat /\ LatestMemos \subseteq Nat
      BY LenProperties DEF LatestScores, LatestMemos, TypeOK
    <3>3. QED
      BY <3>1, <3>2 DEF Snapshot, Snapshots, TypeOK
  <2>3. TypeOK'
    BY <2>1, <2>2 DEF TypeOK
  <2>4. Settled' = Settled /\ LatestScores' = LatestScores /\ LatestMemos' = LatestMemos
    BY <2>1 DEF Settled, LatestScores, LatestMemos
  <2>5. (SeedInv /\ JobInv /\ ScoresAreRecorded /\ NewestIsServed /\ AloneIsExact)'
    BY <2>1, <2>4 DEF SeedInv, JobInv, ScoresAreRecorded, NewestIsServed, AloneIsExact
  <2>6. QED
    BY <2>3, <2>5
<1>2. ASSUME MoveSilver PROVE Inv'
  <2>1. /\ silver < MaxSilver /\ silver' = silver + 1
        /\ UNCHANGED <<live, interviews, runs, scores, memos, export, pc, work>>
    BY <1>2 DEF MoveSilver, jobVars
  <2>2. TypeOK'
    BY <2>1, BoundsAssumption DEF TypeOK
  <2>3. Settled' = Settled /\ LatestScores' = LatestScores /\ LatestMemos' = LatestMemos
    BY <2>1 DEF Settled, LatestScores, LatestMemos
  <2>4. (SeedInv /\ JobInv /\ ScoresAreRecorded /\ NewestIsServed /\ AloneIsExact)'
    BY <2>1, <2>3 DEF SeedInv, JobInv, ScoresAreRecorded, NewestIsServed, AloneIsExact
  <2>5. QED
    BY <2>2, <2>4
<1>3. ASSUME Invalidate PROVE Inv'
  <2>1. /\ live
        /\ scores' = [n \in DOMAIN scores |-> [scores[n] EXCEPT !.latest = FALSE]]
        /\ UNCHANGED <<live, silver, interviews, runs, memos, export, pc, work>>
    BY <1>3 DEF Invalidate, jobVars
  <2>2. /\ scores' \in Seq(ScoreRow) /\ Len(scores') = Len(scores)
        /\ DOMAIN scores' = DOMAIN scores
        /\ \A n \in DOMAIN scores : scores'[n].of = scores[n].of /\ scores'[n].latest = FALSE
    BY <2>1, ScoresWithdrawn DEF TypeOK
  <2>3. TypeOK'
    BY <2>1, <2>2 DEF TypeOK
  <2>4. Settled' = Settled
    BY <2>1 DEF Settled
  <2>5. SeedInv'
    BY <2>1, <2>2, EmptySeq, LenProperties DEF SeedInv, TypeOK
  <2>6. (JobInv /\ ScoresAreRecorded)'
    BY <2>1, <2>2, <2>4 DEF JobInv, ScoresAreRecorded
  <2>7. NewestIsServed'
    <3>1. \A n \in DOMAIN scores' : ~scores'[n].latest
      BY <2>2
    <3>2. memos'[Len(memos')]
      BY <2>1 DEF NewestIsServed
    <3>3. QED
      BY <3>1, <3>2 DEF NewestIsServed
  <2>8. AloneIsExact'
    BY <2>1 DEF AloneIsExact
  <2>9. QED
    BY <2>3, <2>5, <2>6, <2>7, <2>8
<1>4. QED
  BY <1>1, <1>2, <1>3

\* A step that changes nothing.
LEMMA StutterInv == Inv /\ UNCHANGED vars => Inv'
<1> SUFFICES ASSUME Inv, UNCHANGED vars PROVE Inv'
  OBVIOUS
<1> USE DEF Inv
<1>1. UNCHANGED <<live, silver, interviews, runs, scores, memos, export, pc, work>>
  BY DEF vars, tables, jobVars
<1>2. Settled' = Settled /\ LatestScores' = LatestScores /\ LatestMemos' = LatestMemos
  BY <1>1 DEF Settled, LatestScores, LatestMemos
<1>3. TypeOK'
  BY <1>1 DEF TypeOK
<1>4. (SeedInv /\ JobInv /\ ScoresAreRecorded /\ NewestIsServed /\ AloneIsExact)'
  BY <1>1, <1>2 DEF SeedInv, JobInv, ScoresAreRecorded, NewestIsServed, AloneIsExact
<1>5. QED
  BY <1>3, <1>4

\* Every step keeps the invariant.
LEMMA StepKeepsInv == Inv /\ [Next]_vars => Inv'
BY ServerInv, JobsInv, PipelinesInv, StutterInv DEF Next

\* The invariant holds in every reachable state, for any number of jobs.
THEOREM Invariance == Spec => []Inv
BY InitInv, StepKeepsInv, PTL DEF Spec

\* Every variable keeps its type: a merged row is complete, whatever a job had
\* computed before.
THEOREM TypeCorrect == Spec => []TypeOK
<1>1. Inv => TypeOK
  BY DEF Inv
<1>2. QED
  BY <1>1, Invariance, PTL

\* A score that comes from an interview has its run in the ledger.
THEOREM ScoresHaveRuns == Spec => []ScoresAreRecorded
<1>1. Inv => ScoresAreRecorded
  BY DEF Inv
<1>2. QED
  BY <1>1, Invariance, PTL

\* The newest score is served whenever one is, and the newest memo always.
THEOREM NewestServed == Spec => []NewestIsServed
<1>1. Inv => NewestIsServed
  BY DEF Inv
<1>2. QED
  BY <1>1, Invariance, PTL

\* The server alone keeps the ledger exact.
THEOREM ServerAloneIsExact == Spec => []AloneIsExact
<1>1. Inv => AloneIsExact
  BY DEF Inv
<1>2. QED
  BY <1>1, Invariance, PTL

(***************************************************************************)
(* The scores and the memos implement AppendOnly.                          *)
(***************************************************************************)

\* The merge of a score adds one row to the log.
LEMMA ScoreLogAdd ==
  ASSUME scores \in Seq(ScoreRow), NEW of \in Fingerprint \cup {NoRun}, NEW seen,
         AddScore(of, seen)
  PROVE  ScoreLog!Add
<1>1. /\ scores' \in Seq(ScoreRow) /\ Len(scores') = Len(scores) + 1
      /\ \A n \in DOMAIN scores : (scores'[n].latest <=> scores[n].latest /\ n \notin seen)
      /\ scores'[Len(scores) + 1] = [of |-> of, latest |-> TRUE]
  BY ScoreAdded
<1>2. /\ DOMAIN scores = 1..Len(scores) /\ DOMAIN scores' = 1..Len(scores')
      /\ Len(scores) \in Nat
  BY <1>1, LenProperties
<1>3. \A n \in DOMAIN scores' : scores'[n].latest \in BOOLEAN
  <2>1. \A n \in DOMAIN scores' : scores'[n] \in ScoreRow
    BY <1>1, <1>2, ElementOfSeq
  <2>2. QED
    BY <2>1 DEF ScoreRow
<1> DEFINE old == seen \cap DOMAIN scores
           kept == [n \in DOMAIN ScoreFlags |-> ScoreFlags[n] /\ n \notin old]
           new == TRUE
<1>4. DOMAIN ScoreFlags = DOMAIN scores
  BY DEF ScoreFlags
<1>5. kept \in Seq(BOOLEAN) /\ Len(kept) = Len(scores)
  <2>1. kept \in [1..Len(scores) -> BOOLEAN]
    BY <1>2, <1>4
  <2>2. QED
    BY <1>2, <2>1
<1>6. ScoreFlags' \in Seq(BOOLEAN) /\ Len(ScoreFlags') = Len(scores) + 1
  <2>1. ScoreFlags' \in [1..Len(scores') -> BOOLEAN]
    BY <1>2, <1>3 DEF ScoreFlags
  <2>2. QED
    BY <1>1, <1>2, <2>1
<1>7. \A n \in 1..Len(scores) : kept[n] <=> scores[n].latest /\ n \notin seen
  BY <1>2, <1>4 DEF ScoreFlags
<1>8. \A n \in 1..Len(scores) : ScoreFlags'[n] <=> scores[n].latest /\ n \notin seen
  BY <1>1, <1>2 DEF ScoreFlags
<1>9. ScoreFlags'[Len(scores) + 1] = new
  BY <1>1, <1>2 DEF ScoreFlags
<1>10. new \in BOOLEAN
  OBVIOUS
<1> HIDE DEF kept, new
<1>11. /\ Append(kept, new) \in Seq(BOOLEAN) /\ Len(Append(kept, new)) = Len(scores) + 1
       /\ \A n \in 1..Len(scores) : Append(kept, new)[n] = kept[n]
       /\ Append(kept, new)[Len(scores) + 1] = new
  BY <1>5, <1>10, AppendProperties
<1>12. \A n \in 1..Len(scores) : kept[n] \in BOOLEAN /\ ScoreFlags'[n] \in BOOLEAN
  BY <1>1, <1>2, <1>5, <1>6, ElementOfSeq
<1>13. \A n \in 1..Len(scores) : ScoreFlags'[n] = kept[n]
  BY <1>7, <1>8, <1>12
<1>14. \A n \in 1..(Len(scores) + 1) : ScoreFlags'[n] = Append(kept, new)[n]
  BY <1>2, <1>9, <1>11, <1>13
<1>15. ScoreFlags' = Append(kept, new)
  BY <1>6, <1>11, <1>14, SeqEqual
<1>16. old \in SUBSET DOMAIN ScoreFlags
  BY <1>4
<1>17. QED
  BY <1>15, <1>16 DEF kept, new, ScoreLog!Add

\* The merge of a memo adds one row to the log.
LEMMA MemoLogAdd ==
  ASSUME memos \in Seq(BOOLEAN), NEW seen, AddMemo(seen)
  PROVE  MemoLog!Add
<1> DEFINE old == seen \cap DOMAIN memos
<1>1. memos' = Append([n \in DOMAIN memos |-> memos[n] /\ n \notin seen], TRUE)
  BY DEF AddMemo, Flag, Served
<1>2. [n \in DOMAIN memos |-> memos[n] /\ n \notin seen]
        = [n \in DOMAIN memos |-> memos[n] /\ n \notin old]
  OBVIOUS
<1>3. old \in SUBSET DOMAIN memos
  OBVIOUS
<1>4. QED
  BY <1>1, <1>2, <1>3 DEF MemoLog!Add

\* Both logs start from their seeds.
LEMMA LogsInit == Init => ScoreLog!Init /\ MemoLog!Init
BY DEF Init, ScoreLog!Init, MemoLog!Init, ScoreFlags, SeedFlags

\* The server adds to both logs, or to none, or starts both again.
LEMMA LogsServer ==
  Inv /\ Server =>
    /\ [ScoreLog!Next]_ScoreFlags
    /\ [MemoLog!Next]_memos
<1> SUFFICES ASSUME Inv, Server
             PROVE  [ScoreLog!Next]_ScoreFlags /\ [MemoLog!Next]_memos
  OBVIOUS
<1>1. CASE UNCHANGED <<scores, memos>>
  BY <1>1 DEF ScoreFlags
<1>2. CASE Rescore
  <2> DEFINE now == [interview |-> interviews, silver |-> silver]
  <2>1. CASE UNCHANGED <<scores, memos>>
    BY <1>1, <2>1
  <2>2. CASE AddScore(now, LatestScores) /\ AddMemo(LatestMemos)
    <3>1. now \in Fingerprint
      BY DEF Inv, TypeOK, Fingerprint
    <3>2. PICK of, seen, seenMemos :
            /\ of \in Fingerprint
            /\ of = now
            /\ seen = LatestScores
            /\ seenMemos = LatestMemos
      BY <3>1
    <3>3. AddScore(of, seen) /\ AddMemo(seenMemos)
      BY <2>2, <3>2
    <3>4. ScoreLog!Add /\ MemoLog!Add
      BY <3>2, <3>3, ScoreLogAdd, MemoLogAdd DEF Inv, TypeOK
    <3>5. QED
      BY <3>4 DEF ScoreLog!Next, MemoLog!Next
  <2>3. QED
    BY <1>2, <2>1, <2>2 DEF Rescore
<1>3. CASE Restart
  <2>1. ScoreFlags' = SeedFlags
    BY <1>3 DEF Restart, ScoreFlags, SeedFlags
  <2>2. memos' = SeedMemos
    BY <1>3 DEF Restart
  <2>3. QED
    BY <2>1, <2>2 DEF ScoreLog!Next, ScoreLog!Restart, MemoLog!Next, MemoLog!Restart
<1>4. QED
  BY <1>1, <1>2, <1>3 DEF Server, KeepInterview

\* A job adds to one log at a time, however old its export.
LEMMA LogsJobs ==
  ASSUME Inv, NEW j \in Jobs, Job(j)
  PROVE  [ScoreLog!Next]_ScoreFlags /\ [MemoLog!Next]_memos
<1>1. CASE UNCHANGED <<scores, memos>>
  BY <1>1 DEF ScoreFlags
<1>2. CASE MergeScore(j)
  <2>1. work[j].of \in Fingerprint \cup {NoRun}
    BY DEF Inv, TypeOK, Output
  <2>2. PICK of, seen :
          /\ of \in Fingerprint \cup {NoRun}
          /\ of = work[j].of
          /\ seen = work[j].scores
    BY <2>1
  <2>3. AddScore(of, seen) /\ UNCHANGED memos
    BY <1>2, <2>2 DEF MergeScore
  <2>4. ScoreLog!Add
    BY <2>2, <2>3, ScoreLogAdd DEF Inv, TypeOK
  <2>5. QED
    BY <2>3, <2>4 DEF ScoreLog!Next
<1>3. CASE MergeMemo(j)
  <2>1. PICK seen : seen = work[j].memos
    OBVIOUS
  <2>2. AddMemo(seen) /\ UNCHANGED scores
    BY <1>3, <2>1 DEF MergeMemo
  <2>3. MemoLog!Add
    BY <2>2, MemoLogAdd DEF Inv, TypeOK
  <2>4. UNCHANGED ScoreFlags
    BY <2>2 DEF ScoreFlags
  <2>5. QED
    BY <2>3, <2>4 DEF MemoLog!Next
<1>4. StageA(j) \/ Memo(j) \/ RescoreJob(j) \/ MergeRun(j) \/ Abandon(j)
        => UNCHANGED <<scores, memos>>
  BY DEF StageA, Memo, RescoreJob, MergeRun, Abandon, Begin, tables
<1>5. QED
  BY <1>1, <1>2, <1>3, <1>4 DEF Job

\* An unmerge withdraws every score.
LEMMA LogsPipelines ==
  Inv /\ (Export \/ MoveSilver \/ Invalidate) =>
    /\ [ScoreLog!Next]_ScoreFlags
    /\ [MemoLog!Next]_memos
<1> SUFFICES ASSUME Inv, Export \/ MoveSilver \/ Invalidate
             PROVE  [ScoreLog!Next]_ScoreFlags /\ [MemoLog!Next]_memos
  OBVIOUS
<1>1. CASE UNCHANGED <<scores, memos>>
  BY <1>1 DEF ScoreFlags
<1>2. CASE Invalidate
  <2>1. /\ scores' = [n \in DOMAIN scores |-> [scores[n] EXCEPT !.latest = FALSE]]
        /\ UNCHANGED memos
    BY <1>2 DEF Invalidate
  <2>2. /\ DOMAIN scores' = DOMAIN scores
        /\ \A n \in DOMAIN scores : scores'[n].latest = FALSE
    BY <2>1, ScoresWithdrawn DEF Inv, TypeOK
  <2>3. ScoreFlags' = [n \in DOMAIN ScoreFlags |-> FALSE]
    BY <2>2 DEF ScoreFlags
  <2>4. QED
    BY <2>1, <2>3 DEF ScoreLog!Next, ScoreLog!Withdraw
<1>3. QED
  BY <1>1, <1>2 DEF Export, MoveSilver, tables

\* Every step of the ledger is a step of each log, or none.
LEMMA LogsStep == Inv /\ [Next]_vars => [ScoreLog!Next]_ScoreFlags /\ [MemoLog!Next]_memos
<1>1. UNCHANGED vars => UNCHANGED <<ScoreFlags, memos>>
  BY DEF vars, tables, ScoreFlags
<1>2. QED
  BY <1>1, LogsServer, LogsJobs, LogsPipelines DEF Next

\* No writer takes a score away or serves one again that was superseded or
\* withdrawn, for any number of jobs with exports of any age.
THEOREM ScoresAreAppendOnly == Spec => ScoresAppendOnly
BY LogsInit, LogsStep, Invariance, PTL DEF Spec, ScoresAppendOnly, ScoreLog!Spec

\* The same of the memos.
THEOREM MemosAreAppendOnly == Spec => MemosAppendOnly
BY LogsInit, LogsStep, Invariance, PTL DEF Spec, MemosAppendOnly, MemoLog!Spec

====
