# Venture Hunt: specifications, model checking and proofs

TLA+ models of the parts of this repository where the order of steps, failures
and repeated calls decide whether the system is correct. Paths are relative to
the root of the repository.

## 1. The system

A pipeline of batch jobs around a warehouse, and one web server at its end.

    scrapers --> bronze.* --> entity resolution --> silver.* --> scoring jobs --> gold.*
                                                                                   ^  |
      founder <-- mail, interview, opt-out --> server (app/) <---------------------+--+

Every process writes through one seam, the merge of a batch of rows by primary
key (`tools/db.py`, `app/store.py`). One merge is atomic; nothing holds two
merges together, so every hazard below is about what happens between two calls.

| component | state | operations | hard because |
|---|---|---|---|
| Outreach (`app/outreach.py`) | `gold.outreach`: status, consent_at, token hash; the mails that are out | `send_outreach`, `is_suppressed`, `transition_outreach` | the mail leaves before the row is written; a suppression spans all links of a person |
| Interview engine (`app/interview.py`) | `_active`: session, consent and transcript per token, in memory; `gold.interview` | `open`, `message`, `complete`, `opt_out` | memory and store disagree after a failure; restarts; two devices; retries |
| Server (`app/api.py`, `store.py`, `auth.py`, `deps.py`) | the store of the process; login tokens | handlers; one at a time, since none awaits after reading the body | a handler that fails half-way |
| Rescoring (`app/rescoring.py`, `scoring/rescore.py`) | `gold.score_run`, `gold.venture_score`, `gold.memo` | targeted rescore of an interview | idempotence; live reads through an allowlist |
| Scoring jobs (`scoring/cli.py`, `stage_a.py`, `memo.py`, ...) | the same tables, read from a directory of exports | `stage-a`, `memo`, `rescore`, and the jobs that rebuild a table | decisions on old exports; crashes between merges |
| Deep dive (`scoring/deepdive.py`) | weekly cache, search count | Stage B searches | a budget shared by categories |
| Entity resolution (`er/`) | `silver.person`, `silver.person_source_link`, `ops.llm_adjudications`, watermark | `run`, `unmerge` | order of the table writes, old links, two runs at once |
| Scrapers (`scrapers/`) | cursor and ETags in `ops.scrape_state`, buffers | fetch, normalize, flush, save cursor | a cursor that moves past what failed; at-least-once delivery |
| HTTP client (`scrapers/common/http.py`) | token bucket, attempts | get, post with retries | boundaries |
| Erasure (`tools/erase_person.py`) | `ops.erasure_suppression`, tombstones | plan, execute | deletes before suppression; runs that read before and write after |
| Sink and schema (`tools/db.py`, `schemas/ddl`) | the tables | merge with suppression guard | which tables are guarded |
| Front ends (`frontend/`, `app/static`) | none of its own | show, re-rank | - |

What makes the components correct:

* Outreach and interview: consent before any substantive turn; refusal and
  opt-out are final; an interview is one person's and is scored once.
* Scores and memos: append-only; what is served is the newest; an interview is
  scored once per snapshot, and in the end.
* Scrapers: what the saved cursor promises is in bronze; the queue of OpenAlex
  is worked off; the rate is kept and the server is heard.
* Entity resolution: one active link per record, links to persons that exist,
  corrections that stand, no merge for a name and an employer, doubts that reach
  a human; every record linked in the end.
* Erasure: an erased record does not come back.
* Ventures and scores: no startup drops out between the groupings, gaps in the
  data do not pull a score down, figures that are merely worse do not lower the
  confidence in it.

`PROJECT.json` lists every component with what is and is not modelled, and every
hazard with its line and the properties that would show it.

## 2. Modules

| module | what it is |
|---|---|
| `Interview` | outreach and interview engine behind the handlers, one step per external call |
| `OutreachPromise` | what they promise per link, abstractly; `Interview` implements it |
| `MCInterview` | two founders, two ventures, symmetry |
| `Interview_proofs` | proofs for `Interview` |
| `ScoreLedger` | the runs, scores and memos of one venture and everyone who writes them |
| `AppendOnly` | what the contract says of both tables; `ScoreLedger` implements it twice |
| `MCScoreLedger` | symmetry of the jobs |
| `ScoreLedger_proofs` | proofs for `ScoreLedger` |
| `Runner` | the run loop of all scrapers, to be extended by a source |
| `GithubScrape`, `MCGithubScrape` | the GitHub scraper on `Runner`, with GitHub around it |
| `PapersScrape`, `MCPapersScrape` | arXiv on `Runner` and OpenAlex on a second instance of it |
| `Discovery` | the search for repositories, with bisection |
| `GraphqlBatch` | batches of GraphQL aliases, halved and asked again |
| `HttpClient` | token bucket and retries |
| `Clusters` | components of pairs, by the sets no pair leads out of, and the same-source guard, as operators |
| `Resolution`, `MCResolution` | entity resolution, unmerge, erasure and scrapes on shared tables, statement by statement |
| `Matching` | what one resolution decides: rules, bands, clusters, review queue |
| `Showcase` | one participant of Hack Nation, written by two jobs |
| `Ventures` | assembly of ventures and members |
| `Scoring` | features, category scores, final score and confidence |
| `DeepDive` | search budget and weekly cache of Stage B |
| `Parts`, `MCParts` | `HttpClient`, `Discovery`, `GraphqlBatch`, `DeepDive`, `Scoring`, `Matching`, `Ventures`, `Showcase` side by side, for any constants; the values of a small instance |
| `HttpClient_proofs`, `GithubScrape_proofs`, `PapersScrape_proofs` | proofs for `HttpClient`, and for `GithubScrape` and `PapersScrape` with their `Runner` |
| `Clusters_proofs`, `Resolution_proofs` | proofs for `Clusters` and `Resolution` |
| `Parts_proofs` | proofs for the parts |

`Interview` calls the rescore as one step (`Rescore`) that may fail;
`ScoreLedger` opens it up and takes the arrival of an interview as one step
(`KeepInterview`). The two meet in the row of `gold.interview`. `GithubScrape`
and `PapersScrape` extend `Runner`; `GithubScrape` takes what discovery finds as
any set of repositories and each answer of GraphQL as an object, a miss or a
failure, which `Discovery` and `GraphqlBatch` open up, and under every request
lies `HttpClient`. `Resolution` takes the outcome of the rules as given pairs
and leaves adjudicated ones open; `Matching` says where they come from and takes
a run as one step; both use `Clusters`. `Showcase` is the one source whose
scraper writes the same silver row as resolution does. `Ventures`
reads silver as facts that grow, `Scoring` as figures that are merged by key: they
come, are replaced and go.

### Interview

A link is its token, since a row is found by the hash of it. `status`,
`consentAt` and `mail` are the row and the mail that carries the link;
`session`, `consented`, `transcript` are `_ActiveState`; `interviews` is
`gold.interview`; `step` and `tok` say which call the running handler makes
next. A handler is a chain of actions:

| handler | actions |
|---|---|
| `send_outreach` | `RenderMail`, `DeliverMail`, `PersistOutreach` |
| `open` | `Open` |
| `message`, before consent | `AnswerNo`, `WriteDeclined`, or `AnswerYes`, `WriteConsented`, `WriteStarted`, `AskFirst` |
| `message`, after consent | `Answer`, `Acknowledge`, or `Skip` |
| `complete` | `Complete`, `PersistInterview`, `WriteInterviewed`, `Rescore`, `AttachScore`, `Release`, or `CompleteTooEarly` |
| `opt_out` | `OptOut`, `WriteOptOut`, `ForgetInterview`, or `OptOutUnknown` |

`Fail` abandons a handler between any two of them; `Restart` clears the memory;
`Expire` lets a token grow old. Who has an address and who is erased is chosen
anew by each `RenderMail`, because other processes write those tables. Of what
is said, the model keeps whether the founder agreed, whether anything of
substance came before, and which sessions spoke. The store is taken at its
contract: a merge that returned is there for good.

### ScoreLedger

One venture, with an interview, as in `fixtures/data`. `runs`, `scores` and
`memos` are the three tables; of a run and its score the model keeps the
fingerprint (interview and silver snapshot) and the status or `is_latest`.
`live` is chosen at the start. With fixtures there is only the server:
`KeepInterview`, `Rescore` (read, compute and three merges in one go, as no
handler awaits), and `Restart`, which drops the overlay of `FixtureStore`.
Live, jobs read `export`, which is the seed until someone exports again
(`Export`), and write in separate merges: `StageA` or `Memo` and one merge,
`RescoreJob` and `MergeRun`, `MergeScore`, `MergeMemo`; `Abandon` stops a job
between any two. `MoveSilver` and `Invalidate` are the pipelines around them.
The live warehouse is taken to hold the rows of the fixtures, which
`fixtures/load.py` puts there. A live `Rescore` needs every table of
`InputTables` to be in `READABLE_NAMES`.

### Runner, GithubScrape, PapersScrape

`run_scraper` is `Load`, any number of `Yield` and `Flush`, and `Save` with the
cursor last; `RunFails` is the `except` branch that puts the loaded cursor back,
`RunCrashes` everything that skips it. Several runs may be under way. A source
says which rows a step yields and keeps its own memory: `windowEnd`, ETags and
logins for GitHub (`Discover`, `Hydrate`, `HydrationFails`, `RepoNotFound`,
`FetchProfile`, `SaveCursor`), window, page and `_seen` for arXiv (`Begin`,
`Page`, `EmptyPage`, `StopAtLimit`, `SaveCursor`). GitHub and arXiv change
between any two requests (`Push`, `EditReadme`, `ChangeTeam`, `DeleteAccount`,
`Show`). A README or a contributor list is its ETag. The results of a query to
arXiv are a set of papers, and a page is those of certain ranks in it. OpenAlex is an `INSTANCE`
of `Runner` on its own tables. `Pending` is its queue: the anti-join on papers
with a good work, over the papers ingested since `--since`, a rolling window
(`Since`). A row of bronze is therefore the day of its ingestion, which a merge
changes only when arXiv has revised the paper. What OpenAlex says of a paper
(`Answers`) is a work that names its arXiv id, one that does not, one that fails
validation and becomes a reject, or nothing.

### Discovery, GraphqlBatch, HttpClient

The stack of windows, the queue of batches and the attempts of a request, one
step per request. Repositories are their ranks by stars; tokens are counted in
parts so that a second refills one part, and a second is the unit of time. `now`
is `time.monotonic()`, the clock every caller hands in
(`scrapers/github/__main__.py:125`, `papers/__main__.py:44`,
`hacknation/__main__.py:57`), and `Boot` what `time.time()` is when that clock
shows 0. `RetryDelay` computes with both, as `http.py:107` does: `ResetEpoch` is a
time of day, and `now` is taken from it. A `Retry-After` in seconds is used, one
that is a date is passed over.

### Resolution

Identities are source keys. A job is a plan: the statements it has still to
execute, made from what it has read. `StartResolving` reads bronze, facts and
records, `Resolve` reads links, verdicts and suppressions and makes the plan
(`run_pipeline` and `sink_all`: verdicts, facts, persons, links, records, by
name of table). `Scrape`, `Unmerge` and `Erase` make theirs; `WriteLinks` and
its kin are the merges and deletes, in which the guard of `tools/db.py` acts;
`Crash` drops what is left of a plan. Of the tables of facts there is one,
`fact`, the person on each identity's contribution.

### Matching

Facts about identities and artifacts come in one at a time (`Learn`), within
what the normaliser of a source can say (`Fields`); `Run` applies cross-links,
rules D1 to D8, a scoring of Splink and verdicts, clusters with the guard, links
and reviews. The names of the predicates are those of the rules.

### Ventures, Scoring, DeepDive, Showcase

`Build` is `build_ventures` and the merge of its rows over silver as it is by
then. `Row` is the features job and `run_stage_a`, recomputed after everything
that happens to silver between two runs: `Team`, `Contribution` (which replaces
the share in the same project), `Unlinked`, `Dates`, `Stars` and `Citations` (up
and down), `Founder`, `Affiliation` (also to one no list knows), `Verdict`,
`Quarter`; the numbers are integers of a tenth of a
point. `DeepDive` has one step per Messages request. `Showcase` has the stages
of a scrape (`ScrapeBronze`, `ScrapeSource`, `ScrapeCv`) beside those of a run of
entity resolution (`ErReads`, `ErPerson`, `ErSource`).

## 3. Runs

Passing:

| run | bounds | shows |
|---|---|---|
| `interview` | 1 link, 2 devices, 3 interview rows | consent first, one voice, scored once, `OutreachPromise` |
| `outreach` | 2 links, 2 founders, 2 ventures, 1 device, 1 interview row | no mail after an opt-out |
| `ledger` | 1 job, 2 interviews, 2 snapshots, 2 added rows per table, both modes | ledger complete, newest served, exact when alone, both tables append-only |
| `github` | 2 runs at once, 1 repository, 1 login, 3 days, commits on 2, 4 events in all | what the cursor promises is in bronze |
| `papers` | 3 papers (one cross-listed and revisable, one malformed, one without a good work), 2 categories, 3 days, a window of 1 day, pages of 1, slices of 2 days, a queue of 1, 2 runs of arXiv, 1 failure | a window behind the cursor is complete; the queue is worked off before papers leave it |
| `resolution` | 3 identities of 3 sources, one matching and one doubtful pair, 1 resolver and 1 operator, 1 unmerge or erasure, 1 crash | one active link, existing persons, standing corrections and erasures, everything linked in the end |
| `parts` | see below | one or two properties for each part |

The bounds: links interact only through the person a mail goes to, so one link
shows everything about a chat and two everything about suppression; one venture
has both founders and the other the second one, so the same person is reached
about two ventures. Three interview rows let a completion be retried twice. One
job suffices in `ledger` because a job decides on its export alone, and the
export may be of any age: an overlap of two jobs is a job with an old export
followed by the merges of another, and the theorems below cover any number of
jobs. Two added rows are a row and the one that supersedes it. These two
specifications never stop, and their runs look for deadlock: a server can always
restart, and the pipelines go on.

In `github` a commit of each day and one day of overlap are a watermark with
something below, at and above it; a run that fails between the two saves of
another puts the older cursor back. One repository and one login suffice because
cursors and rows of different ones do not meet, apart from the set of logins
collected in a run; the theorems cover any number of each. `PushLag` and `ShownLag` are 1, which is what the overlaps of
one day allow for. In `papers` pages of one entry shift as soon as a paper
appears in front; the theorems cover any pages, papers and runs. In
`resolution` seven persons are more than three identities
can use up; one operation beside one resolver, with a crash, meets every order
of the statements of two jobs, and the theorems cover any number of both. In
`papers` a paper leaves the window of `--since` from its third day on, and a
queue of one is filled by the one paper without a good work, of which OpenAlex
says nothing or something that is rejected; a work without the arXiv id, which
the theorems cover, fills the queue as these do and is left out of the instance
for its size. These three
specifications and `Parts` stop at their bounds, so that their runs do not look
for deadlock.

`parts` has no composition to show: these parts share no state, so a behaviour
of `Parts` picks one of them and the others rest in their initial state; the
theorems cover any instance. The instances here: a bucket of two tokens, three
attempts, seven seconds, a monotonic clock that started two seconds late; five
repositories over three days with three hits to a search; three keys; three
categories with three searches, two weeks; three things that happen to a team out
of two members beside one outsider; four identities of three sources with six facts to come and
two runs; ten facts and two builds over two companies and two pitches; a
participant with two projects and two edits.

These properties name what they leave out, because the code gives it up there:

| property | leaves out | since |
|---|---|---|
| `WatermarkIsHonest` | `missed`: repositories some saved run did not hydrate, or not with all commits | failed ones become rejects, one page of 100 commits, `--repos` moves the shared watermark (`scrapers/github/scraper.py:154,260`) |
| `StoredReadmeIsCurrent` | `crossed`: rows written while runs overlapped | the read-back of a 304 is as old as the run (`scraper.py:295`) |
| `WindowIsHonest` | `cutDays`: windows of runs cut short, days before a first window | `--limit` and pages that stay empty (`scrapers/papers/arxiv_client.py:97`); the first run starts at `--since` (line 192) |
| `EnrichedInTheEnd` | `TooOld`: papers ingested before `--since`; `Crowded`: papers beside which the queue stays full of others | a rolling window of 30 days (`scrapers/papers/openalex_client.py:99`, `common/cli.py:27,73`), so that after 30 days of failures nobody asks again; a `LIMIT` without an order (line 100), which papers without a good work can fill every day |
| `ServerIsHeard` | `dated`: answers whose `Retry-After` is a date | `isdigit` (`scrapers/common/http.py:103`): the client backs off as if nothing had been said |
| `BudgetHolds` | `wasted`: the searches of categories that ran out half-way | `used` is assigned when a category returns (`scoring/deepdive.py:224`); the run `search_budget` shows the limit of 12 broken |
| `OnlyGapsLowerConfidence` | changes of the team, features no longer known, verdicts that lose a score or a source | coverage is the share of features that are known (`scoring/stage_a.py`), and those are gone with the fact they rest on, or with time |
| `OneActiveLink`, `CorrectionStands`, `SettlesInTheEnd` | `stale`: identities whose links changed between read and write | no lock between jobs (`er/pipeline.py:305`) |
| `ErasedStaysErased` | all but `forgotten`: what an erasure that ran alone has suppressed | deletes before suppressions (`tools/erase_person.py:281`); persons and links are not guarded (`tools/db.py:73`) |

`TopIsFound` has a condition for the same reason: up to 1000 hits nothing beyond
the fast path is fetched. `ScoresAreRecorded` is about the order of two merges:
it does not deny that the run of a job that died between them stays without its
score, as the retry is skipped. `DoubtIsReviewed` is about pairs left apart, not
about identities put out of a cluster. `ErasedStaysErased` is about the tables
`Resolution` has; that every guarded table of bronze is one the erasure deletes
from is not shown. Scores are integers of a tenth of a point, so that
`FinalIsWithin` says nothing of finer rounding.

`ServerIsHeard` says that no attempt goes out too early. It does not say that
none goes out too late, and after the reset of a secondary limit one does:
`http.py:107` takes `time.monotonic()`, which starts near zero, from an epoch,
so that the sleep lasts as long as the time of day is far from 1970 (in the
model: `Boot` more seconds than asked). The test of that wait
(`tests/scrapers/test_http.py:58-72`) has a fake clock whose zero is the
epoch's. The reset a 429 may name is not read at all (line 106): the model has
such an answer as one that names nothing.

Violations, each a disagreement between the code and a sentence of the
repository (`findings` in `PROJECT.json` quotes both):

| run | the sentence | the code |
|---|---|---|
| `opt_out_page` | `app/api.py:597`, "You have been opted out" | says so for a link no row knows, as after a failure between mail and row |
| `consent_at` | `schemas/ddl/30_gold.sql:183`, "REQUIRED before any interview row" | consent is in memory before the store has it, and stays when the write fails |
| `one_latest` | `docs/contract.md:57`, "exactly one `is_latest` row per venture" | a job flips only the rows its export shows as the latest |
| `rescore_trigger` | `schemas/ddl/30_gold.sql:194`, "triggers rescore" | live, `bronze.hacknation_projects_raw` is read and not in the allowlist |
| `search_budget` | `scoring/deepdive.py:4-5`, "every server_tool_use block counts against MAX_SEARCHES_PER_VENTURE" | a category that runs out half-way is not charged for what it has searched, and the next one starts with the whole budget |

`NewestIsServed` says what is left of "exactly one": the newest row is always
among those served. `NoContactAfterOptOut` says what is left of the page: it is
true once the row is opted out. `BudgetHolds` says what is left of the budget: at
most one budget more for each category that ran out half-way.

Fairness. The `FairSpec` of `PapersScrape` lets the job of OpenAlex start and go
on, as the daily schedule of `docs/plan/reference/scrapers.md:21` says;
`Resolution` and `Showcase` let entity resolution run every night
(`docs/plan/reference/entity-resolution.md:108`) and every job that has set out
take its next statement. Scrapes, analysts, erasures, crashes and the sources
are never fair. `FairSpec` of `ScoreLedger` asks that `Rescore`,
if it stays possible, happens: every completion calls it and the API offers it
on request. It is the weakest assumption under which "triggers rescore" could
be true, and the run shows that it is not: the action is never enabled live.
With the missing name added to `READABLE_NAMES` the property holds within the
same bounds. Founders, mailers, crashes and its jobs are never assumed to be fair.

Each property of a passing run comes with a mutant, defined next to the operator
it changes and marked as such in a comment, that breaks it under the same
configuration.

## 4. Proofs

All theorems hold for every value of the constants within the assumptions the
modules name, and every run evaluates those of its modules. They say what kind
of value a constant is (`TeamAssumption`, `BoundAssumption`, `ModesAssumption`,
`BoundsAssumption`, `HttpAssumption`, `RunnerAssumption`,
`ResolutionAssumption`, `FindAssumption`, `BatchAssumption`, `DiveAssumption`,
`MatchAssumption`, `FactAssumption`, `VentureAssumption`, `ScoreAssumption`,
`ShowAssumption`), that no name stands for two things (`SentinelAssumption`,
`KeysAssumption`, `PaperKeysAssumption`, `CursorAssumption`), or what the
outside keeps to (`GithubAssumption`, `PapersAssumption`). Three are worth a
second look. `FactAssumption` lets the sources say only what their normalisers
let through; in `VentureAssumption` the id of a company is never that of a
repository, since `tools/ids.py:74` makes both from the kind of the anchor and
its id; and `BatchAssumption` asks that a batch names no key twice, which holds
of what discovery found and of the set of logins, not of a list given to
`--repos` that repeats itself. `WatermarkHonest` states a further one, `PushLag
<= 1`: a commit reaches GitHub on the day it carries or on the next; and
`WindowHonest` states `ShownLag <= 1` of arXiv. The overlap of one day covers
no longer delay.

`Interview_proofs`. None of the properties is inductive alone. `Inv` adds
`RowInv` (a row that is not there has no chat), `ChatInv` (consent in memory is
consent in the transcript, and only the bound session has spoken), `StepInv`
(what a handler has established before each of its calls: that the person about
to be mailed has no opted-out row, that consent is there and the row open until
the interview is finished, that the last interview row is the one at work) and
`ScoreInv` (a scored row belongs to a finished link, which no `Usable` call can
reopen). The lemmas `SendingInv`, `ChattingInv`, `CompletingInv`,
`OptingOutInv` and `EnvironmentInv` take the actions one by one. From the
invariant follow `TypeCorrect`, `ConsentComesFirst`, `InterviewsHaveOneVoice`,
`InterviewsAreScoredOnce`, the action property `OptOutStopsContact`, and
`Implementation`: under the mapping `Phase`, `Kept`, `Attached` every step of a
handler is a step of `OutreachPromise` or none.

`ScoreLedger_proofs`. `Inv` adds `SeedInv` (the tables are never empty) and
`JobInv` (a job about to merge the score of a run has merged the run, so that a
crash leaves a run without a score but never a score without a run; jobs only
run live). The lemmas `ScoreAdded`, `MemoAdded`, `RunAdded` say what a merge
does to a table; the rest is one step per action. `ScoresAreAppendOnly` and
`MemosAreAppendOnly` are refinements of `AppendOnly`.

`HttpClient_proofs`. `RateIsKept` compares two moments of the past, and a step
knows only the bucket: `BucketInv` says of every request that what was sent
since it, and the tokens that are left, do not exceed a burst and what was
refilled since it. `SleepInv` says that a sleep in `acquire` is long enough,
`HeardInv` that the time a server named has come before the next attempt, be it
named in seconds or as a reset: the sleep computed from a time of day is too long
for any `Boot`, never too short. From them `RateKept` and `ServerHeard`. `Cost` hides the product `n * Period`, and
the lemmas `SlackOfRefill` and `SlackOfCharge` the sums, from the provers. The
backoff is a power of two, which the library defines by recursion: `TwoTo` says
that it is a number since it counts the subsets of a set, `SleepType` that a
client asleep in a backoff knows its attempt, and from both follows
`TypeCorrect`.

`GithubScrape_proofs`. The lemmas `Yielded`, `Flushed`, `Loaded`, `Left`,
`MergedRows` say what each operation of `Runner` does, row by row; `BaseStep`
gives `TypeCorrect`, and that an idle run remembers nothing. The three promises
of the cursor have the same shape, and so have their invariants: it holds of
the saved cursor; it holds of the cursor each run under way started from, since
`RunFails` puts that one back; and what a run will promise when it saves holds
already of bronze and its buffer together (`Covered`, `CoreFetched`,
`Written`). For `WatermarkHonest` a push is too young for any watermark; for
`CoreAccounted` and `ReadmeCurrent` a change gets an ETag ahead of all that are
kept. `ReadmeCurrent` also needs `ReadBack`, that a payload recomposed with the
stored README is recomposed with the current one, which fails once a row has
been written while runs overlapped (`crossed`).

`PapersScrape_proofs`. `TypeCorrect` includes that a run asks for days of its
own window. `WindowHonest` has the shape of `WatermarkHonest`: `CursorInv` is
the promise of the saved cursor and of the one a failing run would put back,
`SeenInv` says that what a run has seen is in bronze or in its buffer,
`WalkInv` that a run which left nothing out has seen what is due in the pages
behind it. The last one is what shifting pages threaten. It holds because
results ascend by day and a paper that appears meanwhile is too young to be due
or stands behind all papers that are: the lemmas on `Rank` show that no due
paper moves, that ranks are one to one, and so that a page shorter than
`PageSize` is the last.

`Clusters_proofs`. `ComponentsDisjoint` and `PairsStayTogether`: with components
defined by closed sets both follow from the complement of a closed set being
closed. `MinOf` and `KeptFirst` give the guard its first identity.

`Resolution_proofs`. What a job is about to do is data here, its plan, and the
invariant speaks of plans as much as of tables. `LinkInv`: a statement on links
not yet executed leaves one active link of every identity that nobody has
changed since the job read it, and a resolution plans links only for those it
saw without one.
`PersonInv`: a person linked by statement n is in its table or in an earlier
statement of the same plan, which is what the order of the writes is for.
`BusyInv`: next to a job that runs alone nobody is busy. `ErasureInv`: by the
time such an erasure suppresses an identity, its earlier statements have deleted
the identity from every table; `ForgottenInv`: from then on the guard, and what
later runs read, keep it away. From them `TypeCorrect`, `OneLink`,
`LinkedPersons`, `ErasedForGood`, and the action property `CorrectionsStand`:
a resolution writes what it planned for identities it saw without a link, and if
one has a link by now, somebody else changed it, so that it is `stale`.

`Parts_proofs`. For every part a lemma (`FindAlone`, `GqlAlone`, ...) says that
a behaviour of `Parts` is a behaviour of that part; then each has its invariant.

* `EveryKey` (`GqlInv`): a key is in one queued batch or in one of the sets of
  settled keys, and has been asked at most once a round.
* `Budget`, `BoughtOnce` (`DiveInv`): what was bought is charged to the venture,
  held by the category at hand, or lost with a category that failed; a category
  being asked about has no verdict this week.
* `TopFound` (`FindInv`): while windows are cut in halves, each hit is among the
  stubs, in a window on the stack, or truncated by its own full day (`WaitInv`).
  That the first pages of a search are its first places rests on ranks again.
* `NameIsNotEnough`, `DoubtsAreAsked` (`MatchInv`, `DoubtInv`): identities of a
  person are connected by pairs that a rule, Splink or a verdict put together,
  over all runs so far, and the pairs of name and employer are none of them.
* `RepoRowsKept` (`SeedsInv`), `StartupsKept` (`VentureInv`): the cut to
  `MaxMembers` keeps the members of largest weight. That a largest exists, and
  that sums over a set do not depend on the order, would be inductions over the
  data; here a smallest counterexample is led to a contradiction instead. An
  officer is not cut: a shared one is among the repository's own members, and
  the others of these are too few to fill all places.
* `FinalWithin`, `ConfidenceKept`, `NeverWorse` (`ScoreInv`): the row served is
  the function `RowOf` of weights, silver, quarter and verdict. Any step may take
  facts away; `ConfidenceIsKept` compares any two rows of which the second knows
  every feature the first one knows (`Fuller`), and `KnowsMoves` what one step
  leaves alone. What remains is arithmetic of means, rounding and percentiles, of
  which `FinalWithin` needs that a weighted mean stays between its least and its
  largest term.
* `TypesKept`: every variable of every part keeps its type. For a deep dive that
  includes that no category runs longer than `MaxRounds`, for discovery that a
  window never leaves the days searched, for matching that the queue of reviews
  names identities it knows.

Only model-checked: the five violations and the liveness properties
`EnrichedInTheEnd`, `SettlesInTheEnd` and `PersonCatchesUp`, which are out of
the prover's reach. The stores of other
processes are not proved about.

## 5. Not modelled

* The text of mails and memos, what founders say, what a model answers.
* `gold.venture_gaps`, the graph of connections, calibration of institutions,
  the funding signal and the filters of the candidate pool
  (`scoring/gaps.py`, `graph.py`, `institutions.py`, `funding.py`, `pool.py`):
  functions of one snapshot, without steps.
* Stage B beyond its budget: nothing in the repository composes the deep-dive
  agent yet, and its verdict is any number.
* Splink's model and blocking, the prompt of the adjudication: a choice of
  bands and verdicts. `er/quality.py` and `corroborate` have no caller.
* Semantic Scholar and the archive of code links: look-ups on the same runner
  without a cursor of their own.
* The regular expressions of `scrapers/github/signals.py`; e-mail addresses on
  stored profiles.
* Files in the volume (CVs), the schedule of the jobs, the run log.
* The type of cells: `WarehouseStore.upsert` does not coerce as the jobs do; to
  the models a merge succeeds or fails.
* Login, read-only handlers, thesis and weights: single-row operations.
* The front ends, which show what the API serves and re-rank it in memory.

## 6. Plan

In the order of what is lost when it goes wrong:

1. `Interview`, `OutreachPromise`, `ScoreLedger`, `AppendOnly` and their proofs: done.
2. Scrapers, resolution with erasure, matching, ventures, scores and the other
   parts, model-checked: done.
3. Proofs of the invariants and action properties of all of them: done.
4. Next an abstract "partition of the records with one active link each", with
   `Resolution` of jobs that do not overlap shown to implement it.
5. Pool and funding on top of `Ventures`.
