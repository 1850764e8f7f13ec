---- MODULE GithubScrape ----
(***************************************************************************)
(* The GitHub scraper on top of the shared runner: discovery, hydration    *)
(* with the commit watermark, READMEs and contributor lists behind ETags,  *)
(* profiles of the core contributors (scrapers/github).                    *)
(*                                                                         *)
(* GitHub itself is the environment.  A commit is the day it carries, of   *)
(* which each repository has at most one; a README and a contributor list  *)
(* are their ETag, a number that grows with every change, 0 for none.      *)
(***************************************************************************)
EXTENDS Runner, FiniteSets

CONSTANTS
  Repos,        \* repositories search may return
  Logins,       \* GitHub accounts
  LastDay,      \* bound: days 1..LastDay
  LastCommit,   \* bound: the last day a commit carries
  MaxTag,       \* bound: changes of one README, of one contributor list
  MaxEvents,    \* bound: changes of any kind and runs started, together
  PushLag,      \* a commit is pushed at most this many days after its date
  HistoryPage   \* commits one hydration returns (history(first: 100))

ASSUME GithubAssumption ==
  /\ LastDay >= 1
  /\ {LastDay, LastCommit, MaxTag, MaxEvents, PushLag} \subseteq Nat
  /\ HistoryPage \in Nat \ {0}

Days == 1..LastCommit
Tags == 0..MaxTag

VARIABLES
  \* GitHub
  day,         \* today
  history,     \* per repository, the commits on its default branch
  readme,      \* per repository, its README
  team,        \* per repository, its contributor list: tag, core
  gone,        \* accounts that were deleted
  \* per run, the memory of GithubScraper
  windowEnd,   \* _window_end
  stubs,       \* repositories discovered and not yet hydrated
  cached,      \* READMEs read back from bronze when the fetch began
  readmeTags,  \* _new_readme_etags
  teamTags,    \* _new_contrib_etags
  coreLogins,  \* _core_logins whose profiles are still to be fetched
  events,      \* changes and runs so far, see MaxEvents
  \* history variables
  whole,       \* per run, repositories hydrated with every commit asked for
  missed,      \* repositories some saved run did not hydrate like that
  crossed      \* repositories whose row was written while runs overlapped

githubVars == <<day, history, readme, team, gone>>
memoryVars == <<windowEnd, stubs, cached, readmeTags, teamTags, coreLogins>>
ghostVars == <<whole, missed, crossed>>
vars == <<runnerVars, githubVars, memoryVars, events, ghostVars>>

RepoKey(r) == <<"repo", r>>
CommitKey(r, d) == <<"commit", r, d>>
UserKey(l) == <<"user", l>>
RejectKey(x) == <<"reject", x>>

ASSUME KeysAssumption ==
  /\ NoRow \notin Tags
  /\ \A r \in Repos : /\ RepoKey(r) \in Keys /\ TableOf[RepoKey(r)] = "repos"
                      /\ \A d \in Days : CommitKey(r, d) \in Keys
  /\ \A l \in Logins : UserKey(l) \in Keys /\ RejectKey(l) \in Keys

NoTags == [r \in Repos |-> 0]

\* commits_since 0 stands for no watermark.
NoGithubCursor == [since |-> 0, readmeTags |-> NoTags, teamTags |-> NoTags]

ASSUME CursorAssumption == NoCursor = NoGithubCursor

Team == [tag : Tags, core : SUBSET Logins]

Init ==
  /\ RunnerInit
  /\ day = 1
  /\ history = [r \in Repos |-> {}]
  /\ readme = NoTags
  /\ team = [r \in Repos |-> [tag |-> 0, core |-> {}]]
  /\ gone = {}
  /\ windowEnd = [p \in Runs |-> 0]
  /\ stubs = [p \in Runs |-> {}]
  /\ cached = [p \in Runs |-> NoTags]
  /\ readmeTags = [p \in Runs |-> NoTags]
  /\ teamTags = [p \in Runs |-> NoTags]
  /\ coreLogins = [p \in Runs |-> {}]
  /\ events = 0
  /\ whole = [p \in Runs |-> {}]
  /\ missed = {}
  /\ crossed = {}

----
(* GitHub *)

\* One of the bounded number of things that happen.
Happens == events < MaxEvents /\ events' = events + 1

NextDay ==
  /\ day < LastDay
  /\ day' = day + 1
  /\ UNCHANGED <<runnerVars, history, readme, team, gone, memoryVars, events, ghostVars>>

Push(r, d) ==
  /\ d <= day
  /\ Happens
  /\ day <= d + PushLag
  /\ d \notin history[r]
  /\ history' = [history EXCEPT ![r] = @ \cup {d}]
  /\ UNCHANGED <<runnerVars, day, readme, team, gone, memoryVars, ghostVars>>

EditReadme(r) ==
  /\ readme[r] < MaxTag
  /\ Happens
  /\ readme' = [readme EXCEPT ![r] = @ + 1]
  /\ UNCHANGED <<runnerVars, day, history, team, gone, memoryVars, ghostVars>>

\* Contributions are made, and perhaps the core set of core_contributors moves.
ChangeTeam(r, core) ==
  /\ team[r].tag < MaxTag
  /\ Happens
  /\ team' = [team EXCEPT ![r] = [tag |-> @.tag + 1, core |-> core]]
  /\ UNCHANGED <<runnerVars, day, history, readme, gone, memoryVars, ghostVars>>

DeleteAccount(l) ==
  /\ l \notin gone
  /\ Happens
  /\ gone' = gone \cup {l}
  /\ UNCHANGED <<runnerVars, day, history, readme, team, memoryVars, ghostVars>>

----
(* The fetch of a run. *)

\* One read-back of the READMEs whose ETag the cursor knows.
StoredReadmes(found) ==
  [r \in Repos |-> IF r \in found /\ cursor.readmeTags[r] # 0 /\ bronze[RepoKey(r)] # NoRow
                   THEN bronze[RepoKey(r)] ELSE 0]

\* Discovery (see the module Discovery), or the explicit list of --repos.
Discover(p, found) ==
  /\ Happens
  /\ Load(p)
  /\ windowEnd' = [windowEnd EXCEPT ![p] = day]
  /\ stubs' = [stubs EXCEPT ![p] = found]
  /\ cached' = [cached EXCEPT ![p] = StoredReadmes(found)]
  /\ UNCHANGED <<githubVars, readmeTags, teamTags, coreLogins, whole, missed, crossed>>

\* Commits of the default branch from the watermark on.
Asked(p, r) == {d \in history[r] : d >= loaded[p].since}

\* The newest of them that fit into one page.
Page(commits) ==
  {d \in commits : Cardinality({e \in commits : e > d}) < HistoryPage}

\* Mutant: a README that was not modified is left out of the payload.
ChangedReadme(p, r) ==
  IF readme[r] = loaded[p].readmeTags[r] THEN 0 ELSE readme[r]

\* The README for the payload.  Not modified: the stored one, fetched anew when
\* there is none.
ReadmeOf(p, r) ==
  IF readme[r] # 0 /\ readme[r] = loaded[p].readmeTags[r] /\ cached[p][r] # 0
  THEN cached[p][r] ELSE readme[r]

\* The commits of the answer become rows of their own.
CommitRows(p, r) == {CommitKey(r, d) : d \in Page(Asked(p, r))}

RepoRows(p, r) ==
  [k \in Keys |-> IF k = RepoKey(r) THEN ReadmeOf(p, r)
                  ELSE IF k \in CommitRows(p, r) THEN 0 ELSE NoRow]

RejectRow(x) == [k \in Keys |-> IF k = RejectKey(x) THEN 0 ELSE NoRow]

\* Logins to fetch profiles of: none when the list is not modified.
NewCore(p, r) ==
  IF team[r].tag = loaded[p].teamTags[r] THEN {} ELSE team[r].core

\* A repository comes back from GraphQL; its README and contributors follow.
Hydrate(p, r) ==
  /\ r \in stubs[p]
  /\ Yield(p, RepoRows(p, r))
  /\ stubs' = [stubs EXCEPT ![p] = @ \ {r}]
  /\ readmeTags' = [readmeTags EXCEPT ![p][r] = readme[r]]
  /\ whole' = [whole EXCEPT ![p] =
       IF Page(Asked(p, r)) = Asked(p, r) THEN @ \cup {r} ELSE @]
  /\ \/ /\ teamTags' = [teamTags EXCEPT ![p][r] = team[r].tag]
        /\ coreLogins' = [coreLogins EXCEPT ![p] = @ \cup NewCore(p, r)]
     \/ UNCHANGED <<teamTags, coreLogins>>  \* 404, or 202 without a body
  /\ UNCHANGED <<githubVars, windowEnd, cached, events, missed, crossed>>

\* The alias stays broken after its own retry.
HydrationFails(p, r) ==
  /\ r \in stubs[p]
  /\ Yield(p, RejectRow(r))
  /\ stubs' = [stubs EXCEPT ![p] = @ \ {r}]
  /\ UNCHANGED <<githubVars, windowEnd, cached, readmeTags, teamTags, coreLogins, events,
                 ghostVars>>

\* Deleted or renamed since the search: logged and dropped.
RepoNotFound(p, r) ==
  /\ p \in running
  /\ r \in stubs[p]
  /\ stubs' = [stubs EXCEPT ![p] = @ \ {r}]
  /\ UNCHANGED <<runnerVars, githubVars, windowEnd, cached, readmeTags, teamTags, coreLogins, events,
                 ghostVars>>

\* Mutant: a profile that cannot be fetched is forgotten.
ProfileOrNothing(l, answers) ==
  [k \in Keys |-> IF answers /\ k = UserKey(l) THEN 0 ELSE NoRow]

\* What a profile query gives for a login.
ProfileRows(l, answers) ==
  [k \in Keys |-> IF k = (IF answers THEN UserKey(l) ELSE RejectKey(l)) THEN 0 ELSE NoRow]

FetchProfile(p, l, answers) ==
  /\ stubs[p] = {}
  /\ l \in coreLogins[p]
  /\ Yield(p, IF l \in gone THEN EmptyBuffer ELSE ProfileRows(l, answers))
  /\ coreLogins' = [coreLogins EXCEPT ![p] = @ \ {l}]
  /\ UNCHANGED <<githubVars, windowEnd, stubs, cached, readmeTags, teamTags, events, ghostVars>>

----
(* The rest of the run. *)

FlushTable(p, t) ==
  /\ Flush(p, t)
  /\ crossed' = IF cursor = loaded[p] /\ running = {p} THEN crossed
                ELSE crossed \cup {r \in Repos : t = "repos" /\ buffer[p][RepoKey(r)] # NoRow}
  /\ UNCHANGED <<githubVars, memoryVars, events, whole, missed>>

\* Mutant: the next run starts at the day this one did.
WatermarkNow(p) == windowEnd[p]

\* Mutant: the overlap is added.
WatermarkAfter(p) == windowEnd[p] + 1

\* The watermark of the next run: COMMIT_OVERLAP_DAYS before the end of this one.
Watermark(p) == windowEnd[p] - 1

ForgetRun(p) ==
  /\ windowEnd' = [windowEnd EXCEPT ![p] = 0]
  /\ stubs' = [stubs EXCEPT ![p] = {}]
  /\ cached' = [cached EXCEPT ![p] = NoTags]
  /\ readmeTags' = [readmeTags EXCEPT ![p] = NoTags]
  /\ teamTags' = [teamTags EXCEPT ![p] = NoTags]
  /\ coreLogins' = [coreLogins EXCEPT ![p] = {}]
  /\ whole' = [whole EXCEPT ![p] = {}]

SaveCursor(p) ==
  /\ stubs[p] = {}
  /\ coreLogins[p] = {}
  /\ Save(p, [since |-> Watermark(p), readmeTags |-> readmeTags[p], teamTags |-> teamTags[p]])
  /\ missed' = missed \cup (Repos \ whole[p])
  /\ ForgetRun(p)
  /\ UNCHANGED <<githubVars, events, crossed>>

GiveUp(p) ==
  /\ RunFails(p) \/ RunCrashes(p)
  /\ ForgetRun(p)
  /\ UNCHANGED <<githubVars, events, missed, crossed>>

----
World ==
  \/ NextDay
  \/ \E r \in Repos, d \in Days : Push(r, d)
  \/ \E r \in Repos : EditReadme(r)
  \/ \E r \in Repos, core \in SUBSET Logins : ChangeTeam(r, core)
  \/ \E l \in Logins : DeleteAccount(l)

Fetch(p) ==
  \/ \E found \in SUBSET Repos : Discover(p, found)
  \/ \E r \in Repos : Hydrate(p, r) \/ HydrationFails(p, r) \/ RepoNotFound(p, r)
  \/ \E l \in Logins, answers \in BOOLEAN : FetchProfile(p, l, answers)

Finish(p) ==
  \/ \E t \in Tables : FlushTable(p, t)
  \/ SaveCursor(p)
  \/ GiveUp(p)

Next == World \/ \E p \in Runs : Fetch(p) \/ Finish(p)

Spec == Init /\ [][Next]_vars

----
(* Properties *)

Cursor == [since : 0..LastDay, readmeTags : [Repos -> Tags], teamTags : [Repos -> Tags]]
Rows == [Keys -> Tags \cup {NoRow}]

\* The state has its shape: cursors, buffers and tables as base.py, state.py
\* and GithubScraper.__init__ declare them, and an idle run has no memory.
TypeOK ==
  /\ bronze \in Rows
  /\ cursor \in Cursor
  /\ running \subseteq Runs
  /\ loaded \in [Runs -> Cursor]
  /\ buffer \in [Runs -> Rows]
  /\ day \in 1..LastDay
  /\ history \in [Repos -> SUBSET Days]
  /\ readme \in [Repos -> Tags]
  /\ team \in [Repos -> Team]
  /\ gone \subseteq Logins
  /\ windowEnd \in [Runs -> 0..LastDay]
  /\ stubs \in [Runs -> SUBSET Repos]
  /\ cached \in [Runs -> [Repos -> Tags]]
  /\ readmeTags \in [Runs -> [Repos -> Tags]]
  /\ teamTags \in [Runs -> [Repos -> Tags]]
  /\ coreLogins \in [Runs -> SUBSET Logins]
  /\ events \in 0..MaxEvents
  /\ whole \in [Runs -> SUBSET Repos]
  /\ missed \subseteq Repos
  /\ crossed \subseteq Repos
  /\ \A p \in running : windowEnd[p] \in 1..day

\* The watermark promises the commits below it (GithubScraper.next_cursor): all
\* of a repository that every saved run hydrated whole are in bronze, whatever
\* runs overlapped, failed and put an old cursor back.
WatermarkIsHonest ==
  \A r \in Repos \ missed : \A d \in history[r] :
    d < cursor.since => bronze[CommitKey(r, d)] # NoRow

\* A contributor list that will be answered with a 304 has had its core
\* contributors fetched, or rejected, or they are gone (_collect_core keeps the
\* ETag, and only a changed list is looked at again).
CoreIsAccountedFor ==
  \A r \in Repos : team[r].tag # 0 /\ team[r].tag = cursor.teamTags[r] =>
    \A l \in team[r].core \ gone :
      bronze[UserKey(l)] # NoRow \/ bronze[RejectKey(l)] # NoRow

\* A README that will be answered with a 304 is the one in bronze, unless a run
\* wrote the row while another was under way (_readme recomposes the
\* payload with what it reads back).
StoredReadmeIsCurrent ==
  \A r \in Repos \ crossed : readme[r] # 0 /\ readme[r] = cursor.readmeTags[r] =>
    bronze[RepoKey(r)] = readme[r]

====
