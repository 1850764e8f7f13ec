---- MODULE GithubScrape_proofs ----
(***************************************************************************)
(* Proofs about the module GithubScrape, for any number of runs at once,   *)
(* repositories, accounts, days and changes: its type invariant, and what  *)
(* the saved cursor promises of bronze.                                    *)
(***************************************************************************)
EXTENDS GithubScrape, TLAPS

(***************************************************************************)
(* A run that is not under way has no memory, so that the next one starts  *)
(* clean.                                                                  *)
(***************************************************************************)

IdleInv ==
  \A p \in Runs \ running :
    /\ loaded[p] = NoGithubCursor
    /\ buffer[p] = EmptyBuffer
    /\ readmeTags[p] = NoTags
    /\ teamTags[p] = NoTags
    /\ whole[p] = {}

Base == TypeOK /\ IdleInv

(***************************************************************************)
(* What the operators of the runner do to single rows.                     *)
(***************************************************************************)

LEMMA Constants ==
  /\ LastDay \in Nat /\ MaxTag \in Nat /\ MaxEvents \in Nat /\ PushLag \in Nat
  /\ LastDay >= 1 /\ 0 \in Tags /\ Tags \subseteq Nat
  /\ NoTags \in [Repos -> Tags]
  /\ NoGithubCursor \in Cursor
  /\ EmptyBuffer \in Rows
<1>1. LastDay \in Nat /\ MaxTag \in Nat /\ MaxEvents \in Nat /\ PushLag \in Nat /\ LastDay >= 1
  BY GithubAssumption
<1>2. 0 \in Tags /\ Tags \subseteq Nat
  BY <1>1 DEF Tags
<1>3. NoTags \in [Repos -> Tags]
  BY <1>2 DEF NoTags
<1>4. QED
  BY <1>1, <1>2, <1>3 DEF NoGithubCursor, Cursor, EmptyBuffer, Rows

\* Rows put over rows by key.
LEMMA MergedRows ==
  ASSUME NEW old \in Rows, NEW new \in Rows
  PROVE  /\ Merged(old, new) \in Rows
         /\ \A k \in Keys : Merged(old, new)[k] = IF new[k] # NoRow THEN new[k] ELSE old[k]
BY DEF Merged, Rows

\* A yield changes the buffer of its run only, and only where it has rows.
LEMMA Yielded ==
  ASSUME NEW p \in Runs, NEW rows \in Rows, Base, Yield(p, rows)
  PROVE  /\ p \in running /\ UNCHANGED <<bronze, cursor, running, loaded>>
         /\ buffer' \in [Runs -> Rows]
         /\ \A q \in Runs \ {p} : buffer'[q] = buffer[q]
         /\ \A k \in Keys :
              buffer'[p][k] = IF rows[k] # NoRow THEN rows[k] ELSE buffer[p][k]
<1>1. buffer \in [Runs -> Rows]
  BY DEF Base, TypeOK
<1>2. buffer' = [buffer EXCEPT ![p] = Merged(buffer[p], rows)]
  BY DEF Yield
<1>3. Merged(buffer[p], rows) \in Rows
      /\ \A k \in Keys :
           Merged(buffer[p], rows)[k] = IF rows[k] # NoRow THEN rows[k] ELSE buffer[p][k]
  BY <1>1, MergedRows
<1>4. QED
  BY <1>1, <1>2, <1>3 DEF Yield

\* A flush moves the rows of one table from the buffer of its run to bronze.
LEMMA Flushed ==
  ASSUME NEW p \in Runs, NEW t, Base, Flush(p, t)
  PROVE  /\ p \in running /\ UNCHANGED <<cursor, running, loaded>>
         /\ bronze' \in Rows /\ buffer' \in [Runs -> Rows]
         /\ \A q \in Runs \ {p} : buffer'[q] = buffer[q]
         /\ \A k \in Keys :
              \/ /\ TableOf[k] = t /\ buffer[p][k] # NoRow
                 /\ bronze'[k] = buffer[p][k] /\ buffer'[p][k] = NoRow
              \/ bronze'[k] = bronze[k] /\ buffer'[p][k] = buffer[p][k]
<1>1. buffer \in [Runs -> Rows] /\ bronze \in Rows
  BY DEF Base, TypeOK
<1>2. OfTable(buffer[p], t) \in Rows
      /\ \A k \in Keys : OfTable(buffer[p], t)[k] = IF TableOf[k] = t THEN buffer[p][k] ELSE NoRow
  BY <1>1 DEF OfTable, Rows
<1>3. bronze' \in Rows
      /\ \A k \in Keys : bronze'[k] = IF OfTable(buffer[p], t)[k] # NoRow
                                      THEN OfTable(buffer[p], t)[k] ELSE bronze[k]
  BY <1>1, <1>2, MergedRows DEF Flush
<1> DEFINE rest == [k \in Keys |-> IF TableOf[k] = t THEN NoRow ELSE buffer[p][k]]
<1>4. rest \in Rows
  BY <1>1 DEF Rows
<1>5. buffer' = [buffer EXCEPT ![p] = rest]
  BY DEF Flush
<1>6. /\ buffer' \in [Runs -> Rows] /\ buffer'[p] = rest
      /\ \A q \in Runs \ {p} : buffer'[q] = buffer[q]
  BY <1>1, <1>4, <1>5
<1>7. QED
  BY <1>2, <1>3, <1>6 DEF Flush

\* A run that leaves forgets what it has loaded and buffered.
LEMMA Left ==
  ASSUME NEW p \in Runs, Base, Leave(p)
  PROVE  /\ p \in running /\ running' = running \ {p} /\ bronze' = bronze
         /\ loaded' \in [Runs -> Cursor] /\ buffer' \in [Runs -> Rows]
         /\ loaded'[p] = NoGithubCursor /\ buffer'[p] = EmptyBuffer
         /\ \A q \in Runs \ {p} : loaded'[q] = loaded[q] /\ buffer'[q] = buffer[q]
<1>1. buffer \in [Runs -> Rows] /\ loaded \in [Runs -> Cursor]
  BY DEF Base, TypeOK
<1>2. QED
  BY <1>1, Constants, CursorAssumption DEF Leave

\* A run that starts has loaded the cursor.
LEMMA Loaded ==
  ASSUME NEW p \in Runs, Base, Load(p)
  PROVE  /\ p \notin running /\ running' = running \cup {p}
         /\ UNCHANGED <<bronze, cursor, buffer>>
         /\ loaded' \in [Runs -> Cursor] /\ loaded'[p] = cursor
         /\ \A q \in Runs \ {p} : loaded'[q] = loaded[q]
BY DEF Base, TypeOK, Load

\* The rows a fetch yields.
LEMMA YieldedRows ==
  ASSUME Base
  PROVE  /\ \A p \in Runs, r \in Repos : RepoRows(p, r) \in Rows /\ ReadmeOf(p, r) \in Tags
         /\ \A x : RejectRow(x) \in Rows
         /\ \A l, answers : ProfileRows(l, answers) \in Rows
         /\ EmptyBuffer \in Rows
<1>1. ASSUME NEW p \in Runs, NEW r \in Repos PROVE ReadmeOf(p, r) \in Tags
  BY DEF ReadmeOf, Base, TypeOK
<1>2. QED
  BY <1>1, Constants DEF RepoRows, RejectRow, ProfileRows, Rows


(***************************************************************************)
(* The types, and the clean memory of an idle run.                         *)
(***************************************************************************)

LEMMA BaseInit == Init => Base
<1> SUFFICES ASSUME Init PROVE Base
  OBVIOUS
<1>1. TypeOK
  <2>1. bronze \in Rows /\ cursor \in Cursor /\ running \subseteq Runs
        /\ loaded \in [Runs -> Cursor] /\ buffer \in [Runs -> Rows]
    BY Constants, CursorAssumption DEF Init, RunnerInit
  <2>2. day \in 1..LastDay /\ history \in [Repos -> SUBSET Days] /\ readme \in [Repos -> Tags]
        /\ team \in [Repos -> Team] /\ gone \subseteq Logins /\ events \in 0..MaxEvents
    BY Constants DEF Init, Team
  <2>3. windowEnd \in [Runs -> 0..LastDay] /\ stubs \in [Runs -> SUBSET Repos]
        /\ coreLogins \in [Runs -> SUBSET Logins] /\ whole \in [Runs -> SUBSET Repos]
        /\ missed \subseteq Repos /\ crossed \subseteq Repos /\ running = {}
    BY Constants DEF Init, RunnerInit
  <2>4. cached \in [Runs -> [Repos -> Tags]] /\ readmeTags \in [Runs -> [Repos -> Tags]]
        /\ teamTags \in [Runs -> [Repos -> Tags]]
    BY Constants DEF Init
  <2>5. QED
    BY <2>1, <2>2, <2>3, <2>4 DEF TypeOK
<1>2. IdleInv
  BY CursorAssumption DEF Init, RunnerInit, IdleInv
<1>3. QED
  BY <1>1, <1>2 DEF Base

\* What happens on GitHub leaves the runs alone.
LEMMA WorldBase ==
  ASSUME Base, World
  PROVE  Base' /\ day' \in Nat /\ day <= day' /\ UNCHANGED <<runnerVars, memoryVars, ghostVars>>
<1>1. UNCHANGED <<runnerVars, memoryVars, ghostVars>>
  BY DEF World, NextDay, Push, EditReadme, ChangeTeam, DeleteAccount, ghostVars
<1>2. day \in 1..LastDay /\ events \in 0..MaxEvents
  BY DEF Base, TypeOK
<1>3. day' \in 1..LastDay /\ day <= day'
  BY <1>2, Constants DEF World, NextDay, Push, EditReadme, ChangeTeam, DeleteAccount
<1>4. events' \in 0..MaxEvents
  BY <1>2, Constants DEF World, NextDay, Push, EditReadme, ChangeTeam, DeleteAccount, Happens
<1>5. history' \in [Repos -> SUBSET Days]
  BY DEF Base, TypeOK, World, NextDay, Push, EditReadme, ChangeTeam, DeleteAccount
<1>6. readme' \in [Repos -> Tags]
  <2>1. ASSUME NEW r \in Repos, EditReadme(r) PROVE readme[r] + 1 \in Tags
    BY <2>1, Constants DEF Base, TypeOK, EditReadme, Tags
  <2>2. QED
    BY <2>1 DEF Base, TypeOK, World, NextDay, Push, EditReadme, ChangeTeam, DeleteAccount
<1>7. team' \in [Repos -> Team]
  <2>1. ASSUME NEW r \in Repos, NEW core \in SUBSET Logins, ChangeTeam(r, core)
        PROVE  [tag |-> team[r].tag + 1, core |-> core] \in Team
    BY <2>1, Constants DEF Base, TypeOK, ChangeTeam, Team, Tags
  <2>2. QED
    <3>1. CASE \E r \in Repos, core \in SUBSET Logins : ChangeTeam(r, core)
      <4> PICK r \in Repos, core \in SUBSET Logins : ChangeTeam(r, core)
        BY <3>1
      <4>1. team' = [team EXCEPT ![r] = [tag |-> team[r].tag + 1, core |-> core]]
        BY DEF ChangeTeam
      <4>2. [tag |-> team[r].tag + 1, core |-> core] \in Team
        BY <2>1
      <4>3. QED
        BY <4>1, <4>2 DEF Base, TypeOK
    <3>2. CASE UNCHANGED team
      BY <3>2 DEF Base, TypeOK
    <3>3. QED
      BY <3>1, <3>2 DEF World, NextDay, Push, EditReadme, DeleteAccount
<1>8. gone' \subseteq Logins
  BY DEF Base, TypeOK, World, NextDay, Push, EditReadme, ChangeTeam, DeleteAccount
<1>9. \A p \in running' : windowEnd'[p] \in 1..day'
  BY <1>1, <1>2, <1>3 DEF Base, TypeOK, runnerVars, memoryVars
<1>10. TypeOK'
  BY <1>1, <1>3, <1>4, <1>5, <1>6, <1>7, <1>8, <1>9
  DEF Base, TypeOK, runnerVars, memoryVars, ghostVars
<1>11. IdleInv'
  BY <1>1 DEF Base, IdleInv, runnerVars, memoryVars, ghostVars
<1>12. QED
  BY <1>1, <1>2, <1>3, <1>10, <1>11 DEF Base

LEMMA DiscoverBase ==
  ASSUME NEW p \in Runs, NEW found \in SUBSET Repos, Base, Discover(p, found)
  PROVE  Base'
<1> USE DEF Discover
<1>1. /\ p \notin running /\ running' = running \cup {p}
      /\ UNCHANGED <<bronze, cursor, buffer>>
      /\ loaded' \in [Runs -> Cursor] /\ loaded'[p] = cursor
      /\ \A q \in Runs \ {p} : loaded'[q] = loaded[q]
  BY Loaded
<1>2. events' \in 0..MaxEvents
  BY Constants DEF Base, TypeOK, Happens
<1>3. StoredReadmes(found) \in [Repos -> Tags]
  BY Constants, KeysAssumption DEF StoredReadmes, Base, TypeOK, Rows
<1>4. windowEnd' \in [Runs -> 0..LastDay] /\ \A q \in running' : windowEnd'[q] \in 1..day'
  BY <1>1, Constants DEF Base, TypeOK, githubVars
<1>5. cached' \in [Runs -> [Repos -> Tags]] /\ stubs' \in [Runs -> SUBSET Repos]
  BY <1>3 DEF Base, TypeOK
<1>6. TypeOK'
  BY <1>1, <1>2, <1>4, <1>5 DEF Base, TypeOK, githubVars
<1>7. IdleInv'
  BY <1>1 DEF Base, IdleInv
<1>8. QED
  BY <1>6, <1>7 DEF Base

\* The steps of a fetch after the discovery.
LEMMA FetchBase ==
  ASSUME NEW p \in Runs, Base,
         \/ \E r \in Repos : Hydrate(p, r) \/ HydrationFails(p, r) \/ RepoNotFound(p, r)
         \/ \E l \in Logins, answers \in BOOLEAN : FetchProfile(p, l, answers)
  PROVE  Base'
<1>1. /\ p \in running /\ UNCHANGED <<bronze, cursor, running, loaded>>
      /\ buffer' \in [Runs -> Rows]
      /\ \A q \in Runs \ {p} : buffer'[q] = buffer[q]
  <2>1. ASSUME NEW rows \in Rows, Yield(p, rows)
        PROVE  /\ p \in running /\ UNCHANGED <<bronze, cursor, running, loaded>>
               /\ buffer' \in [Runs -> Rows]
               /\ \A q \in Runs \ {p} : buffer'[q] = buffer[q]
    BY <2>1, Yielded
  <2>2. CASE \E r \in Repos : Hydrate(p, r)
    BY <2>1, <2>2, YieldedRows DEF Hydrate
  <2>3. CASE \E r \in Repos : HydrationFails(p, r)
    BY <2>1, <2>3, YieldedRows DEF HydrationFails
  <2>4. CASE \E r \in Repos : RepoNotFound(p, r)
    BY <2>4 DEF RepoNotFound, runnerVars, Base, TypeOK
  <2>5. CASE \E l \in Logins, answers \in BOOLEAN : FetchProfile(p, l, answers)
    BY <2>1, <2>5, YieldedRows DEF FetchProfile
  <2>6. QED
    BY <2>2, <2>3, <2>4, <2>5
<1>2. UNCHANGED <<githubVars, windowEnd, cached, events, missed, crossed>>
  BY DEF Hydrate, HydrationFails, RepoNotFound, FetchProfile, ghostVars
<1>3. /\ stubs' \in [Runs -> SUBSET Repos] /\ coreLogins' \in [Runs -> SUBSET Logins]
      /\ whole' \in [Runs -> SUBSET Repos]
      /\ readmeTags' \in [Runs -> [Repos -> Tags]] /\ teamTags' \in [Runs -> [Repos -> Tags]]
      /\ \A q \in Runs \ {p} : /\ readmeTags'[q] = readmeTags[q] /\ teamTags'[q] = teamTags[q]
                               /\ whole'[q] = whole[q]
  <2> USE DEF Base, TypeOK
  <2>1. CASE \E r \in Repos : Hydrate(p, r)
    <3> PICK r \in Repos : Hydrate(p, r)
      BY <2>1
    <3>1. readme[r] \in Tags /\ team[r].tag \in Tags /\ NewCore(p, r) \subseteq Logins
      BY DEF Team, NewCore
    <3>2. /\ readmeTags' \in [Runs -> [Repos -> Tags]] /\ stubs' \in [Runs -> SUBSET Repos]
          /\ \A q \in Runs \ {p} : readmeTags'[q] = readmeTags[q]
      BY <3>1 DEF Hydrate
    <3>3. whole' \in [Runs -> SUBSET Repos] /\ \A q \in Runs \ {p} : whole'[q] = whole[q]
      BY DEF Hydrate
    <3>4. /\ teamTags' \in [Runs -> [Repos -> Tags]] /\ coreLogins' \in [Runs -> SUBSET Logins]
          /\ \A q \in Runs \ {p} : teamTags'[q] = teamTags[q]
      <4>1. CASE UNCHANGED <<teamTags, coreLogins>>
        BY <4>1
      <4>2. CASE /\ teamTags' = [teamTags EXCEPT ![p][r] = team[r].tag]
                 /\ coreLogins' = [coreLogins EXCEPT ![p] = @ \cup NewCore(p, r)]
        <5>1. [teamTags[p] EXCEPT ![r] = team[r].tag] \in [Repos -> Tags]
          BY <3>1
        <5>2. coreLogins[p] \cup NewCore(p, r) \in SUBSET Logins
          BY <3>1
        <5>3. QED
          BY <4>2, <5>1, <5>2
      <4>3. QED
        BY <4>1, <4>2 DEF Hydrate
    <3>5. QED
      BY <3>2, <3>3, <3>4
  <2>2. CASE \E r \in Repos : HydrationFails(p, r) \/ RepoNotFound(p, r)
    <3>1. stubs' \in [Runs -> SUBSET Repos]
      <4> PICK r \in Repos : HydrationFails(p, r) \/ RepoNotFound(p, r)
        BY <2>2
      <4>1. stubs' = [stubs EXCEPT ![p] = @ \ {r}]
        BY DEF HydrationFails, RepoNotFound
      <4>2. QED
        BY <4>1
    <3>2. UNCHANGED <<coreLogins, whole, readmeTags, teamTags>>
      BY <2>2 DEF HydrationFails, RepoNotFound, ghostVars
    <3>3. QED
      BY <3>1, <3>2
  <2>3. CASE \E l \in Logins, answers \in BOOLEAN : FetchProfile(p, l, answers)
    BY <2>3 DEF FetchProfile, ghostVars
  <2>4. QED
    BY <2>1, <2>2, <2>3
<1>4. TypeOK'
  BY <1>1, <1>2, <1>3 DEF Base, TypeOK, githubVars
<1>5. IdleInv'
  BY <1>1, <1>3 DEF Base, IdleInv
<1>6. QED
  BY <1>4, <1>5 DEF Base

LEMMA FlushBase ==
  ASSUME NEW p \in Runs, NEW t, Base, FlushTable(p, t)
  PROVE  Base'
<1>1. /\ p \in running /\ UNCHANGED <<cursor, running, loaded>>
      /\ bronze' \in Rows /\ buffer' \in [Runs -> Rows]
      /\ \A q \in Runs \ {p} : buffer'[q] = buffer[q]
  BY Flushed DEF FlushTable
<1>2. crossed' \subseteq Repos
  BY DEF FlushTable, Base, TypeOK
<1>3. TypeOK'
  BY <1>1, <1>2 DEF FlushTable, Base, TypeOK, githubVars, memoryVars
<1>4. IdleInv'
  BY <1>1 DEF FlushTable, Base, IdleInv, memoryVars
<1>5. QED
  BY <1>3, <1>4 DEF Base

\* A run that is over has forgotten everything.
LEMMA Forgotten ==
  ASSUME NEW p \in Runs, Base, Leave(p), ForgetRun(p), cursor' \in Cursor,
         missed' \subseteq Repos, UNCHANGED <<githubVars, events, crossed>>
  PROVE  Base' /\ \A q \in Runs \ {p} : /\ readmeTags'[q] = readmeTags[q]
                                        /\ teamTags'[q] = teamTags[q] /\ whole'[q] = whole[q]
                                        /\ windowEnd'[q] = windowEnd[q]
                                        /\ coreLogins'[q] = coreLogins[q]
                                        /\ cached'[q] = cached[q]
<1>1. /\ p \in running /\ running' = running \ {p} /\ bronze' = bronze
      /\ loaded' \in [Runs -> Cursor] /\ buffer' \in [Runs -> Rows]
      /\ loaded'[p] = NoGithubCursor /\ buffer'[p] = EmptyBuffer
      /\ \A q \in Runs \ {p} : loaded'[q] = loaded[q] /\ buffer'[q] = buffer[q]
  BY Left
<1>2. /\ windowEnd' \in [Runs -> 0..LastDay] /\ stubs' \in [Runs -> SUBSET Repos]
      /\ cached' \in [Runs -> [Repos -> Tags]] /\ readmeTags' \in [Runs -> [Repos -> Tags]]
      /\ teamTags' \in [Runs -> [Repos -> Tags]] /\ coreLogins' \in [Runs -> SUBSET Logins]
      /\ whole' \in [Runs -> SUBSET Repos]
  BY Constants DEF ForgetRun, Base, TypeOK
<1>3. readmeTags'[p] = NoTags /\ teamTags'[p] = NoTags /\ whole'[p] = {}
  BY DEF ForgetRun, Base, TypeOK
<1>4. \A q \in Runs \ {p} : /\ readmeTags'[q] = readmeTags[q]
                            /\ teamTags'[q] = teamTags[q] /\ whole'[q] = whole[q]
                            /\ windowEnd'[q] = windowEnd[q]
                            /\ coreLogins'[q] = coreLogins[q]
                            /\ cached'[q] = cached[q]
  BY DEF ForgetRun, Base, TypeOK
<1>5. \A q \in running' : windowEnd'[q] \in 1..day'
  BY <1>1, <1>4 DEF Base, TypeOK, githubVars
<1>6. TypeOK'
  BY <1>1, <1>2, <1>5 DEF Base, TypeOK, githubVars
<1>7. IdleInv'
  BY <1>1, <1>3, <1>4 DEF Base, IdleInv
<1>8. QED
  BY <1>4, <1>6, <1>7 DEF Base

LEMMA SavedCursor ==
  ASSUME NEW p \in Runs, Base, SaveCursor(p)
  PROVE  cursor' \in Cursor
<1>1. p \in running
  BY DEF SaveCursor, Save, Leave
<1>2. windowEnd[p] - 1 \in 0..LastDay
  BY <1>1, Constants DEF Base, TypeOK
<1>3. QED
  BY <1>2 DEF SaveCursor, Save, Watermark, Cursor, Base, TypeOK

LEMMA OverBase ==
  ASSUME NEW p \in Runs, Base, SaveCursor(p) \/ GiveUp(p)
  PROVE  Base'
<1>1. CASE SaveCursor(p)
  BY <1>1, Forgotten, SavedCursor DEF SaveCursor, Save, Base, TypeOK
<1>2. CASE GiveUp(p)
  <2>1. cursor' \in Cursor /\ Leave(p)
    BY <1>2 DEF GiveUp, RunFails, RunCrashes, Base, TypeOK
  <2>2. QED
    BY <1>2, <2>1, Forgotten DEF GiveUp, Base, TypeOK
<1>3. QED
  BY <1>1, <1>2

LEMMA BaseStep == Base /\ [Next]_vars => Base'
<1> SUFFICES ASSUME Base, [Next]_vars PROVE Base'
  OBVIOUS
<1>1. CASE World
  BY <1>1, WorldBase
<1>2. CASE \E p \in Runs : Fetch(p)
  BY <1>2, DiscoverBase, FetchBase DEF Fetch
<1>3. CASE \E p \in Runs : Finish(p)
  BY <1>3, FlushBase, OverBase DEF Finish
<1>4. CASE UNCHANGED vars
  BY <1>4 DEF Base, TypeOK, IdleInv, vars, runnerVars, githubVars, memoryVars, ghostVars
<1>5. QED
  BY <1>1, <1>2, <1>3, <1>4 DEF Next

\* The state has its shape in every behaviour: what base.py, state.py and
\* GithubScraper.__init__ declare, whatever the scales of the environment.
THEOREM TypeCorrect == Spec => []TypeOK
<1>1. Spec => []Base
  BY BaseInit, BaseStep, PTL DEF Spec
<1>2. Base => TypeOK
  BY DEF Base
<1>3. QED
  BY <1>1, <1>2, PTL

(***************************************************************************)
(* What the watermark and the ETags promise is a row that is there, under  *)
(* its key, in bronze or still in the buffer of a run under way.           *)
(***************************************************************************)

Has(p, k) == bronze[k] # NoRow \/ buffer[p][k] # NoRow

\* A run that ends changes nothing of what the others keep.
LEMMA Over ==
  ASSUME NEW p \in Runs, Base, SaveCursor(p) \/ GiveUp(p)
  PROVE  /\ p \in running /\ running' = running \ {p} /\ bronze' = bronze
         /\ UNCHANGED <<githubVars, events, crossed>>
         /\ \A q \in Runs \ {p} :
              /\ loaded'[q] = loaded[q] /\ buffer'[q] = buffer[q]
              /\ readmeTags'[q] = readmeTags[q] /\ teamTags'[q] = teamTags[q]
              /\ whole'[q] = whole[q] /\ windowEnd'[q] = windowEnd[q]
              /\ coreLogins'[q] = coreLogins[q] /\ cached'[q] = cached[q]
<1>1. Leave(p) /\ ForgetRun(p) /\ UNCHANGED <<githubVars, events, crossed>>
  BY DEF SaveCursor, Save, GiveUp, RunFails, RunCrashes
<1>2. /\ p \in running /\ running' = running \ {p} /\ bronze' = bronze
      /\ \A q \in Runs \ {p} : loaded'[q] = loaded[q] /\ buffer'[q] = buffer[q]
  BY <1>1, Left
<1>3. \A q \in Runs \ {p} :
        /\ readmeTags'[q] = readmeTags[q] /\ teamTags'[q] = teamTags[q]
        /\ whole'[q] = whole[q] /\ windowEnd'[q] = windowEnd[q]
        /\ coreLogins'[q] = coreLogins[q] /\ cached'[q] = cached[q]
  BY <1>1 DEF ForgetRun, Base, TypeOK
<1>4. QED
  BY <1>1, <1>2, <1>3

\* A step of a fetch loses no row.
LEMMA FetchKeeps ==
  ASSUME NEW p \in Runs, Base,
         \/ \E r \in Repos : Hydrate(p, r) \/ HydrationFails(p, r) \/ RepoNotFound(p, r)
         \/ \E l \in Logins, answers \in BOOLEAN : FetchProfile(p, l, answers)
  PROVE  /\ p \in running /\ UNCHANGED <<bronze, cursor, running, loaded, githubVars>>
         /\ UNCHANGED <<windowEnd, cached, missed, crossed>>
         /\ \A q \in Runs, k \in Keys : Has(q, k) => Has(q, k)'
<1>1. /\ p \in running /\ UNCHANGED <<bronze, cursor, running, loaded>>
      /\ \A q \in Runs, k \in Keys : buffer[q][k] # NoRow => buffer'[q][k] # NoRow
  <2>1. ASSUME NEW rows \in Rows, Yield(p, rows)
        PROVE  /\ p \in running /\ UNCHANGED <<bronze, cursor, running, loaded>>
               /\ \A q \in Runs, k \in Keys : buffer[q][k] # NoRow => buffer'[q][k] # NoRow
    BY <2>1, Yielded
  <2>2. CASE \E r \in Repos : Hydrate(p, r)
    BY <2>1, <2>2, YieldedRows DEF Hydrate
  <2>3. CASE \E r \in Repos : HydrationFails(p, r)
    BY <2>1, <2>3, YieldedRows DEF HydrationFails
  <2>4. CASE \E r \in Repos : RepoNotFound(p, r)
    BY <2>4 DEF RepoNotFound, runnerVars
  <2>5. CASE \E l \in Logins, answers \in BOOLEAN : FetchProfile(p, l, answers)
    BY <2>1, <2>5, YieldedRows DEF FetchProfile
  <2>6. QED
    BY <2>2, <2>3, <2>4, <2>5
<1>2. UNCHANGED <<githubVars, windowEnd, cached, missed, crossed>>
  BY DEF Hydrate, HydrationFails, RepoNotFound, FetchProfile, ghostVars
<1>3. QED
  BY <1>1, <1>2 DEF Has

\* Nor does a flush, and what is in bronze stays there.
LEMMA FlushKeeps ==
  ASSUME NEW p \in Runs, NEW t, Base, FlushTable(p, t)
  PROVE  /\ p \in running /\ UNCHANGED <<cursor, running, loaded, githubVars>>
         /\ UNCHANGED <<memoryVars, whole, missed>>
         /\ \A k \in Keys : bronze[k] # NoRow => bronze'[k] # NoRow
         /\ \A q \in Runs, k \in Keys : Has(q, k) => Has(q, k)'
<1>1. /\ p \in running /\ UNCHANGED <<cursor, running, loaded>>
      /\ \A q \in Runs \ {p} : buffer'[q] = buffer[q]
      /\ \A k \in Keys :
           \/ /\ TableOf[k] = t /\ buffer[p][k] # NoRow
              /\ bronze'[k] = buffer[p][k] /\ buffer'[p][k] = NoRow
           \/ bronze'[k] = bronze[k] /\ buffer'[p][k] = buffer[p][k]
  BY Flushed DEF FlushTable
<1>2. \A k \in Keys : bronze[k] # NoRow => bronze'[k] # NoRow
  BY <1>1
<1>3. ASSUME NEW q \in Runs, NEW k \in Keys, Has(q, k) PROVE Has(q, k)'
  BY <1>1, <1>2, <1>3 DEF Has
<1>4. QED
  BY <1>1, <1>2, <1>3 DEF FlushTable

(***************************************************************************)
(* The watermark.  A commit may be pushed a day after the day it carries,  *)
(* never later: the overlap of COMMIT_OVERLAP_DAYS is worth one day.       *)
(*                                                                         *)
(* HonestFor(since) is what a watermark promises.  It holds of the saved   *)
(* cursor and of the one every run under way started from, because that    *)
(* one is put back when the run fails; and what the run will promise when  *)
(* it saves holds already, of bronze and its buffer.                       *)
(***************************************************************************)

HonestFor(since) ==
  \A r \in Repos \ missed : \A d \in history[r] :
    d < since => bronze[CommitKey(r, d)] # NoRow

Covered(p) ==
  \A r \in whole[p] \ missed : \A d \in history[r] :
    d < windowEnd[p] - 1 => Has(p, CommitKey(r, d))

WaterInv ==
  /\ cursor.since < day /\ HonestFor(cursor.since)
  /\ \A p \in running : /\ loaded[p].since < day /\ HonestFor(loaded[p].since)
                        /\ Covered(p)

\* Days and watermarks are numbers, commits have their keys.
LEMMA Numbers ==
  ASSUME Base
  PROVE  /\ day \in Nat /\ cursor.since \in Nat
         /\ \A p \in Runs : loaded[p].since \in Nat /\ windowEnd[p] \in Nat
         /\ \A p \in running : p \in Runs /\ windowEnd[p] <= day /\ windowEnd[p] >= 1
         /\ \A r \in Repos : \A d \in history[r] : d \in Nat /\ CommitKey(r, d) \in Keys
         /\ \A p \in Runs : whole[p] \subseteq Repos
<1>1. Days \subseteq Nat
  BY DEF Days
<1>2. /\ day \in 1..LastDay /\ cursor.since \in 0..LastDay
      /\ \A p \in Runs : loaded[p].since \in 0..LastDay /\ windowEnd[p] \in 0..LastDay
      /\ \A p \in running : p \in Runs /\ windowEnd[p] \in 1..day
  BY DEF Base, TypeOK, Cursor
<1>3. \A r \in Repos : history[r] \subseteq Days
  BY DEF Base, TypeOK
<1>4. \A p \in Runs : whole[p] \subseteq Repos
  BY DEF Base, TypeOK
<1>5. /\ day \in Nat /\ cursor.since \in Nat
      /\ \A p \in Runs : loaded[p].since \in Nat /\ windowEnd[p] \in Nat
  BY <1>2, Constants
<1>6. ASSUME NEW p \in running
      PROVE  p \in Runs /\ windowEnd[p] <= day /\ windowEnd[p] >= 1
  <2>1. p \in Runs /\ windowEnd[p] \in 1..day
    BY <1>2
  <2>2. QED
    BY <1>5, <2>1
<1>7. \A r \in Repos : \A d \in history[r] : d \in Nat /\ CommitKey(r, d) \in Keys
  BY <1>1, <1>3, KeysAssumption
<1>8. QED
  BY <1>4, <1>5, <1>6, <1>7

\* A step that only adds rows breaks no promise.
LEMMA WaterKept ==
  ASSUME WaterInv, Base, UNCHANGED <<history, missed, day, running, cursor, loaded, windowEnd, whole>>,
         \A k \in Keys : bronze[k] # NoRow => bronze'[k] # NoRow,
         \A q \in Runs, k \in Keys : Has(q, k) => Has(q, k)'
  PROVE  WaterInv'
<1>1. ASSUME NEW since, HonestFor(since) PROVE \A r \in Repos \ missed' : \A d \in history'[r] :
        d < since => bronze'[CommitKey(r, d)] # NoRow
  BY <1>1, Numbers DEF HonestFor
<1>2. HonestFor(cursor.since)' /\ \A p \in running' : HonestFor(loaded[p].since)'
  BY <1>1 DEF WaterInv, HonestFor
<1>3. ASSUME NEW p \in running PROVE Covered(p)'
  BY Numbers DEF WaterInv, Covered
<1>4. QED
  BY <1>2, <1>3 DEF WaterInv

\* A push is too young for any watermark.
LEMMA WaterPush ==
  ASSUME PushLag <= 1, WaterInv, Base, NEW r \in Repos, NEW d \in Days, Push(r, d)
  PROVE  WaterInv'
<1>1. d \in Nat /\ day \in Nat /\ PushLag \in Nat /\ day <= d + PushLag
  BY Constants, Numbers DEF Push, Days
<1>2. day - 1 <= d
  BY <1>1
<1>3. UNCHANGED <<missed, day, running, cursor, loaded, windowEnd, whole, bronze, buffer>>
  BY DEF Push, runnerVars, memoryVars, ghostVars
<1>4. \A q \in Repos : \A e : e \in history'[q] => e \in history[q] \/ e = d
  BY DEF Push, Base, TypeOK
<1>5. ASSUME NEW since \in Nat, since < day, HonestFor(since)
      PROVE  \A q \in Repos \ missed' : \A e \in history'[q] :
               e < since => bronze'[CommitKey(q, e)] # NoRow
  <2>1. ~ (d < since)
    BY <1>1, <1>2, <1>5
  <2>2. QED
    BY <1>3, <1>4, <1>5, <2>1 DEF HonestFor
<1>6. HonestFor(cursor.since)' /\ \A p \in running' : HonestFor(loaded[p].since)'
  BY <1>3, <1>5, Numbers DEF WaterInv, HonestFor
<1>7. ASSUME NEW p \in running PROVE Covered(p)'
  <2>1. ~ (d < windowEnd[p] - 1)
    BY <1>1, <1>2, Numbers
  <2>2. whole[p] \subseteq Repos
    BY Numbers
  <2>3. QED
    BY <1>3, <1>4, <2>1, <2>2 DEF WaterInv, Covered, Has
<1>8. QED
  BY <1>3, <1>6, <1>7 DEF WaterInv

LEMMA WaterNextDay ==
  ASSUME WaterInv, Base, NextDay
  PROVE  WaterInv'
<1>1. UNCHANGED <<history, missed, running, cursor, loaded, windowEnd, whole, bronze, buffer>>
      /\ day' = day + 1
  BY DEF NextDay, runnerVars, memoryVars, ghostVars
<1>2. cursor'.since < day' /\ \A p \in running' : loaded'[p].since < day'
  BY <1>1, Numbers DEF WaterInv
<1>3. HonestFor(cursor.since)' /\ \A p \in running' : HonestFor(loaded[p].since)' /\ Covered(p)'
  BY <1>1 DEF WaterInv, HonestFor, Covered, Has
<1>4. QED
  BY <1>2, <1>3 DEF WaterInv

LEMMA WaterDiscover ==
  ASSUME WaterInv, Base, NEW p \in Runs, NEW found \in SUBSET Repos, Discover(p, found)
  PROVE  WaterInv'
<1>1. /\ p \notin running /\ running' = running \cup {p}
      /\ UNCHANGED <<bronze, cursor, buffer>>
      /\ loaded'[p] = cursor
      /\ \A q \in Runs \ {p} : loaded'[q] = loaded[q]
  BY Loaded DEF Discover
<1>2. UNCHANGED <<history, day, missed, whole>> /\ \A q \in Runs \ {p} : windowEnd'[q] = windowEnd[q]
  BY DEF Discover, githubVars, Base, TypeOK
<1>3. HonestFor(cursor.since)' /\ cursor'.since < day'
  BY <1>1, <1>2 DEF WaterInv, HonestFor
<1>4. loaded'[p].since < day' /\ HonestFor(loaded[p].since)' /\ Covered(p)'
  <2>1. whole'[p] = {}
    BY <1>1, <1>2 DEF Base, IdleInv
  <2>2. QED
    BY <1>1, <1>3, <2>1 DEF HonestFor, Covered
<1>5. ASSUME NEW q \in running, q # p
      PROVE  loaded'[q].since < day' /\ HonestFor(loaded[q].since)' /\ Covered(q)'
  <2>1. q \in Runs \ {p}
    BY <1>5, Numbers
  <2>2. loaded'[q] = loaded[q] /\ windowEnd'[q] = windowEnd[q]
    BY <1>1, <1>2, <2>1
  <2>3. QED
    BY <1>1, <1>2, <2>2 DEF WaterInv, HonestFor, Covered, Has
<1>6. QED
  BY <1>1, <1>3, <1>4, <1>5 DEF WaterInv

\* The rows of a hydration: the repository and the commits of the page.
LEMMA HydratedRows ==
  ASSUME Base, NEW p \in Runs, NEW r \in Repos, Hydrate(p, r)
  PROVE  /\ buffer'[p][RepoKey(r)] = ReadmeOf(p, r)
         /\ \A d \in Page(Asked(p, r)) : buffer'[p][CommitKey(r, d)] # NoRow
         /\ \A q \in Runs \ {p} : buffer'[q] = buffer[q]
<1>1. RepoRows(p, r) \in Rows /\ ReadmeOf(p, r) \in Tags
  BY YieldedRows
<1>2. /\ \A k \in Keys :
           buffer'[p][k] = IF RepoRows(p, r)[k] # NoRow THEN RepoRows(p, r)[k] ELSE buffer[p][k]
      /\ \A q \in Runs \ {p} : buffer'[q] = buffer[q]
  BY <1>1, Yielded DEF Hydrate
<1>3. NoRow \notin Tags /\ 0 \in Tags /\ RepoKey(r) \in Keys /\ \A d \in Days : CommitKey(r, d) \in Keys
  BY KeysAssumption, Constants
<1>4. RepoRows(p, r)[RepoKey(r)] = ReadmeOf(p, r)
  BY <1>3 DEF RepoRows
<1>5. ASSUME NEW d \in Page(Asked(p, r))
      PROVE  CommitKey(r, d) \in Keys /\ RepoRows(p, r)[CommitKey(r, d)] # NoRow
  <2>1. CommitKey(r, d) \in CommitRows(p, r)
    BY DEF CommitRows
  <2>2. d \in Days
    BY DEF Page, Asked, Base, TypeOK
  <2>3. QED
    BY <1>1, <1>3, <2>1, <2>2 DEF RepoRows
<1>6. QED
  BY <1>1, <1>2, <1>3, <1>4, <1>5

LEMMA WaterHydrate ==
  ASSUME WaterInv, Base, NEW p \in Runs, NEW r \in Repos, Hydrate(p, r)
  PROVE  WaterInv'
<1>1. /\ p \in running /\ UNCHANGED <<bronze, cursor, running, loaded, githubVars>>
      /\ UNCHANGED <<windowEnd, cached, missed, crossed>>
      /\ \A q \in Runs, k \in Keys : Has(q, k) => Has(q, k)'
  BY FetchKeeps
<1>2. UNCHANGED <<history, day>>
  BY <1>1 DEF githubVars
<1>3. HonestFor(cursor.since)' /\ \A q \in running' : HonestFor(loaded[q].since)'
  BY <1>1, <1>2 DEF WaterInv, HonestFor
<1>4. ASSUME NEW q \in running, NEW s \in whole'[q] \ missed, NEW d \in history[s],
             d < windowEnd[q] - 1
      PROVE  Has(q, CommitKey(s, d))'
  <2>1. q \in Runs /\ whole[q] \subseteq Repos
    BY Numbers
  <2>2. CASE s \in whole[q]
    <3>1. Has(q, CommitKey(s, d))
      BY <1>4, <2>2 DEF WaterInv, Covered
    <3>2. CommitKey(s, d) \in Keys
      BY <2>1, <2>2, Numbers
    <3>3. QED
      BY <1>1, <2>1, <3>1, <3>2
  <2>3. CASE s \notin whole[q]
    <3>1. q = p /\ s = r /\ Page(Asked(p, r)) = Asked(p, r)
      BY <2>1, <2>3 DEF Hydrate, Base, TypeOK
    <3>2. CASE d < loaded[p].since
      BY <1>1, <1>4, <3>1, <3>2 DEF WaterInv, HonestFor, Has
    <3>3. CASE ~ (d < loaded[p].since)
      <4>1. d \in Nat /\ loaded[p].since \in Nat
        BY <3>1, Numbers
      <4>2. d \in Asked(p, r)
        BY <3>1, <3>3, <4>1 DEF Asked
      <4>3. QED
        BY <3>1, <4>2, HydratedRows DEF Has
    <3>4. QED
      BY <3>2, <3>3
  <2>4. QED
    BY <2>2, <2>3
<1>5. QED
  BY <1>1, <1>2, <1>3, <1>4 DEF WaterInv, Covered

LEMMA WaterOver ==
  ASSUME WaterInv, Base, NEW p \in Runs, SaveCursor(p) \/ GiveUp(p)
  PROVE  WaterInv'
<1>1. /\ p \in running /\ running' = running \ {p} /\ bronze' = bronze
      /\ UNCHANGED <<history, day>>
      /\ \A q \in Runs \ {p} : /\ loaded'[q] = loaded[q] /\ buffer'[q] = buffer[q]
                               /\ whole'[q] = whole[q] /\ windowEnd'[q] = windowEnd[q]
  BY Over DEF githubVars
<1>2. missed \subseteq missed'
  BY DEF SaveCursor, GiveUp
<1>3. ASSUME NEW q \in running'
      PROVE  loaded'[q].since < day' /\ HonestFor(loaded[q].since)' /\ Covered(q)'
  <2>1. q \in Runs \ {p} /\ q \in running
    BY <1>1, Numbers
  <2>2. QED
    BY <1>1, <1>2, <2>1 DEF WaterInv, HonestFor, Covered, Has
<1>4. cursor'.since < day' /\ HonestFor(cursor.since)'
  <2>1. CASE SaveCursor(p)
    <3>1. cursor'.since = windowEnd[p] - 1 /\ missed' = missed \cup (Repos \ whole[p])
          /\ buffer[p] = EmptyBuffer
      BY <2>1 DEF SaveCursor, Save, Drained, Watermark
    <3>2. windowEnd[p] - 1 < day
      BY <1>1, Numbers
    <3>3. ASSUME NEW r \in Repos \ missed', NEW d \in history[r], d < windowEnd[p] - 1
          PROVE  bronze[CommitKey(r, d)] # NoRow
      <4>1. r \in whole[p] \ missed
        BY <3>1, <3>3
      <4>2. Has(p, CommitKey(r, d))
        BY <1>1, <3>3, <4>1 DEF WaterInv, Covered
      <4>3. buffer[p][CommitKey(r, d)] = NoRow
        BY <3>1, Numbers DEF EmptyBuffer
      <4>4. QED
        BY <4>2, <4>3 DEF Has
    <3>4. QED
      BY <1>1, <3>1, <3>2, <3>3 DEF HonestFor
  <2>2. CASE GiveUp(p)
    <3>1. cursor' = cursor \/ cursor' = loaded[p]
      BY <2>2 DEF GiveUp, RunFails, RunCrashes
    <3>2. QED
      BY <1>1, <1>2, <3>1 DEF WaterInv, HonestFor
  <2>3. QED
    BY <2>1, <2>2
<1>5. QED
  BY <1>3, <1>4 DEF WaterInv

LEMMA WaterStep ==
  ASSUME PushLag <= 1, WaterInv, Base, [Next]_vars
  PROVE  WaterInv'
<1>1. CASE World
  <2>1. CASE NextDay
    BY <2>1, WaterNextDay
  <2>2. CASE \E r \in Repos, d \in Days : Push(r, d)
    BY <2>2, WaterPush
  <2>3. CASE ~ NextDay /\ ~ \E r \in Repos, d \in Days : Push(r, d)
    <3>1. UNCHANGED <<history, day, runnerVars, memoryVars, ghostVars>>
      BY <1>1, <2>3 DEF World, EditReadme, ChangeTeam, DeleteAccount
    <3>2. QED
      BY <3>1, WaterKept DEF runnerVars, memoryVars, ghostVars, Has
  <2>4. QED
    BY <2>1, <2>2, <2>3
<1>2. CASE \E p \in Runs : Fetch(p)
  <2> PICK p \in Runs : Fetch(p)
    BY <1>2
  <2>1. CASE \E found \in SUBSET Repos : Discover(p, found)
    BY <2>1, WaterDiscover
  <2>2. CASE \E r \in Repos : Hydrate(p, r)
    BY <2>2, WaterHydrate
  <2>3. CASE \/ \E r \in Repos : HydrationFails(p, r) \/ RepoNotFound(p, r)
             \/ \E l \in Logins, answers \in BOOLEAN : FetchProfile(p, l, answers)
    <3>1. whole' = whole
      BY <2>3 DEF HydrationFails, RepoNotFound, FetchProfile, ghostVars
    <3>2. UNCHANGED <<bronze, cursor, running, loaded, githubVars, windowEnd, missed>>
          /\ \A q \in Runs, k \in Keys : Has(q, k) => Has(q, k)'
      BY <2>3, FetchKeeps
    <3>3. QED
      BY <3>1, <3>2, WaterKept DEF githubVars
  <2>4. QED
    BY <2>1, <2>2, <2>3 DEF Fetch
<1>3. CASE \E p \in Runs : Finish(p)
  <2> PICK p \in Runs : Finish(p)
    BY <1>3
  <2>1. CASE \E t \in Tables : FlushTable(p, t)
    BY <2>1, FlushKeeps, WaterKept DEF githubVars, memoryVars
  <2>2. CASE SaveCursor(p) \/ GiveUp(p)
    BY <2>2, WaterOver
  <2>3. QED
    BY <2>1, <2>2 DEF Finish
<1>4. CASE UNCHANGED vars
  BY <1>4, WaterKept DEF vars, runnerVars, githubVars, memoryVars, ghostVars, Has
<1>5. QED
  BY <1>1, <1>2, <1>3, <1>4 DEF Next

\* The watermark is honest for any number of runs that overlap, fail, crash and
\* put old cursors back, as long as a commit is pushed at most a day late: every
\* commit below it of a repository that all saved runs hydrated whole is in
\* bronze (GithubScraper.next_cursor).
THEOREM WatermarkHonest ==
  ASSUME PushLag <= 1
  PROVE  Spec => []WatermarkIsHonest
<1>1. Init => WaterInv
  BY CursorAssumption DEF Init, RunnerInit, WaterInv, HonestFor, NoGithubCursor
<1>2. Base /\ WaterInv /\ [Next]_vars => (Base /\ WaterInv)'
  BY BaseStep, WaterStep
<1>3. WaterInv => WatermarkIsHonest
  BY DEF WaterInv, HonestFor, WatermarkIsHonest
<1>4. QED
  BY BaseInit, <1>1, <1>2, <1>3, PTL DEF Spec

(***************************************************************************)
(* The core contributors.  A list with the ETag a cursor knows is not read *)
(* again: everyone on it must be in a table, or in the memory of the run   *)
(* that is about to keep the ETag.  No kept ETag is ahead of the list.     *)
(***************************************************************************)

Known(tags, r) == team[r].tag # 0 /\ team[r].tag = tags[r]

Settled(l) == bronze[UserKey(l)] # NoRow \/ bronze[RejectKey(l)] # NoRow

SettledBy(p, l) == Has(p, UserKey(l)) \/ Has(p, RejectKey(l)) \/ l \in coreLogins[p]

CoreHonest(tags) ==
  \A r \in Repos : /\ tags[r] <= team[r].tag
                   /\ Known(tags, r) => \A l \in team[r].core \ gone : Settled(l)

CoreFetched(p) ==
  \A r \in Repos : /\ teamTags[p][r] <= team[r].tag
                   /\ Known(teamTags[p], r) => \A l \in team[r].core \ gone : SettledBy(p, l)

CoreInv ==
  /\ CoreHonest(cursor.teamTags)
  /\ \A p \in running : CoreHonest(loaded[p].teamTags) /\ CoreFetched(p)

\* Lists and their tags.
LEMMA Teams ==
  ASSUME Base
  PROVE  /\ \A r \in Repos : team[r].tag \in Nat /\ team[r].core \subseteq Logins
         /\ \A r \in Repos : cursor.teamTags[r] \in Nat
         /\ \A p \in Runs, r \in Repos : loaded[p].teamTags[r] \in Nat /\ teamTags[p][r] \in Nat
         /\ \A l \in Logins : UserKey(l) \in Keys /\ RejectKey(l) \in Keys
         /\ running \subseteq Runs
<1>1. \A r \in Repos : team[r] \in Team
  BY DEF Base, TypeOK
<1>2. \A r \in Repos : cursor.teamTags[r] \in Tags
  BY DEF Base, TypeOK, Cursor
<1>3. \A p \in Runs, r \in Repos : loaded[p].teamTags[r] \in Tags /\ teamTags[p][r] \in Tags
  BY DEF Base, TypeOK, Cursor
<1>4. \A r \in Repos : team[r].tag \in Tags /\ team[r].core \subseteq Logins
  BY <1>1 DEF Team
<1>5. running \subseteq Runs
  BY DEF Base, TypeOK
<1>6. QED
  BY <1>2, <1>3, <1>4, <1>5, Constants, KeysAssumption

\* A step that adds rows, moves a login from the memory to the tables or loses
\* an account breaks no promise.
LEMMA CoreKept ==
  ASSUME CoreInv, Base, UNCHANGED <<team, running, cursor, loaded, teamTags>>,
         gone \subseteq gone',
         \A k \in Keys : bronze[k] # NoRow => bronze'[k] # NoRow,
         \A q \in Runs, l \in Logins \ gone : SettledBy(q, l) => SettledBy(q, l)'
  PROVE  CoreInv'
<1>1. \A l \in Logins : Settled(l) => Settled(l)'
  BY Teams DEF Settled
<1>2. CoreHonest(cursor.teamTags)'
  BY <1>1, Teams DEF CoreInv, CoreHonest, Known
<1>3. ASSUME NEW p \in running PROVE CoreHonest(loaded[p].teamTags)' /\ CoreFetched(p)'
  <2>1. CoreHonest(loaded[p].teamTags)'
    BY <1>1, Teams DEF CoreInv, CoreHonest, Known
  <2>2. p \in Runs /\ CoreFetched(p)
    BY Teams DEF CoreInv
  <2>3. ASSUME NEW r \in Repos, Known(teamTags[p], r), NEW l \in team[r].core \ gone'
        PROVE  SettledBy(p, l)'
    <3>1. l \in Logins \ gone
      BY Teams
    <3>2. SettledBy(p, l)
      BY <2>2, <2>3, <3>1 DEF CoreFetched
    <3>3. QED
      BY <2>2, <3>1, <3>2
  <2>4. CoreFetched(p)'
    BY <2>2, <2>3 DEF CoreFetched, Known
  <2>5. QED
    BY <2>1, <2>4
<1>4. QED
  BY <1>2, <1>3 DEF CoreInv

\* A changed list has an ETag that nobody has kept.
LEMMA CoreChange ==
  ASSUME CoreInv, Base, NEW r \in Repos, NEW core \in SUBSET Logins, ChangeTeam(r, core)
  PROVE  CoreInv'
<1>1. UNCHANGED <<gone, running, cursor, loaded, teamTags, bronze, buffer, coreLogins>>
  BY DEF ChangeTeam, runnerVars, memoryVars
<1>2. /\ team'[r].tag = team[r].tag + 1
      /\ \A q \in Repos \ {r} : team'[q] = team[q]
  BY DEF ChangeTeam, Base, TypeOK
<1>3. ASSUME NEW tags, \A q \in Repos : tags[q] \in Nat, CoreHonest(tags)
      PROVE  \A q \in Repos :
               /\ tags[q] <= team'[q].tag
               /\ (team'[q].tag # 0 /\ team'[q].tag = tags[q]) =>
                    \A l \in team'[q].core \ gone : Settled(l)
  <2>1. tags[r] <= team'[r].tag /\ team'[r].tag # tags[r]
    BY <1>2, <1>3, Teams DEF CoreHonest
  <2>2. QED
    BY <1>2, <1>3, <2>1 DEF CoreHonest, Known
<1>4. CoreHonest(cursor.teamTags)'
  BY <1>1, <1>3, Teams DEF CoreInv, CoreHonest, Known, Settled
<1>5. ASSUME NEW p \in running PROVE CoreHonest(loaded[p].teamTags)' /\ CoreFetched(p)'
  <2>1. p \in Runs
    BY Teams
  <2>2. CoreHonest(loaded[p].teamTags)'
    BY <1>1, <1>3, <2>1, Teams DEF CoreInv, CoreHonest, Known, Settled
  <2>3. teamTags[p][r] <= team'[r].tag /\ team'[r].tag # teamTags[p][r]
    BY <1>2, <2>1, Teams DEF CoreInv, CoreFetched
  <2>4. CoreFetched(p)'
    BY <1>1, <1>2, <2>3 DEF CoreInv, CoreFetched, Known, SettledBy, Has
  <2>5. QED
    BY <2>2, <2>4
<1>6. QED
  BY <1>1, <1>4, <1>5 DEF CoreInv

LEMMA CoreDiscover ==
  ASSUME CoreInv, Base, NEW p \in Runs, NEW found \in SUBSET Repos, Discover(p, found)
  PROVE  CoreInv'
<1>1. /\ p \notin running /\ running' = running \cup {p}
      /\ UNCHANGED <<bronze, cursor, buffer>>
      /\ loaded'[p] = cursor
      /\ \A q \in Runs \ {p} : loaded'[q] = loaded[q]
  BY Loaded DEF Discover
<1>2. UNCHANGED <<team, gone, teamTags, coreLogins>>
  BY DEF Discover, githubVars
<1>3. CoreHonest(cursor.teamTags)'
  BY <1>1, <1>2 DEF CoreInv, CoreHonest, Known, Settled
<1>4. CoreHonest(loaded[p].teamTags)'
  BY <1>1, <1>3 DEF CoreHonest, Known
<1>5. CoreFetched(p)'
  <2>1. \A r \in Repos : teamTags[p][r] = 0
    BY <1>1 DEF Base, IdleInv, NoTags
  <2>2. QED
    BY <1>2, <2>1, Teams DEF CoreFetched, Known
<1>6. ASSUME NEW q \in running, q # p
      PROVE  CoreHonest(loaded[q].teamTags)' /\ CoreFetched(q)'
  <2>1. loaded'[q] = loaded[q]
    BY <1>1, <1>6, Teams
  <2>2. QED
    BY <1>1, <1>2, <2>1 DEF CoreInv, CoreHonest, CoreFetched, Known, Settled, SettledBy, Has
<1>7. QED
  BY <1>1, <1>3, <1>4, <1>5, <1>6 DEF CoreInv

\* A list that is kept was unchanged, or its core is queued for its profiles.
LEMMA CoreHydrate ==
  ASSUME CoreInv, Base, NEW p \in Runs, NEW r \in Repos, Hydrate(p, r)
  PROVE  CoreInv'
<1>1. /\ p \in running /\ UNCHANGED <<bronze, cursor, running, loaded, githubVars>>
      /\ \A q \in Runs, k \in Keys : Has(q, k) => Has(q, k)'
  BY FetchKeeps
<1>2. UNCHANGED <<team, gone>>
  BY <1>1 DEF githubVars
<1>3. CASE UNCHANGED <<teamTags, coreLogins>>
  <2>1. \A q \in Runs, l \in Logins \ gone : SettledBy(q, l) => SettledBy(q, l)'
    BY <1>1, <1>3, Teams DEF SettledBy
  <2>2. QED
    BY <1>1, <1>2, <1>3, <2>1, CoreKept
<1>4. CASE /\ teamTags' = [teamTags EXCEPT ![p][r] = team[r].tag]
           /\ coreLogins' = [coreLogins EXCEPT ![p] = @ \cup NewCore(p, r)]
  <2>1. /\ teamTags'[p][r] = team[r].tag
        /\ \A q \in Runs, s \in Repos : q # p \/ s # r => teamTags'[q][s] = teamTags[q][s]
        /\ coreLogins'[p] = coreLogins[p] \cup NewCore(p, r)
        /\ \A q \in Runs : coreLogins[q] \subseteq coreLogins'[q]
    BY <1>4 DEF Base, TypeOK
  <2>2. \A q \in Runs, l \in Logins : SettledBy(q, l) => SettledBy(q, l)'
    BY <1>1, <2>1, Teams DEF SettledBy
  <2>3. ASSUME NEW l \in team[r].core \ gone, Known(teamTags'[p], r)
        PROVE  SettledBy(p, l)'
    <3>1. CASE team[r].tag = loaded[p].teamTags[r]
      <4>1. Settled(l)
        BY <1>1, <2>1, <2>3, <3>1 DEF CoreInv, CoreHonest, Known
      <4>2. QED
        BY <1>1, <4>1 DEF Settled, SettledBy, Has
    <3>2. CASE team[r].tag # loaded[p].teamTags[r]
      BY <2>1, <3>2 DEF NewCore, SettledBy
    <3>3. QED
      BY <3>1, <3>2
  <2>4. CoreHonest(cursor.teamTags)' /\ \A q \in running : CoreHonest(loaded[q].teamTags)'
    BY <1>1, <1>2 DEF CoreInv, CoreHonest, Known, Settled
  <2>5. ASSUME NEW q \in running, NEW s \in Repos
        PROVE  /\ teamTags'[q][s] <= team[s].tag
               /\ Known(teamTags'[q], s) => \A l \in team[s].core \ gone : SettledBy(q, l)'
    <3>1. CASE q = p /\ s = r
      BY <2>1, <2>3, <3>1, Teams
    <3>2. CASE q # p \/ s # r
      <4>1. q \in Runs /\ teamTags'[q][s] = teamTags[q][s]
        BY <2>1, <3>2, Teams
      <4>2. teamTags[q][s] <= team[s].tag
            /\ (Known(teamTags[q], s) => \A l \in team[s].core \ gone : SettledBy(q, l))
        BY DEF CoreInv, CoreFetched
      <4>3. QED
        BY <2>2, <4>1, <4>2, Teams DEF Known
    <3>3. QED
      BY <3>1, <3>2
  <2>6. \A q \in running : CoreFetched(q)'
    BY <1>2, <2>5 DEF CoreFetched, Known
  <2>7. QED
    BY <1>1, <2>4, <2>6 DEF CoreInv
<1>5. QED
  BY <1>3, <1>4 DEF Hydrate

\* A login leaves the queue when it is gone, or has its profile or its reject.
LEMMA CoreFetchProfile ==
  ASSUME CoreInv, Base, NEW p \in Runs, NEW l \in Logins, NEW answers \in BOOLEAN,
         FetchProfile(p, l, answers)
  PROVE  CoreInv'
<1>1. /\ p \in running /\ UNCHANGED <<bronze, cursor, running, loaded, githubVars>>
      /\ \A q \in Runs, k \in Keys : Has(q, k) => Has(q, k)'
  BY FetchKeeps
<1>2. /\ UNCHANGED teamTags /\ UNCHANGED <<team, gone>>
      /\ \A q \in Runs : coreLogins[q] \subseteq coreLogins'[q] \cup {l}
      /\ \A q \in Runs \ {p} : coreLogins'[q] = coreLogins[q]
  BY <1>1 DEF FetchProfile, githubVars, Base, TypeOK
<1>3. l \notin gone => SettledBy(p, l)'
  <2> SUFFICES ASSUME l \notin gone PROVE SettledBy(p, l)'
    OBVIOUS
  <2> DEFINE key == IF answers THEN UserKey(l) ELSE RejectKey(l)
  <2>1. key \in Keys /\ (key = UserKey(l) \/ key = RejectKey(l))
    BY Teams
  <2>2. ProfileRows(l, answers)[key] = 0 /\ 0 # NoRow
    BY <2>1, Constants, KeysAssumption DEF ProfileRows
  <2>3. Yield(p, ProfileRows(l, answers)) /\ ProfileRows(l, answers) \in Rows
    BY YieldedRows DEF FetchProfile
  <2>4. buffer'[p][key] # NoRow
    <3> HIDE DEF key
    <3>1. QED
      BY <2>1, <2>2, <2>3, Yielded
  <2>5. QED
    BY <2>1, <2>4 DEF SettledBy, Has
<1>4. ASSUME NEW q \in Runs, NEW m \in Logins \ gone, SettledBy(q, m) PROVE SettledBy(q, m)'
  <2>1. CASE m # l
    BY <1>1, <1>2, <1>4, <2>1, Teams DEF SettledBy
  <2>2. CASE m = l /\ q = p
    BY <1>3, <2>2
  <2>3. CASE q # p
    BY <1>1, <1>2, <1>4, <2>3, Teams DEF SettledBy
  <2>4. QED
    BY <2>1, <2>2, <2>3
<1>5. QED
  BY <1>1, <1>2, <1>4, CoreKept

LEMMA CoreOver ==
  ASSUME CoreInv, Base, NEW p \in Runs, SaveCursor(p) \/ GiveUp(p)
  PROVE  CoreInv'
<1>1. /\ p \in running /\ running' = running \ {p} /\ bronze' = bronze
      /\ UNCHANGED <<team, gone>>
      /\ \A q \in Runs \ {p} : /\ loaded'[q] = loaded[q] /\ buffer'[q] = buffer[q]
                               /\ teamTags'[q] = teamTags[q] /\ coreLogins'[q] = coreLogins[q]
  BY Over DEF githubVars
<1>2. ASSUME NEW q \in running'
      PROVE  CoreHonest(loaded[q].teamTags)' /\ CoreFetched(q)'
  <2>1. q \in Runs \ {p} /\ q \in running
    BY <1>1, Teams
  <2>2. CoreHonest(loaded[q].teamTags)'
    BY <1>1, <2>1 DEF CoreInv, CoreHonest, Known, Settled
  <2>3. CoreFetched(q)'
    BY <1>1, <2>1 DEF CoreInv, CoreFetched, Known, SettledBy, Has
  <2>4. QED
    BY <2>2, <2>3
<1>3. CoreHonest(cursor.teamTags)'
  <2>1. CASE SaveCursor(p)
    <3>1. cursor'.teamTags = teamTags[p] /\ coreLogins[p] = {} /\ buffer[p] = EmptyBuffer
      BY <2>1 DEF SaveCursor, Save, Drained
    <3>2. ASSUME NEW l \in Logins, SettledBy(p, l) PROVE Settled(l)
      BY <3>1, <3>2, Teams DEF SettledBy, Settled, Has, EmptyBuffer
    <3>3. CoreHonest(teamTags[p])
      BY <1>1, <3>2, Teams DEF CoreInv, CoreFetched, CoreHonest
    <3>4. QED
      BY <1>1, <3>1, <3>3 DEF CoreHonest, Known, Settled
  <2>2. CASE GiveUp(p)
    <3>1. cursor' = cursor \/ cursor' = loaded[p]
      BY <2>2 DEF GiveUp, RunFails, RunCrashes
    <3>2. QED
      BY <1>1, <3>1 DEF CoreInv, CoreHonest, Known, Settled
  <2>3. QED
    BY <2>1, <2>2
<1>4. QED
  BY <1>2, <1>3 DEF CoreInv

LEMMA CoreStep ==
  ASSUME CoreInv, Base, [Next]_vars
  PROVE  CoreInv'
<1>1. CASE World
  <2>1. CASE \E r \in Repos, core \in SUBSET Logins : ChangeTeam(r, core)
    BY <2>1, CoreChange
  <2>2. CASE ~ \E r \in Repos, core \in SUBSET Logins : ChangeTeam(r, core)
    <3>1. UNCHANGED <<team, runnerVars, memoryVars>> /\ gone \subseteq gone'
      BY <1>1, <2>2 DEF World, NextDay, Push, EditReadme, DeleteAccount
    <3>2. QED
      BY <3>1, CoreKept DEF runnerVars, memoryVars, SettledBy, Has
  <2>3. QED
    BY <2>1, <2>2
<1>2. CASE \E p \in Runs : Fetch(p)
  <2> PICK p \in Runs : Fetch(p)
    BY <1>2
  <2>1. CASE \E found \in SUBSET Repos : Discover(p, found)
    BY <2>1, CoreDiscover
  <2>2. CASE \E r \in Repos : Hydrate(p, r)
    BY <2>2, CoreHydrate
  <2>3. CASE \E r \in Repos : HydrationFails(p, r) \/ RepoNotFound(p, r)
    <3>1. UNCHANGED <<teamTags, coreLogins>>
      BY <2>3 DEF HydrationFails, RepoNotFound
    <3>2. /\ UNCHANGED <<bronze, cursor, running, loaded, githubVars>>
          /\ \A q \in Runs, k \in Keys : Has(q, k) => Has(q, k)'
      BY <2>3, FetchKeeps
    <3>3. \A q \in Runs, l \in Logins \ gone : SettledBy(q, l) => SettledBy(q, l)'
      BY <3>1, <3>2, Teams DEF SettledBy
    <3>4. QED
      BY <3>1, <3>2, <3>3, CoreKept DEF githubVars
  <2>4. CASE \E l \in Logins, answers \in BOOLEAN : FetchProfile(p, l, answers)
    BY <2>4, CoreFetchProfile
  <2>5. QED
    BY <2>1, <2>2, <2>3, <2>4 DEF Fetch
<1>3. CASE \E p \in Runs : Finish(p)
  <2> PICK p \in Runs : Finish(p)
    BY <1>3
  <2>1. CASE \E t \in Tables : FlushTable(p, t)
    <3>1. /\ UNCHANGED <<cursor, running, loaded, githubVars, memoryVars>>
          /\ \A k \in Keys : bronze[k] # NoRow => bronze'[k] # NoRow
          /\ \A q \in Runs, k \in Keys : Has(q, k) => Has(q, k)'
      BY <2>1, FlushKeeps
    <3>2. \A q \in Runs, l \in Logins \ gone : SettledBy(q, l) => SettledBy(q, l)'
      BY <3>1, Teams DEF SettledBy, memoryVars
    <3>3. QED
      BY <3>1, <3>2, CoreKept DEF githubVars, memoryVars
  <2>2. CASE SaveCursor(p) \/ GiveUp(p)
    BY <2>2, CoreOver
  <2>3. QED
    BY <2>1, <2>2 DEF Finish
<1>4. CASE UNCHANGED vars
  BY <1>4, CoreKept DEF vars, runnerVars, githubVars, memoryVars, SettledBy, Has
<1>5. QED
  BY <1>1, <1>2, <1>3, <1>4 DEF Next

\* Nobody of a core list is lost by the ETag that stops it from being read
\* again, for any number of runs that overlap, fail, crash and put old cursors
\* back (GithubScraper._collect_core).
THEOREM CoreAccounted == Spec => []CoreIsAccountedFor
<1>1. Init => CoreInv
  <2> SUFFICES ASSUME Init PROVE CoreInv
    OBVIOUS
  <2>1. running = {} /\ \A r \in Repos : cursor.teamTags[r] = 0 /\ team[r].tag = 0
    BY CursorAssumption DEF Init, RunnerInit, NoGithubCursor, NoTags
  <2>2. QED
    BY <2>1 DEF CoreInv, CoreHonest, Known
<1>2. Base /\ CoreInv /\ [Next]_vars => (Base /\ CoreInv)'
  BY BaseStep, CoreStep
<1>3. CoreInv => CoreIsAccountedFor
  BY DEF CoreInv, CoreHonest, Known, Settled, CoreIsAccountedFor
<1>4. QED
  BY BaseInit, <1>1, <1>2, <1>3, PTL DEF Spec

(***************************************************************************)
(* The READMEs.  A README with the ETag a cursor knows is not fetched      *)
(* again: bronze must have it, whatever a payload that was recomposed with *)
(* the stored one puts over it.  Repositories whose row was written while  *)
(* runs overlapped are out of the promise.                                 *)
(***************************************************************************)

Current(tags, r) == readme[r] # 0 /\ readme[r] = tags[r]

Stored(tags) ==
  \A r \in Repos : /\ tags[r] <= readme[r]
                   /\ r \notin crossed /\ Current(tags, r) => bronze[RepoKey(r)] = readme[r]

\* What the run has read back, and would put over the row in bronze.
ReadBack(p) ==
  \A r \in Repos \ crossed : Current(loaded[p].readmeTags, r) =>
    /\ cached[p][r] = 0 \/ cached[p][r] = readme[r]
    /\ buffer[p][RepoKey(r)] = NoRow \/ buffer[p][RepoKey(r)] = readme[r]

\* What it will promise when it saves.
Written(p) ==
  \A r \in Repos :
    /\ readmeTags[p][r] <= readme[r]
    /\ r \notin crossed /\ Current(readmeTags[p], r) =>
         \/ buffer[p][RepoKey(r)] = readme[r]
         \/ buffer[p][RepoKey(r)] = NoRow /\ bronze[RepoKey(r)] = readme[r]

ReadmeInv ==
  /\ Stored(cursor.readmeTags)
  /\ \A p \in running : Stored(loaded[p].readmeTags) /\ ReadBack(p) /\ Written(p)

LEMMA Readmes ==
  ASSUME Base
  PROVE  /\ \A r \in Repos : readme[r] \in Nat /\ readme[r] \in Tags
         /\ \A r \in Repos : cursor.readmeTags[r] \in Nat
         /\ \A p \in Runs, r \in Repos : /\ loaded[p].readmeTags[r] \in Nat
                                         /\ readmeTags[p][r] \in Nat
                                         /\ cached[p][r] \in Nat
         /\ running \subseteq Runs
         /\ \A r \in Repos : RepoKey(r) \in Keys /\ TableOf[RepoKey(r)] = "repos"
         /\ NoRow \notin Tags
<1>1. \A r \in Repos : readme[r] \in Tags
  BY DEF Base, TypeOK
<1>2. \A r \in Repos : cursor.readmeTags[r] \in Tags
  BY DEF Base, TypeOK, Cursor
<1>3. \A p \in Runs, r \in Repos : /\ loaded[p].readmeTags[r] \in Tags
                                   /\ readmeTags[p][r] \in Tags /\ cached[p][r] \in Tags
  BY DEF Base, TypeOK, Cursor
<1>4. running \subseteq Runs
  BY DEF Base, TypeOK
<1>5. QED
  BY <1>1, <1>2, <1>3, <1>4, Constants, KeysAssumption

\* The row of a repository is no other row.
LEMMA RepoRowAlone ==
  ASSUME NEW r
  PROVE  /\ \A q : q # r => RepoKey(q) # RepoKey(r)
         /\ \A q, d : CommitKey(q, d) # RepoKey(r)
         /\ \A l : UserKey(l) # RepoKey(r) /\ RejectKey(l) # RepoKey(r)
<1>1. \A q : q # r => RepoKey(q) # RepoKey(r)
  BY DEF RepoKey
<1>2. RepoKey(r)[1] = "repo"
  BY DEF RepoKey
<1>3. \A q, d : CommitKey(q, d)[1] = "commit"
  BY DEF CommitKey
<1>4. \A l : UserKey(l)[1] = "user" /\ RejectKey(l)[1] = "reject"
  BY DEF UserKey, RejectKey
<1>5. QED
  BY <1>1, <1>2, <1>3, <1>4

\* A step that touches no repository row and no memory of READMEs.
LEMMA ReadmeKept ==
  ASSUME ReadmeInv, Base,
         UNCHANGED <<readme, running, cursor, loaded, cached, readmeTags, crossed>>,
         \A r \in Repos : bronze'[RepoKey(r)] = bronze[RepoKey(r)],
         \A q \in Runs, r \in Repos : buffer'[q][RepoKey(r)] = buffer[q][RepoKey(r)]
  PROVE  ReadmeInv'
<1>1. Stored(cursor.readmeTags)'
  BY DEF ReadmeInv, Stored, Current
<1>2. ASSUME NEW p \in running
      PROVE  Stored(loaded[p].readmeTags)' /\ ReadBack(p)' /\ Written(p)'
  <2>1. p \in Runs
    BY Readmes
  <2>2. Stored(loaded[p].readmeTags)'
    BY DEF ReadmeInv, Stored, Current
  <2>3. ReadBack(p)'
    BY <2>1 DEF ReadmeInv, ReadBack, Current
  <2>4. Written(p)'
    BY <2>1 DEF ReadmeInv, Written, Current
  <2>5. QED
    BY <2>2, <2>3, <2>4
<1>3. QED
  BY <1>1, <1>2 DEF ReadmeInv

\* An edited README has an ETag that nobody has kept.
LEMMA ReadmeEdit ==
  ASSUME ReadmeInv, Base, NEW r \in Repos, EditReadme(r)
  PROVE  ReadmeInv'
<1>1. UNCHANGED <<running, cursor, loaded, cached, readmeTags, crossed, bronze, buffer>>
  BY DEF EditReadme, runnerVars, memoryVars, ghostVars
<1>2. /\ readme'[r] = readme[r] + 1
      /\ \A q \in Repos \ {r} : readme'[q] = readme[q]
  BY DEF EditReadme, Base, TypeOK
<1>3. ASSUME NEW n \in Nat, n <= readme[r]
      PROVE  n <= readme'[r] /\ readme'[r] # n
  BY <1>2, <1>3, Readmes
<1>4. cursor.readmeTags[r] <= readme[r] /\ cursor.readmeTags[r] \in Nat
  BY Readmes DEF ReadmeInv, Stored
<1>5. Stored(cursor.readmeTags)'
  BY <1>1, <1>2, <1>3, <1>4 DEF ReadmeInv, Stored, Current
<1>6. ASSUME NEW p \in running
      PROVE  Stored(loaded[p].readmeTags)' /\ ReadBack(p)' /\ Written(p)'
  <2>1. /\ loaded[p].readmeTags[r] <= readme[r] /\ loaded[p].readmeTags[r] \in Nat
        /\ readmeTags[p][r] <= readme[r] /\ readmeTags[p][r] \in Nat
    BY Readmes DEF ReadmeInv, Stored, Written
  <2>2. Stored(loaded[p].readmeTags)'
    BY <1>1, <1>2, <1>3, <2>1 DEF ReadmeInv, Stored, Current
  <2>3. ReadBack(p)'
    BY <1>1, <1>2, <1>3, <2>1 DEF ReadmeInv, ReadBack, Current
  <2>4. Written(p)'
    BY <1>1, <1>2, <1>3, <2>1 DEF ReadmeInv, Written, Current
  <2>5. QED
    BY <2>2, <2>3, <2>4
<1>7. QED
  BY <1>1, <1>5, <1>6 DEF ReadmeInv

\* What a run that starts reads back is what bronze has.
LEMMA ReadmeDiscover ==
  ASSUME ReadmeInv, Base, NEW p \in Runs, NEW found \in SUBSET Repos, Discover(p, found)
  PROVE  ReadmeInv'
<1>1. /\ p \notin running /\ running' = running \cup {p}
      /\ UNCHANGED <<bronze, cursor, buffer>>
      /\ loaded'[p] = cursor
      /\ \A q \in Runs \ {p} : loaded'[q] = loaded[q]
  BY Loaded DEF Discover
<1>2. /\ UNCHANGED <<readme, readmeTags, crossed>>
      /\ cached'[p] = StoredReadmes(found)
      /\ \A q \in Runs \ {p} : cached'[q] = cached[q]
  BY DEF Discover, githubVars, Base, TypeOK
<1>3. Stored(cursor.readmeTags)'
  BY <1>1, <1>2 DEF ReadmeInv, Stored, Current
<1>4. Stored(loaded[p].readmeTags)'
  BY <1>1, <1>3 DEF Stored, Current
<1>5. ReadBack(p)'
  <2>1. \A r \in Repos : buffer[p][RepoKey(r)] = NoRow
    BY <1>1, Readmes DEF Base, IdleInv, EmptyBuffer
  <2>2. \A r \in Repos : StoredReadmes(found)[r] = 0 \/ StoredReadmes(found)[r] = bronze[RepoKey(r)]
    BY DEF StoredReadmes
  <2>3. QED
    BY <1>1, <1>2, <2>1, <2>2 DEF ReadmeInv, Stored, ReadBack, Current
<1>6. Written(p)'
  <2>1. \A r \in Repos : readmeTags[p][r] = 0
    BY <1>1 DEF Base, IdleInv, NoTags
  <2>2. QED
    BY <1>2, <2>1, Readmes DEF Written, Current
<1>7. ASSUME NEW q \in running, q # p
      PROVE  Stored(loaded[q].readmeTags)' /\ ReadBack(q)' /\ Written(q)'
  <2>1. loaded'[q] = loaded[q] /\ cached'[q] = cached[q]
    BY <1>1, <1>2, <1>7, Readmes
  <2>2. QED
    BY <1>1, <1>2, <2>1 DEF ReadmeInv, Stored, ReadBack, Written, Current
<1>8. QED
  BY <1>1, <1>3, <1>4, <1>5, <1>6, <1>7 DEF ReadmeInv

\* The rows of a hydration for the other repositories.
LEMMA HydratedRepoRow ==
  ASSUME Base, NEW p \in Runs, NEW r \in Repos, Hydrate(p, r)
  PROVE  \A q \in Repos \ {r} : buffer'[p][RepoKey(q)] = buffer[p][RepoKey(q)]
<1>1. RepoRows(p, r) \in Rows
  BY YieldedRows
<1>2. \A k \in Keys :
        buffer'[p][k] = IF RepoRows(p, r)[k] # NoRow THEN RepoRows(p, r)[k] ELSE buffer[p][k]
  BY <1>1, Yielded DEF Hydrate
<1>3. ASSUME NEW q \in Repos \ {r} PROVE RepoRows(p, r)[RepoKey(q)] = NoRow
  <2>1. RepoKey(q) # RepoKey(r) /\ RepoKey(q) \in Keys
    BY RepoRowAlone, Readmes
  <2>2. RepoKey(q) \notin CommitRows(p, r)
    BY RepoRowAlone DEF CommitRows
  <2>3. QED
    BY <2>1, <2>2 DEF RepoRows
<1>4. QED
  BY <1>2, <1>3, Readmes

\* The payload has the README of now, fetched or read back.
LEMMA ReadmeHydrate ==
  ASSUME ReadmeInv, Base, NEW p \in Runs, NEW r \in Repos, Hydrate(p, r)
  PROVE  ReadmeInv'
<1>1. /\ p \in running /\ UNCHANGED <<bronze, cursor, running, loaded, githubVars>>
      /\ UNCHANGED <<cached, crossed>>
  BY FetchKeeps
<1>2. UNCHANGED readme
  BY <1>1 DEF githubVars
<1>3. /\ readmeTags'[p][r] = readme[r]
      /\ \A q \in Runs, s \in Repos : q # p \/ s # r => readmeTags'[q][s] = readmeTags[q][s]
  BY DEF Hydrate, Base, TypeOK
<1>4. /\ buffer'[p][RepoKey(r)] = ReadmeOf(p, r)
      /\ \A q \in Runs, s \in Repos :
           q # p \/ s # r => buffer'[q][RepoKey(s)] = buffer[q][RepoKey(s)]
  BY HydratedRows, HydratedRepoRow
<1>5. Stored(cursor.readmeTags)' /\ \A q \in running : Stored(loaded[q].readmeTags)'
  BY <1>1, <1>2 DEF ReadmeInv, Stored, Current
<1>6. r \notin crossed => ReadmeOf(p, r) = readme[r]
  BY <1>1 DEF ReadmeInv, ReadBack, Current, ReadmeOf
<1>7. ASSUME NEW q \in running, NEW s \in Repos
      PROVE  /\ s \notin crossed /\ Current(loaded[q].readmeTags, s) =>
                  /\ cached[q][s] = 0 \/ cached[q][s] = readme[s]
                  /\ buffer'[q][RepoKey(s)] = NoRow \/ buffer'[q][RepoKey(s)] = readme[s]
             /\ readmeTags'[q][s] <= readme[s]
             /\ s \notin crossed /\ Current(readmeTags'[q], s) =>
                  \/ buffer'[q][RepoKey(s)] = readme[s]
                  \/ buffer'[q][RepoKey(s)] = NoRow /\ bronze[RepoKey(s)] = readme[s]
  <2>1. q \in Runs
    BY Readmes
  <2>2. CASE q = p /\ s = r
    BY <1>3, <1>4, <1>6, <2>2, Readmes DEF ReadmeInv, ReadBack
  <2>3. CASE q # p \/ s # r
    <3>1. readmeTags'[q][s] = readmeTags[q][s] /\ buffer'[q][RepoKey(s)] = buffer[q][RepoKey(s)]
      BY <1>3, <1>4, <2>1, <2>3
    <3>2. QED
      BY <3>1 DEF ReadmeInv, ReadBack, Written, Current
  <2>4. QED
    BY <2>2, <2>3
<1>8. \A q \in running : ReadBack(q)' /\ Written(q)'
  BY <1>1, <1>2, <1>7 DEF ReadBack, Written, Current
<1>9. QED
  BY <1>1, <1>5, <1>8 DEF ReadmeInv

\* Rejects and profiles are other rows.
LEMMA ReadmeFetch ==
  ASSUME ReadmeInv, Base, NEW p \in Runs,
         \/ \E r \in Repos : HydrationFails(p, r) \/ RepoNotFound(p, r)
         \/ \E l \in Logins, answers \in BOOLEAN : FetchProfile(p, l, answers)
  PROVE  ReadmeInv'
<1>1. /\ p \in running /\ UNCHANGED <<bronze, cursor, running, loaded, githubVars>>
      /\ UNCHANGED <<cached, crossed>>
  BY FetchKeeps
<1>2. UNCHANGED readmeTags
  BY DEF HydrationFails, RepoNotFound, FetchProfile
<1>3. ASSUME NEW rows \in Rows, Yield(p, rows), \A r \in Repos : rows[RepoKey(r)] = NoRow
      PROVE  \A q \in Runs, r \in Repos : buffer'[q][RepoKey(r)] = buffer[q][RepoKey(r)]
  BY <1>3, Yielded, Readmes
<1>4. \A q \in Runs, r \in Repos : buffer'[q][RepoKey(r)] = buffer[q][RepoKey(r)]
  <2>1. CASE \E r \in Repos : HydrationFails(p, r)
    <3>1. \A x, r \in Repos : RejectRow(x)[RepoKey(r)] = NoRow
      BY RepoRowAlone, Readmes DEF RejectRow
    <3>2. QED
      BY <1>3, <2>1, <3>1, YieldedRows DEF HydrationFails
  <2>2. CASE \E r \in Repos : RepoNotFound(p, r)
    BY <2>2 DEF RepoNotFound, runnerVars
  <2>3. CASE \E l \in Logins, answers \in BOOLEAN : FetchProfile(p, l, answers)
    <3>1. \A l, answers : \A r \in Repos : ProfileRows(l, answers)[RepoKey(r)] = NoRow
      BY RepoRowAlone, Readmes DEF ProfileRows
    <3>2. \A r \in Repos : EmptyBuffer[RepoKey(r)] = NoRow
      BY Readmes DEF EmptyBuffer
    <3>3. PICK l \in Logins, answers \in BOOLEAN : FetchProfile(p, l, answers)
      BY <2>3
    <3>4. CASE l \in gone
      BY <1>3, <3>2, <3>3, <3>4, YieldedRows DEF FetchProfile
    <3>5. CASE l \notin gone
      <4>1. Yield(p, ProfileRows(l, answers))
        BY <3>3, <3>5 DEF FetchProfile
      <4>2. ProfileRows(l, answers) \in Rows
        BY YieldedRows
      <4>3. \A r \in Repos : ProfileRows(l, answers)[RepoKey(r)] = NoRow
        BY <3>1
      <4>4. QED
        BY <1>3, <4>1, <4>2, <4>3
    <3>6. QED
      BY <3>4, <3>5
  <2>4. QED
    BY <2>1, <2>2, <2>3
<1>5. QED
  BY <1>1, <1>2, <1>4, ReadmeKept DEF githubVars

\* A row is written by the only run there is, from the cursor that is saved, or
\* its repository leaves the promise.
LEMMA ReadmeFlush ==
  ASSUME ReadmeInv, Base, NEW p \in Runs, NEW t, FlushTable(p, t)
  PROVE  ReadmeInv'
<1>1. /\ p \in running /\ UNCHANGED <<cursor, running, loaded>>
      /\ \A q \in Runs \ {p} : buffer'[q] = buffer[q]
      /\ \A k \in Keys :
           \/ /\ TableOf[k] = t /\ buffer[p][k] # NoRow
              /\ bronze'[k] = buffer[p][k] /\ buffer'[p][k] = NoRow
           \/ bronze'[k] = bronze[k] /\ buffer'[p][k] = buffer[p][k]
  BY Flushed DEF FlushTable
<1>2. UNCHANGED <<readme, cached, readmeTags>>
  BY DEF FlushTable, githubVars, memoryVars
<1>3. /\ crossed \subseteq crossed'
      /\ \A r \in Repos \ crossed' :
           t = "repos" /\ buffer[p][RepoKey(r)] # NoRow => cursor = loaded[p] /\ running = {p}
  BY DEF FlushTable
<1>4. ASSUME NEW r \in Repos
      PROVE  /\ cursor.readmeTags[r] <= readme[r]
             /\ r \notin crossed' /\ Current(cursor.readmeTags, r) =>
                  bronze'[RepoKey(r)] = readme[r]
             /\ \A q \in running :
                  /\ loaded[q].readmeTags[r] <= readme[r]
                  /\ readmeTags[q][r] <= readme[r]
                  /\ r \notin crossed' /\ Current(loaded[q].readmeTags, r) =>
                       /\ bronze'[RepoKey(r)] = readme[r]
                       /\ cached[q][r] = 0 \/ cached[q][r] = readme[r]
                       /\ \/ buffer'[q][RepoKey(r)] = NoRow
                          \/ buffer'[q][RepoKey(r)] = readme[r]
                  /\ r \notin crossed' /\ Current(readmeTags[q], r) =>
                       \/ buffer'[q][RepoKey(r)] = readme[r]
                       \/ buffer'[q][RepoKey(r)] = NoRow /\ bronze'[RepoKey(r)] = readme[r]
  <2>1. /\ cursor.readmeTags[r] <= readme[r]
        /\ \A q \in running : loaded[q].readmeTags[r] <= readme[r] /\ readmeTags[q][r] <= readme[r]
    BY DEF ReadmeInv, Stored, Written
  <2>2. CASE r \in crossed'
    BY <2>1, <2>2
  <2>3. CASE /\ r \notin crossed'
             /\ bronze'[RepoKey(r)] = bronze[RepoKey(r)]
             /\ buffer'[p][RepoKey(r)] = buffer[p][RepoKey(r)]
    <3>1. \A q \in running : buffer'[q][RepoKey(r)] = buffer[q][RepoKey(r)]
      BY <1>1, <2>3, Readmes
    <3>2. QED
      BY <1>3, <2>1, <2>3, <3>1 DEF ReadmeInv, Stored, ReadBack, Written
  <2>4. CASE /\ r \notin crossed' /\ TableOf[RepoKey(r)] = t
             /\ buffer[p][RepoKey(r)] # NoRow
             /\ bronze'[RepoKey(r)] = buffer[p][RepoKey(r)] /\ buffer'[p][RepoKey(r)] = NoRow
    <3>1. r \notin crossed /\ cursor = loaded[p] /\ running = {p}
      BY <1>3, <2>4, Readmes
    <3>2. Current(loaded[p].readmeTags, r) =>
            bronze'[RepoKey(r)] = readme[r] /\ (cached[p][r] = 0 \/ cached[p][r] = readme[r])
      BY <2>4, <3>1 DEF ReadmeInv, ReadBack
    <3>3. Current(readmeTags[p], r) => bronze'[RepoKey(r)] = readme[r]
      BY <2>4, <3>1 DEF ReadmeInv, Written
    <3>4. QED
      BY <2>1, <2>4, <3>1, <3>2, <3>3
  <2>5. QED
    BY <1>1, <2>2, <2>3, <2>4, Readmes
<1>5. Stored(cursor.readmeTags)'
  BY <1>1, <1>2, <1>4 DEF Stored, Current
<1>6. ASSUME NEW q \in running
      PROVE  Stored(loaded[q].readmeTags)' /\ ReadBack(q)' /\ Written(q)'
  BY <1>1, <1>2, <1>4 DEF Stored, ReadBack, Written, Current
<1>7. QED
  BY <1>1, <1>5, <1>6 DEF ReadmeInv

LEMMA ReadmeOver ==
  ASSUME ReadmeInv, Base, NEW p \in Runs, SaveCursor(p) \/ GiveUp(p)
  PROVE  ReadmeInv'
<1>1. /\ p \in running /\ running' = running \ {p} /\ bronze' = bronze
      /\ UNCHANGED <<readme, crossed>>
      /\ \A q \in Runs \ {p} : /\ loaded'[q] = loaded[q] /\ buffer'[q] = buffer[q]
                               /\ readmeTags'[q] = readmeTags[q] /\ cached'[q] = cached[q]
  BY Over DEF githubVars
<1>2. ASSUME NEW q \in running'
      PROVE  Stored(loaded[q].readmeTags)' /\ ReadBack(q)' /\ Written(q)'
  <2>1. q \in Runs \ {p} /\ q \in running
    BY <1>1, Readmes
  <2>2. Stored(loaded[q].readmeTags)'
    BY <1>1, <2>1 DEF ReadmeInv, Stored, Current
  <2>3. ReadBack(q)'
    BY <1>1, <2>1 DEF ReadmeInv, ReadBack, Current
  <2>4. Written(q)'
    BY <1>1, <2>1 DEF ReadmeInv, Written, Current
  <2>5. QED
    BY <2>2, <2>3, <2>4
<1>3. Stored(cursor.readmeTags)'
  <2>1. CASE SaveCursor(p)
    <3>1. cursor'.readmeTags = readmeTags[p] /\ buffer[p] = EmptyBuffer
      BY <2>1 DEF SaveCursor, Save, Drained
    <3>2. \A r \in Repos : buffer[p][RepoKey(r)] = NoRow /\ readme[r] # NoRow
      BY <3>1, Readmes DEF EmptyBuffer
    <3>3. Stored(readmeTags[p])
      BY <1>1, <3>2 DEF ReadmeInv, Written, Stored
    <3>4. QED
      BY <1>1, <3>1, <3>3 DEF Stored, Current
  <2>2. CASE GiveUp(p)
    <3>1. cursor' = cursor \/ cursor' = loaded[p]
      BY <2>2 DEF GiveUp, RunFails, RunCrashes
    <3>2. QED
      BY <1>1, <3>1 DEF ReadmeInv, Stored, Current
  <2>3. QED
    BY <2>1, <2>2
<1>4. QED
  BY <1>2, <1>3 DEF ReadmeInv

LEMMA ReadmeStep ==
  ASSUME ReadmeInv, Base, [Next]_vars
  PROVE  ReadmeInv'
<1>1. CASE World
  <2>1. CASE \E r \in Repos : EditReadme(r)
    BY <2>1, ReadmeEdit
  <2>2. CASE ~ \E r \in Repos : EditReadme(r)
    <3>1. UNCHANGED <<readme, runnerVars, memoryVars, ghostVars>>
      BY <1>1, <2>2 DEF World, NextDay, Push, ChangeTeam, DeleteAccount
    <3>2. QED
      BY <3>1, ReadmeKept DEF runnerVars, memoryVars, ghostVars
  <2>3. QED
    BY <2>1, <2>2
<1>2. CASE \E p \in Runs : Fetch(p)
  BY <1>2, ReadmeDiscover, ReadmeHydrate, ReadmeFetch DEF Fetch
<1>3. CASE \E p \in Runs : Finish(p)
  BY <1>3, ReadmeFlush, ReadmeOver DEF Finish
<1>4. CASE UNCHANGED vars
  BY <1>4, ReadmeKept DEF vars, runnerVars, githubVars, memoryVars, ghostVars
<1>5. QED
  BY <1>1, <1>2, <1>3, <1>4 DEF Next

\* A README that will be answered with a 304 is the one in bronze, for any
\* number of runs, as long as its row was never written while runs overlapped
\* (GithubScraper._readme).
THEOREM ReadmeCurrent == Spec => []StoredReadmeIsCurrent
<1>1. Init => ReadmeInv
  <2> SUFFICES ASSUME Init PROVE ReadmeInv
    OBVIOUS
  <2>1. running = {} /\ \A r \in Repos : cursor.readmeTags[r] = 0 /\ readme[r] = 0
    BY CursorAssumption DEF Init, RunnerInit, NoGithubCursor, NoTags
  <2>2. QED
    BY <2>1 DEF ReadmeInv, Stored, Current
<1>2. Base /\ ReadmeInv /\ [Next]_vars => (Base /\ ReadmeInv)'
  BY BaseStep, ReadmeStep
<1>3. ReadmeInv => StoredReadmeIsCurrent
  BY DEF ReadmeInv, Stored, Current, StoredReadmeIsCurrent
<1>4. QED
  BY BaseInit, <1>1, <1>2, <1>3, PTL DEF Spec

====
