---- MODULE Resolution ----
(***************************************************************************)
(* Who is who: entity resolution, the analyst's unmerge and the erasure of *)
(* a person, on the tables they share (er/, tools/erase_person.py, and the *)
(* suppression guard of tools/db.py).                                      *)
(*                                                                         *)
(* An identity is a source key: a person as one source knows them.  Every  *)
(* job reads first, plans all of its writes, and then carries them out one *)
(* statement after another; nothing keeps two jobs apart.  A plan is the   *)
(* sequence of the statements still to come.                               *)
(***************************************************************************)
EXTENDS Clusters, Sequences

CONSTANTS
  Guarded,     \* sources whose bronze people table the sink guards
  Showcase,    \* the source whose scraper writes silver records itself
  MaxPerson,   \* bound: persons 1..MaxPerson
  AutoMatches, \* pairs the rules D1-D8 or Splink match, once both are known
  Band,        \* pairs Splink leaves to adjudication
  Resolvers,   \* processes that run `er run`
  Operators,   \* processes that run anything else
  MaxOps,      \* bound: unmerges and erasures
  MaxCrashes   \* bound: jobs that die

ASSUME ResolutionAssumption ==
  /\ Ids \subseteq Nat
  /\ {AutoMatches, Band} \subseteq SUBSET kSubset(2, Ids) /\ AutoMatches \cap Band = {}
  /\ {MaxPerson, MaxOps, MaxCrashes} \subseteq Nat
  /\ Resolvers \cap Operators = {}

Jobs == Resolvers \cup Operators
Persons == 1..MaxPerson
Nobody == 0

Methods == {"auto", "seed_fixture", "human_review"}
Link == [id : Ids, person : Persons, method : Methods, active : BOOLEAN]
Verdicts == {"match", "other"}  \* "no_match" and "unsure" change nothing

VARIABLES
  bronze,      \* identities with a row in the bronze table of their source
  record,      \* silver.person_source_record
  links,       \* silver.person_source_link
  person,      \* silver.person: "none", "active" or "erased"
  fact,        \* silver.contribution: the person of each identity's fact
  verdict,     \* ops.llm_adjudications, "none" when not settled
  suppressed,  \* ops.erasure_suppression
  ops,         \* unmerges and erasures so far
  crashes,     \* jobs that died
  reading,     \* per resolver: the tables it has read so far
  plan,        \* per job: the statements to come
  \* history variables
  alone,       \* jobs nothing else ran beside
  stale,       \* identities whose links a job wrote that had read others
  forgotten    \* identities an erasure that ran alone has erased

tables == <<bronze, record, links, person, fact, verdict, suppressed>>
ghosts == <<alone, stale, forgotten>>
vars == <<tables, ops, crashes, reading, plan, ghosts>>

\* What a fact holds when there is none.
NoFact == MaxPerson + 1

NotReading == [bronze |-> {}, fact |-> [x \in Ids |-> NoFact], record |-> {}, busy |-> FALSE]

Init ==
  /\ bronze = {} /\ record = {} /\ links = {}
  /\ person = [p \in Persons |-> "none"]
  /\ fact = [x \in Ids |-> Nobody]
  /\ verdict = [b \in Band |-> "none"]
  /\ suppressed = {}
  /\ ops = 0 /\ crashes = 0
  /\ reading = [e \in Resolvers |-> NotReading]
  /\ plan = [j \in Jobs |-> <<>>]
  /\ alone = {} /\ stale = {} /\ forgotten = {}

----
(* Jobs *)

Busy(j) == plan[j] # <<>> \/ (j \in Resolvers /\ reading[j].busy)
Others(j) == {i \in Jobs \ {j} : Busy(i)}

\* A job sets out, and ends the solitude of those under way.
SetOut(j) ==
  /\ ~Busy(j)
  /\ alone' = IF Others(j) = {} THEN {j} ELSE {}
  /\ UNCHANGED <<tables, crashes, stale, forgotten>>

\* The next statement of a job.
Next1(j, op) == plan[j] # <<>> /\ Head(plan[j]).op = op
Rows(j) == Head(plan[j]).rows

Advance(j) ==
  /\ plan[j] # <<>>
  /\ plan' = [plan EXCEPT ![j] = Tail(@)]
  /\ UNCHANGED <<ops, crashes, reading, alone>>

----
(* Links *)

ActiveLinks(x) == {l \in links : l.id = x /\ l.active}

SameKey(l, k) == l.id = k.id /\ l.person = k.person /\ l.method = k.method

\* Mutant: rows are inserted without looking for their key.
InsertLinks(rows) == links \cup rows

\* MERGE on link_id, which is made of person, identity and method.
MergeLinks(rows) == {l \in links : ~\E k \in rows : SameKey(l, k)} \cup rows

NewLink(x, p, m) == [id |-> x, person |-> p, method |-> m, active |-> TRUE]

----
(* Entity resolution: what a run makes of the rows it has read.  A run is a *)
(* record of them: the identities in view, who is linked to whom, the pairs *)
(* to take as matches.                                                      *)

ClustersOf(run) ==
  {Kept(c) : c \in Components({e \in run.matches : ~(e \subseteq DOMAIN run.linked)})}

LinkedOf(run, cluster) == cluster \cap DOMAIN run.linked

\* Clusters nobody of which is linked, and identities no cluster has, get a
\* person of their own.
Strangers(run) ==
  run.views \ (DOMAIN run.linked \cup UNION ClustersOf(run))

NewGroups(run) ==
  {c \in ClustersOf(run) : LinkedOf(run, c) = {}} \cup {{x} : x \in Strangers(run)}

\* Persons no table and no plan knows: a random id is new.
Unused ==
  {p \in Persons :
     /\ person[p] = "none"
     /\ ~\E l \in links : l.person = p
     /\ ~\E j \in Jobs : \E n \in DOMAIN plan[j] :
          \/ plan[j][n].op = "persons" /\ p \in plan[j][n].rows
          \/ plan[j][n].op = "links" /\ \E l \in plan[j][n].rows : l.person = p}

\* One person of a set of them, as a set.
OneOf(unused) == {p \in unused : p = Min(unused)}

\* A new person for each new group.  Which of the unused ones does not matter:
\* groups take them in order.  (There is none when persons run out, a bound.)
Allocations(run) ==
  {fresh \in [NewGroups(run) -> Unused] :
     /\ \A g, h \in NewGroups(run) : Min(g) < Min(h) => fresh[g] < fresh[h]
     /\ \A g \in NewGroups(run), p \in Unused :
          p < fresh[g] => \E h \in NewGroups(run) : fresh[h] = p}

PersonOfCluster(run, fresh, c) ==
  IF LinkedOf(run, c) = {} THEN fresh[c] ELSE run.linked[Min(LinkedOf(run, c))]

\* Mutant: members that are linked are linked again.
ClusterLinksToAll(run, fresh) ==
  UNION {{NewLink(x, PersonOfCluster(run, fresh, c), "auto") : x \in c} : c \in ClustersOf(run)}

ClusterLinks(run, fresh) ==
  UNION {{NewLink(x, PersonOfCluster(run, fresh, c), "auto") : x \in c \ DOMAIN run.linked}
           : c \in ClustersOf(run)}

\* Mutant: an identity nothing matches waits for a match.
NoMints(run, fresh) == {}

Mints(run, fresh) == {NewLink(x, fresh[{x}], "seed_fixture") : x \in Strangers(run)}

NewLinks(run, fresh) == ClusterLinks(run, fresh) \cup Mints(run, fresh)

\* person_of at the end of the run.
PersonOf(run, fresh) ==
  [x \in DOMAIN run.linked \cup {l.id : l \in NewLinks(run, fresh)} |->
     IF x \in DOMAIN run.linked THEN run.linked[x]
     ELSE (CHOOSE l \in NewLinks(run, fresh) : l.id = x).person]

\* Golden persons are rebuilt from every identity in view.
PersonRows(run, person_of) == {person_of[x] : x \in run.views \cap DOMAIN person_of}

\* Facts whose person changes.
FactRows(run, person_of) ==
  {<<x, person_of[x]>> :
     x \in {y \in DOMAIN person_of : run.fact[y] \notin {NoFact, person_of[y]}}}

Statement(op, rows) == IF rows = {} THEN <<>> ELSE <<[op |-> op, rows |-> rows]>>

\* With the rows, for the history, the active links their identities had.
LinkStatement(rows) ==
  IF rows = {} THEN <<>>
  ELSE <<[op |-> "links", rows |-> rows, seen |-> UNION {ActiveLinks(l.id) : l \in rows}]>>

\* Mutant: links before the persons they lead to.
LinksFirst(run, fresh, answers) ==
  LinkStatement(NewLinks(run, fresh))
    \o Statement("verdicts", answers)
    \o Statement("facts", FactRows(run, PersonOf(run, fresh)))
    \o Statement("persons", PersonRows(run, PersonOf(run, fresh)))
    \o Statement("records", run.records)

\* Tables are written in the order of their names (sink_all).
ResolutionPlan(run, fresh, answers) ==
  Statement("verdicts", answers)
    \o Statement("facts", FactRows(run, PersonOf(run, fresh)))
    \o Statement("persons", PersonRows(run, PersonOf(run, fresh)))
    \o LinkStatement(NewLinks(run, fresh))
    \o Statement("records", run.records)

BeginReading(e) ==
  /\ ~Busy(e)
  /\ reading' = [reading EXCEPT ![e] =
       [bronze |-> bronze, fact |-> fact, record |-> record, busy |-> TRUE]]

EndReading(e) ==
  /\ reading[e].busy
  /\ reading' = [reading EXCEPT ![e] = NotReading]
  /\ UNCHANGED crashes

\* A run reads bronze, facts and records first ...
StartResolving(e) == SetOut(e) /\ BeginReading(e) /\ UNCHANGED <<ops, plan>>

\* The pairs a run asks the model about: in the band, not settled, not both
\* linked, and not joined by the rules already.
Asked(views, linkedIds) ==
  {b \in Band : /\ verdict[b] = "none"
                /\ b \subseteq views
                /\ ~(b \subseteq linkedIds)
                /\ ~\E c \in Components({e \in AutoMatches : e \subseteq views}) : b \subseteq c}

\* Every reading of the active links as a map from identity to person: of two
\* of an identity one is taken.
LinkMaps ==
  LET linkedIds == {l.id : l \in {k \in links : k.active}}
  IN  {f \in [linkedIds -> {l.person : l \in links}] :
         \A x \in linkedIds : \E l \in ActiveLinks(x) : l.person = f[x]}

\* Bronze normalised, without what has been suppressed by now (apply_suppression).
Normalized(e) == reading[e].bronze \ suppressed

\* The identities in view: the records with the fresh ones over them.
Views(e) == reading[e].record \cup Normalized(e)

RunOf(e, linked, matched) ==
  [views |-> Views(e), linked |-> linked, fact |-> reading[e].fact,
   records |-> Normalized(e),
   matches |-> {m \in AutoMatches : m \subseteq Views(e)} \cup matched]

Answers(asked, matched) == {<<b, IF b \in matched THEN "match" ELSE "other">> : b \in asked}

\* ... and then links, verdicts and suppressions: the rest is computed in memory.
Resolve(e) ==
  /\ EndReading(e)
  /\ \E linked \in LinkMaps :
       LET asked == Asked(Views(e), DOMAIN linked)
       IN  \E matched \in SUBSET asked :
             LET run == RunOf(e, linked, matched)
             IN  \E fresh \in Allocations(run) :
                   plan' = [plan EXCEPT ![e] =
                              ResolutionPlan(run, fresh, Answers(asked, matched))]
  /\ UNCHANGED <<tables, ops, ghosts>>

----
(* What operators run. *)

\* A scrape of the source: people to bronze, behind the guard; the showcase's
\* pipeline goes on to load silver.
Scrape(o, x) ==
  /\ SetOut(o)
  /\ x \notin bronze
  /\ plan' = [plan EXCEPT ![o] =
       Statement("bronze", {x})
         \o Statement("records", {x} \cap {y \in Ids : SourceOf[y] = Showcase})]
  /\ UNCHANGED <<ops, reading>>

\* The analyst moves an identity to another person, of the table or new.
Unmerge(o, link, to) ==
  /\ ops < MaxOps
  /\ SetOut(o)
  /\ link.active
  /\ to # link.person
  /\ plan' = [plan EXCEPT ![o] =
       LinkStatement({[link EXCEPT !.active = FALSE], NewLink(link.id, to, "human_review")})]
  /\ ops' = ops + 1
  /\ UNCHANGED reading

\* Identities of a person by links of any status.
IdsOf(p) == {l.id : l \in {k \in links : k.person = p}}

ErasurePlan(p) ==
  LET known == IdsOf(p) \cap record
  IN  Statement("delete_bronze", {x \in known : SourceOf[x] \in Guarded})
        \o Statement("delete_records", IdsOf(p))
        \o Statement("delete_links", IdsOf(p))
        \o Statement("delete_facts", IdsOf(p))
        \o Statement("suppress", known)
        \o Statement("erase", {p})

Erase(o, p) ==
  /\ ops < MaxOps
  /\ SetOut(o)
  /\ person[p] # "none"
  /\ plan' = [plan EXCEPT ![o] = ErasurePlan(p)]
  /\ ops' = ops + 1
  /\ UNCHANGED reading

----
(* The statements. *)

\* Mutant: the guard is left out.
Unguarded(rows) == rows

\* The MERGE source leaves out what is suppressed.
Allowed(rows) == {x \in rows : x \notin suppressed}

WriteBronze(j) ==
  /\ Next1(j, "bronze")
  /\ bronze' = bronze \cup {x \in Rows(j) : SourceOf[x] \in Guarded => x \in Allowed(Rows(j))}
  /\ Advance(j)
  /\ UNCHANGED <<record, links, person, fact, verdict, suppressed, stale, forgotten>>

WriteRecords(j) ==
  /\ Next1(j, "records")
  /\ record' = record \cup Allowed(Rows(j))
  /\ Advance(j)
  /\ UNCHANGED <<bronze, links, person, fact, verdict, suppressed, stale, forgotten>>

WriteVerdicts(j) ==
  /\ Next1(j, "verdicts")
  /\ verdict' = [b \in Band |-> IF \E a \in Rows(j) : a[1] = b
                                THEN (CHOOSE a \in Rows(j) : a[1] = b)[2] ELSE verdict[b]]
  /\ Advance(j)
  /\ UNCHANGED <<bronze, record, links, person, fact, suppressed, stale, forgotten>>

WriteFacts(j) ==
  /\ Next1(j, "facts")
  /\ fact' = [x \in Ids |-> IF \E f \in Rows(j) : f[1] = x
                            THEN (CHOOSE f \in Rows(j) : f[1] = x)[2] ELSE fact[x]]
  /\ Advance(j)
  /\ UNCHANGED <<bronze, record, links, person, verdict, suppressed, stale, forgotten>>

WritePersons(j) ==
  /\ Next1(j, "persons")
  /\ person' = [p \in Persons |-> IF p \in Rows(j) THEN "active" ELSE person[p]]
  /\ Advance(j)
  /\ UNCHANGED <<bronze, record, links, fact, verdict, suppressed, stale, forgotten>>

WriteLinks(j) ==
  /\ Next1(j, "links")
  /\ links' = MergeLinks(Rows(j))
  /\ stale' = stale \cup {x \in {l.id : l \in Rows(j)} :
       ActiveLinks(x) # {l \in Head(plan[j]).seen : l.id = x}}
  /\ Advance(j)
  /\ UNCHANGED <<bronze, record, person, fact, verdict, suppressed, forgotten>>

DeleteBronze(j) ==
  /\ Next1(j, "delete_bronze")
  /\ bronze' = bronze \ Rows(j)
  /\ Advance(j)
  /\ UNCHANGED <<record, links, person, fact, verdict, suppressed, stale, forgotten>>

DeleteRecords(j) ==
  /\ Next1(j, "delete_records")
  /\ record' = record \ Rows(j)
  /\ Advance(j)
  /\ UNCHANGED <<bronze, links, person, fact, verdict, suppressed, stale, forgotten>>

DeleteLinks(j) ==
  /\ Next1(j, "delete_links")
  /\ links' = {l \in links : l.id \notin Rows(j)}
  /\ Advance(j)
  /\ UNCHANGED <<bronze, record, person, fact, verdict, suppressed, stale, forgotten>>

DeleteFacts(j) ==
  /\ Next1(j, "delete_facts")
  /\ fact' = [x \in Ids |-> IF x \in Rows(j) THEN NoFact ELSE fact[x]]
  /\ Advance(j)
  /\ UNCHANGED <<bronze, record, links, person, verdict, suppressed, stale, forgotten>>

Suppress(j) ==
  /\ Next1(j, "suppress")
  /\ suppressed' = suppressed \cup Rows(j)
  /\ forgotten' = IF j \in alone THEN forgotten \cup Rows(j) ELSE forgotten
  /\ Advance(j)
  /\ UNCHANGED <<bronze, record, links, person, fact, verdict, stale>>

WriteTombstone(j) ==
  /\ Next1(j, "erase")
  /\ person' = [p \in Persons |-> IF p \in Rows(j) THEN "erased" ELSE person[p]]
  /\ Advance(j)
  /\ UNCHANGED <<bronze, record, links, fact, verdict, suppressed, stale, forgotten>>

Execute(j) ==
  \/ WriteBronze(j) \/ WriteRecords(j) \/ WriteVerdicts(j) \/ WriteFacts(j)
  \/ WritePersons(j) \/ WriteLinks(j)
  \/ DeleteBronze(j) \/ DeleteRecords(j) \/ DeleteLinks(j) \/ DeleteFacts(j)
  \/ Suppress(j) \/ WriteTombstone(j)

\* A statement fails or the process dies: what was written stays.  (A run that
\* dies while it reads leaves nothing behind.)
Crash(j) ==
  /\ crashes < MaxCrashes
  /\ plan[j] # <<>>
  /\ crashes' = crashes + 1
  /\ plan' = [plan EXCEPT ![j] = <<>>]
  /\ UNCHANGED <<tables, ops, reading, ghosts>>

----
Operate(o) ==
  \/ \E x \in Ids : Scrape(o, x)
  \/ \E l \in links : \E p \in {k.person : k \in links} \cup OneOf(Unused) : Unmerge(o, l, p)
  \/ \E p \in {k.person : k \in links} : Erase(o, p)

Next ==
  \/ \E e \in Resolvers : StartResolving(e) \/ Resolve(e)
  \/ \E o \in Operators : Operate(o)
  \/ \E j \in Jobs : Execute(j) \/ Crash(j)

Spec == Init /\ [][Next]_vars

\* Resolution is run every night, and a job that has set out goes on unless it
\* dies.
FairSpec ==
  /\ Spec
  /\ \A e \in Resolvers : WF_reading(BeginReading(e)) /\ WF_reading(EndReading(e))
  /\ \A j \in Jobs : WF_plan(Advance(j))

----
(* Properties *)

\* The state has its shape, and silver.person_source_link one row per link_id.
TypeOK ==
  /\ bronze \subseteq Ids /\ record \subseteq Ids /\ suppressed \subseteq Ids
  /\ links \subseteq Link
  /\ \A l, k \in links : SameKey(l, k) => l = k
  /\ person \in [Persons -> {"none", "active", "erased"}]
  /\ fact \in [Ids -> 0..NoFact]
  /\ verdict \in [Band -> Verdicts \cup {"none"}]
  /\ ops \in 0..MaxOps /\ crashes \in 0..MaxCrashes
  /\ alone \subseteq Jobs /\ stale \subseteq Ids /\ forgotten \subseteq Ids

\* "At most ONE active link per source_record_id" (schemas/ddl/20_silver.sql),
\* through resolutions, unmerges, erasures and crashes, unless a job wrote links
\* of an identity that had changed since it read them.
OneActiveLink == \A x \in Ids \ stale : Cardinality(ActiveLinks(x)) <= 1

\* A link a run has made leads to a row of silver.person, also when the run
\* died on the way (sink_all).
LinkedPersonExists ==
  \A l \in links : l.active /\ l.method # "human_review" => person[l.person] # "none"

\* What an analyst decided stands: no other run changes whom the identity is
\* linked to, only a further unmerge or an erasure.
CorrectionStands ==
  [][\A x \in Ids \ stale' :
       (\E l \in ActiveLinks(x) : l.method = "human_review") /\ ActiveLinks(x)' # ActiveLinks(x) =>
         ~\E e \in Resolvers : WriteLinks(e)]_vars

\* Erased by a job that ran alone, an identity never comes back: no guarded
\* bronze row, no record and no link, whatever is scraped and resolved later.
ErasedStaysErased ==
  \A x \in forgotten :
    /\ x \notin record
    /\ SourceOf[x] \in Guarded => x \notin bronze
    /\ ActiveLinks(x) = {}

\* Once nobody scrapes, corrects or erases any more, the nightly run leaves
\* every record with a link, and its fact with the person it is linked to
\* (backfill_person_id), whatever died on the way.
SettlesInTheEnd ==
  <>[](\A x \in record :
         /\ ActiveLinks(x) # {}
         /\ x \notin stale /\ fact[x] # NoFact => \A l \in ActiveLinks(x) : fact[x] = l.person)

====
