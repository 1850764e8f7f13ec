---- MODULE Showcase ----
(***************************************************************************)
(* One participant of the Hack Nation showcase on the way to a golden       *)
(* person.  Two jobs write the same row of silver.person_source_record: the *)
(* scrape, from what it has just fetched (scrapers/hacknation/), and entity *)
(* resolution, from all of bronze (er/normalize.py, er/pipeline.py).        *)
(***************************************************************************)
EXTENDS Naturals, Sequences, FiniteSetsExt

CONSTANTS
  Projects,   \* the participant's projects, a sequence in the order of the sweep
  Names,      \* what may stand in a scalar field (the name, say)
  MaxEdits    \* bound: changes of the site

None == "none"
Absent == [name |-> None, items |-> {}]

\* Where the participant is seen, in the order in which the pieces are merged:
\* the people list, the projects, the CV.
Places == <<"people">> \o Projects \o <<"cv">>

\* What a place may say: a value for scalar fields, items for list fields (one
\* for each place).  A CV has only keywords.
Pieces(place) == {[name |-> n, items |-> i] :
                    n \in IF place = "cv" THEN {None} ELSE Names \cup {None}, i \in SUBSET {place}}

VARIABLES
  site,     \* place -> what it says
  bronze,   \* place -> what was fetched last
  source,   \* silver.person_source_record
  person,   \* silver.person
  scrape,   \* what a scrape has collected, and its stage
  er,       \* what a run of entity resolution writes, and its stage
  edits

vars == <<site, bronze, source, person, scrape, er, edits>>

Nothing == [p \in {Places[i] : i \in DOMAIN Places} |-> Absent]

Init ==
  /\ site = Nothing /\ bronze = Nothing
  /\ source = Absent /\ person = Absent
  /\ scrape = [stage |-> "idle", got |-> Nothing, cv |-> Absent]
  /\ er = [stage |-> "idle", source |-> Absent, person |-> Absent]
  /\ edits = 0

\* Of a scalar the first that is there, of lists all.
MergeGroup(pieces) ==
  LET named == {i \in DOMAIN pieces : pieces[i].name # None}
  IN  [name |-> IF named = {} THEN None ELSE pieces[Min(named)].name,
       items |-> UNION {pieces[i].items : i \in DOMAIN pieces}]

\* merge_psrs, for the one participant: the pieces in the order of precedence.
MergePieces(pieces) == MergeGroup([i \in DOMAIN Places |-> pieces[Places[i]]])

Edit(place, piece) ==
  /\ edits < MaxEdits /\ edits' = edits + 1
  /\ site' = [site EXCEPT ![place] = piece]
  /\ UNCHANGED <<bronze, source, person, scrape, er>>

----
(* The scrape: bronze, the source record, and the CV's bronze row last. *)

Over(old, new) == IF new = Absent THEN old ELSE new

\* The CV, if it is asked for, hangs on a project fetched.
Captured(fetched, withCv) == IF withCv /\ fetched # {} THEN site["cv"] ELSE Absent

\* The people list is swept whole; of the projects those that the limit leaves
\* and that answer, of which the participant may be gone.
Sweep(fetched, withCv) ==
  [p \in DOMAIN Nothing |->
     IF p \in fetched \cup {"people"} THEN site[p]
     ELSE IF p = "cv" THEN Captured(fetched, withCv) ELSE Absent]

ScrapeBronze(fetched, withCv) ==
  /\ scrape.stage = "idle"
  /\ withCv => fetched # {}
  /\ \E got \in {Sweep(fetched, withCv)} :
       /\ got # Nothing
       /\ bronze' = [p \in DOMAIN bronze |-> IF p \in fetched THEN got[p]
                                             ELSE IF p = "people" THEN Over(bronze[p], got[p])
                                             ELSE bronze[p]]
       /\ scrape' = [stage |-> "merge", got |-> got, cv |-> got["cv"]]
  /\ UNCHANGED <<site, source, person, er, edits>>

ScrapeSource ==
  /\ scrape.stage = "merge"
  /\ source' = Over(source, MergePieces(scrape.got))
  /\ scrape' = [scrape EXCEPT !.stage = "cv", !.got = Nothing]
  /\ UNCHANGED <<site, bronze, person, er, edits>>

ScrapeCv ==
  /\ scrape.stage = "cv"
  /\ bronze' = [bronze EXCEPT !["cv"] = Over(@, scrape.cv)]
  /\ scrape' = [stage |-> "idle", got |-> Nothing, cv |-> Absent]
  /\ UNCHANGED <<site, source, person, er, edits>>

ScrapeDies ==
  /\ scrape.stage # "idle"
  /\ scrape' = [stage |-> "idle", got |-> Nothing, cv |-> Absent]
  /\ UNCHANGED <<site, bronze, source, person, er, edits>>

----
(* Entity resolution *)

\* Mutant: normalising leaves the records alone that are there.
OnlyUnknown == IF source = Absent THEN MergePieces(bronze) ELSE source

\* hacknation_psrs: the record as all of bronze has it.
Fresh == MergePieces(bronze)

\* The golden person is made of the record as it was read; only of an identity
\* not seen before as it has just been made.
Golden == IF source = Absent THEN Fresh ELSE source

ErReads ==
  /\ er.stage = "idle"
  /\ er' = [stage |-> "person", source |-> Fresh, person |-> Golden]
  /\ UNCHANGED <<site, bronze, source, person, scrape, edits>>

\* sink_all: the tables in the order of their names.
ErPerson ==
  /\ er.stage = "person"
  /\ person' = Over(person, er.person)
  /\ er' = [er EXCEPT !.stage = "source"]
  /\ UNCHANGED <<site, bronze, source, scrape, edits>>

ErSource ==
  /\ er.stage = "source"
  /\ source' = Over(source, er.source)
  /\ er' = [stage |-> "idle", source |-> Absent, person |-> Absent]
  /\ UNCHANGED <<site, bronze, person, scrape, edits>>

ErDies ==
  /\ er.stage # "idle"
  /\ edits < MaxEdits /\ edits' = edits + 1
  /\ er' = [stage |-> "idle", source |-> Absent, person |-> Absent]
  /\ UNCHANGED <<site, bronze, source, person, scrape>>

Next ==
  \/ \E i \in DOMAIN Places : \E piece \in Pieces(Places[i]) : Edit(Places[i], piece)
  \/ \E fetched \in SUBSET {Projects[i] : i \in DOMAIN Projects}, withCv \in BOOLEAN :
       ScrapeBronze(fetched, withCv)
  \/ ScrapeSource \/ ScrapeCv \/ ScrapeDies
  \/ ErReads \/ ErPerson \/ ErSource \/ ErDies

Spec == Init /\ [][Next]_vars

\* Entity resolution runs every night, and a run ends.
Nightly == WF_vars(ErReads) /\ WF_vars(ErPerson) /\ WF_vars(ErSource)

FairSpec == Spec /\ Nightly

----
(* Properties *)

TypeOK ==
  /\ \A p \in DOMAIN Nothing : {site[p], bronze[p]} \subseteq Pieces(p)
  /\ source.name \in Names \cup {None} /\ person.name \in Names \cup {None}
  /\ scrape.stage \in {"idle", "merge", "cv"} /\ er.stage \in {"idle", "person", "source"}
  /\ edits \in 0..MaxEdits

\* All that has been fetched about the participant, in one record: the people
\* list speaks first.
Known ==
  [name |-> IF bronze["people"].name # None THEN bronze["people"].name ELSE MergePieces(bronze).name,
   items |-> UNION {bronze[p].items : p \in DOMAIN bronze}]

\* However poor scrapes (limited, without CVs, cut short) write over the source
\* record between two runs: once the scrapes pause, the golden person comes to
\* show everything bronze has on the participant, if it still has anything.
PersonCatchesUp == <>[](scrape.stage = "idle") => <>[](Known = Absent \/ person = Known)

====
