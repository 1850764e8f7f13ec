---- MODULE Runner ----
(***************************************************************************)
(* The run loop every scraper shares (scrapers/common/base.py): load the   *)
(* cursor, buffer what the source yields per table, merge a buffer when it *)
(* is full and all of them at the end, save the next cursor last.          *)
(*                                                                         *)
(* Several runs of one source may be under way at once: nothing in         *)
(* ops.scrape_state says that one is.  A source extends this module with   *)
(* what its fetch keeps in memory and says which rows a step yields.       *)
(***************************************************************************)
EXTENDS Naturals

CONSTANTS
  Runs,     \* processes that may run the source
  Tables,   \* bronze tables the source writes
  Keys,     \* primary keys of all of them together
  TableOf,  \* the table a key belongs to
  NoRow,    \* no row with this key
  NoCursor  \* the cursor of a source that never ran

ASSUME RunnerAssumption == TableOf \in [Keys -> Tables]

VARIABLES
  bronze,  \* the row under each key, or NoRow
  cursor,  \* the cursor in ops.scrape_state
  running, \* the runs under way
  loaded,  \* per run: the cursor it started from
  buffer   \* per run: the rows yielded and not yet merged

runnerVars == <<bronze, cursor, running, loaded, buffer>>

EmptyBuffer == [k \in Keys |-> NoRow]

RunnerInit ==
  /\ bronze = EmptyBuffer
  /\ cursor = NoCursor
  /\ running = {}
  /\ loaded = [p \in Runs |-> NoCursor]
  /\ buffer = [p \in Runs |-> EmptyBuffer]

\* What is in a buffer or a table after rows are put over it by key.
Merged(old, new) == [k \in Keys |-> IF new[k] # NoRow THEN new[k] ELSE old[k]]

\* The rows of one table.
OfTable(rows, t) == [k \in Keys |-> IF TableOf[k] = t THEN rows[k] ELSE NoRow]

Load(p) ==
  /\ p \notin running
  /\ running' = running \cup {p}
  /\ loaded' = [loaded EXCEPT ![p] = cursor]
  /\ UNCHANGED <<bronze, cursor, buffer>>

\* A batch is normalised and its rows are buffered.
Yield(p, rows) ==
  /\ p \in running
  /\ buffer' = [buffer EXCEPT ![p] = Merged(@, rows)]
  /\ UNCHANGED <<bronze, cursor, running, loaded>>

\* One merge.  BATCH_SIZE may be reached after any batch, so that a buffer is
\* merged at any time of the fetch, and what is left of it at the end.
Flush(p, t) ==
  /\ p \in running
  /\ OfTable(buffer[p], t) # EmptyBuffer
  /\ bronze' = Merged(bronze, OfTable(buffer[p], t))
  /\ buffer' = [buffer EXCEPT ![p] = [k \in Keys |-> IF TableOf[k] = t THEN NoRow ELSE @[k]]]
  /\ UNCHANGED <<cursor, running, loaded>>

\* The run is over and its memory with it.
Leave(p) ==
  /\ p \in running
  /\ running' = running \ {p}
  /\ loaded' = [loaded EXCEPT ![p] = NoCursor]
  /\ buffer' = [buffer EXCEPT ![p] = EmptyBuffer]
  /\ UNCHANGED bronze

Drained(p) == buffer[p] = EmptyBuffer

\* The cursor advances once every buffer is merged.  The guard of a source says
\* that its fetch is at its end.
Save(p, next) ==
  /\ Drained(p)
  /\ Leave(p)
  /\ cursor' = next

\* One of RUN_FAILURES while draining: the cursor the run started from is put
\* back with status "error".
RunFails(p) ==
  /\ Leave(p)
  /\ cursor' = loaded[p]

\* Any other exception, a failure of a save, or the end of the process.
RunCrashes(p) ==
  /\ Leave(p)
  /\ UNCHANGED cursor

====
