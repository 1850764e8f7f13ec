---- MODULE Clusters ----
(***************************************************************************)
(* Clusters of matched identities (er/cluster.py): connected components    *)
(* of pairs, and the guard against two identities of one source.           *)
(***************************************************************************)
EXTENDS Naturals, FiniteSetsExt

CONSTANTS
  Ids,         \* identities, numbers in the order of their source_record_id
  SourceOf     \* the source of each

\* Sets of identities no pair leads out of.
Closed(pairs) == {s \in SUBSET UNION pairs : \A p \in pairs : p \cap s = {} \/ p \subseteq s}

\* Whom pairs connect x with.
ComponentOf(x, pairs) == {y \in UNION pairs : \A s \in Closed(pairs) : x \in s => y \in s}

Components(pairs) == {ComponentOf(x, pairs) : x \in UNION pairs}

\* Of each source the first identity of a cluster stays.
Kept(cluster) == {x \in cluster : ~\E y \in cluster : y < x /\ SourceOf[y] = SourceOf[x]}

====
