---- MODULE MCInterview ----
(* Two founders in two ventures: one venture has both, one the second only. *)
EXTENDS Interview, TLC

CONSTANTS p1, p2, v1, v2

MCPersons == {p1, p2}

MCVentures == {v1, v2}

MCTeam == [v \in MCVentures |-> IF v = v1 THEN <<p1, p2>> ELSE <<p2>>]

\* Tokens and sessions are interchangeable.
Alike == Permutations(Tokens) \cup Permutations(Sessions)

====
