---- MODULE MCScoreLedger ----
(* Jobs of the command line are interchangeable. *)
EXTENDS ScoreLedger, TLC

Alike == Permutations(Jobs)

====
