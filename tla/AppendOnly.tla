---- MODULE AppendOnly ----
(***************************************************************************)
(* What docs/contract.md says of gold.venture_score and gold.memo: they    *)
(* are append-only, and is_latest says which rows are served.  A writer    *)
(* adds one served row and may withdraw older ones; a row that is not      *)
(* served any more never comes back.  Every row may be withdrawn at once,  *)
(* which asks for a new one, and a store that lives in memory starts again *)
(* from its seed.  The module ScoreLedger implements it twice.             *)
(***************************************************************************)
EXTENDS Sequences

CONSTANT Seed      \* the flags of the rows there are at first

VARIABLE served    \* the is_latest flags of the rows, in the order of writing

Init == served = Seed

Add ==
  \E old \in SUBSET DOMAIN served :
    served' = Append([n \in DOMAIN served |-> served[n] /\ n \notin old], TRUE)

Withdraw == served' = [n \in DOMAIN served |-> FALSE]

Restart == served' = Seed

Next == Add \/ Withdraw \/ Restart

Spec == Init /\ [][Next]_served

====
