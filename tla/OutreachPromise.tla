---- MODULE OutreachPromise ----
(***************************************************************************)
(* What the outreach and interview components promise about one interview  *)
(* link, whatever fails on the way: an interview is kept only of a founder *)
(* who has agreed, a refusal and a withdrawal are final, a kept interview  *)
(* is finished once, and a score is attached only to a finished one.       *)
(* The module Interview implements it.                                     *)
(***************************************************************************)

CONSTANT Tokens     \* the interview links

VARIABLES phase,    \* where each link stands
          kept,     \* the links with an interview on record
          attached  \* the links whose interview carries its score

vars == <<phase, kept, attached>>

Phases == {"unsent", "invited", "agreed", "refused", "done", "withdrawn"}

Init ==
  /\ phase = [t \in Tokens |-> "unsent"]
  /\ kept = {}
  /\ attached = {}

Move(t, from, to) ==
  /\ phase[t] \in from
  /\ phase' = [phase EXCEPT ![t] = to]

Invite(t) == Move(t, {"unsent"}, "invited") /\ UNCHANGED <<kept, attached>>

Agree(t) == Move(t, {"invited"}, "agreed") /\ UNCHANGED <<kept, attached>>

Refuse(t) == Move(t, {"invited"}, "refused") /\ UNCHANGED <<kept, attached>>

\* A restart forgets every agreement that was not yet acted on: the founders
\* are asked again.
Lapse ==
  /\ phase' = [t \in Tokens |-> IF phase[t] = "agreed" THEN "invited" ELSE phase[t]]
  /\ UNCHANGED <<kept, attached>>

Keep(t) ==
  /\ phase[t] = "agreed"
  /\ kept' = kept \cup {t}
  /\ UNCHANGED <<phase, attached>>

Finish(t) ==
  /\ t \in kept
  /\ Move(t, {"agreed"}, "done")
  /\ UNCHANGED <<kept, attached>>

Attach(t) ==
  /\ phase[t] = "done"
  /\ t \notin attached
  /\ attached' = attached \cup {t}
  /\ UNCHANGED <<phase, kept>>

Withdraw(t) ==
  /\ Move(t, Phases \ {"unsent"}, "withdrawn")
  /\ UNCHANGED <<kept, attached>>

Next ==
  \/ \E t \in Tokens :
       \/ Invite(t)
       \/ Agree(t)
       \/ Refuse(t)
       \/ Keep(t)
       \/ Finish(t)
       \/ Attach(t)
       \/ Withdraw(t)
  \/ Lapse

Spec == Init /\ [][Next]_vars

====
