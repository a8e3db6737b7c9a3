--------------------------- MODULE OrderLifecycle ---------------------------
(***************************************************************************)
(* What the live order journal promises of one decision: it is journaled   *)
(* before the exchange can have its order, and acknowledged only once the  *)
(* exchange has it.  No stage is skipped, repeated or left backwards.      *)
(***************************************************************************)
CONSTANT Decisions
VARIABLE stage

Init == stage = [d \in Decisions |-> "undecided"]

Move(d, from, to) ==
  /\ stage[d] = from
  /\ stage' = [stage EXCEPT ![d] = to]

Next == \E d \in Decisions :
  \/ Move(d, "undecided", "journaled")
  \/ Move(d, "journaled", "placed")
  \/ Move(d, "placed", "acknowledged")

Spec == Init /\ [][Next]_stage
=============================================================================
