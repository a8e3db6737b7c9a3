---------------------------- MODULE MCLiveOrder ----------------------------
(* Small instance of LiveOrder.                                             *)
EXTENDS LiveOrder, TLC

CONSTANTS r1, r2

\* The runs are alike, so r1 is the first to start and 2 the first decision.
\* With both decisions at stake a POST is not repeated (the run may fail
\* instead), and neither the clock nor the Kill Switch moves; while the switch
\* is active and where a POST was repeated, the clock rests.
Bounded ==
  /\ pc'[r2] # "idle" => pc'[r1] # "idle"
  /\ 1 \in recorded' => 2 \in recorded'
  /\ Cardinality(recorded') = 2 =>
       /\ \A r \in Runs : attempt'[r] <= 1
       /\ clock' = 0 /\ ~killSwitch'
  /\ killSwitch' \/ (\E r \in Runs : attempt'[r] > 1) => clock' = 0
MCSpec == Init /\ [][Next /\ Bounded]_vars /\ Fairness
=============================================================================
