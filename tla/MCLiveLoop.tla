----------------------------- MODULE MCLiveLoop -----------------------------
(* Two loops at one instant, or one loop whose time passes.                 *)
EXTENDS LiveLoop

CONSTANTS r1, r2

Bounded == clock' > 0 => pc'[r2] = "idle"
MCSpec == Init /\ [][Next /\ Bounded]_vars /\ \A r \in Runs : WF_vars(RunStep(r))
=============================================================================
