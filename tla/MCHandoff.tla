------------------------------ MODULE MCHandoff ------------------------------
(* A first-order check; a plan rewritten by hand, or the post-order check.  *)
EXTENDS Handoff, TLC

CONSTANTS c1, c2

Request(source, decision, bound) ==
  [source |-> source, decision |-> decision, run |-> "first",
   readinessLimit |-> 1, auditLimit |-> 1, filter |-> "all",
   required |-> TRUE, bound |-> bound]
Fifo == Request("select-pending", NoDecision, 1)
Explicit == Request("decision-id", 2, 1)
Script(commands, request) == [commands |-> commands, request |-> request]
MCScripts ==
  (c1 :> {Script(FirstOrder, Fifo), Script(FirstOrder, Explicit)}) @@
  (c2 :> {Script(PostOrder, Fifo), Script(<<"plan">>, Explicit)})
MCRequests == {Fifo, Explicit, Request("decision-id", 2, 2)}
MCHandoffs == {AllFiles}

\* The clock and the Kill Switch do not both move, and neither they, the other
\* decisions nor both invocations come into play beside a smoke; the last smoke
\* is not a failing one, nor cleaned up after.
Bounded ==
  /\ clock' > 0 => killSwitch'.since = 0
  /\ smoke'.stage # "none" \/ smoke'.seeds > 0 =>
       /\ clock' = 0 /\ killSwitch'.since = 0 /\ recorded' \subseteq {Rehearsed}
       /\ \E c \in Checks : check'[c].status = "idle"
  /\ Cardinality({i \in DOMAIN runs' : runs'[i].id # SmokeRun}) = MaxRuns =>
       smoke'.seeds = MaxSmokes /\ runs'[Len(runs')].status = "COMPLETED"
  /\ smoke.seeds = MaxSmokes => smoke'.stage \in {"seeded", "rehearsed", "done"}
MCSpec == Init /\ [][Next /\ Bounded]_vars
===============================================================================
