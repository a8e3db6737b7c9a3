--------------------------- MODULE EquityAccount ---------------------------
(***************************************************************************)
(* What a paper equity ledger promises: an account that starts with a      *)
(* positive balance and is moved once by each closed position, by exactly  *)
(* its result, never goes below zero and takes nothing more once empty.    *)
(***************************************************************************)
EXTENDS Integers

CONSTANTS Positions, Pnls, InitialBalance

VARIABLES
  results,   \* pairs of a closed position and what it won or lost
  settled,   \* the positions the account has taken
  equity

Init == results = {} /\ settled = {} /\ equity = InitialBalance

Close(p, v) ==
  /\ \A r \in results : r[1] # p
  /\ results' = results \cup {<<p, v>>}
  /\ UNCHANGED <<settled, equity>>

Settle(p, v) ==
  /\ <<p, v>> \in results /\ p \notin settled
  /\ equity > 0 /\ equity + v >= 0
  /\ settled' = settled \cup {p}
  /\ equity' = equity + v
  /\ UNCHANGED results

Next == \E p \in Positions, v \in Pnls : Close(p, v) \/ Settle(p, v)

Spec == Init /\ [][Next]_<<results, settled, equity>>
=============================================================================
