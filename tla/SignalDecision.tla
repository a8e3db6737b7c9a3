---------------------------- MODULE SignalDecision ----------------------------
(***************************************************************************)
(* What the paper entry pipeline promises of a signal, whoever submits it  *)
(* and however often: one decision, which nothing changes; an order only   *)
(* of the quantity an approved decision allows; one entry, of exactly that *)
(* order.  The module SignalEntry implements it.                           *)
(***************************************************************************)
EXTENDS Integers

CONSTANTS
    Signals,
    MaxQuantity    \* bound of the model: the largest quantity of a decision

VARIABLE book

Untouched == [decision |-> "none", allowed |-> 0, ordered |-> 0, entered |-> 0]

Decide(s) ==
    /\ book[s].decision = "none"
    /\ \/ book' = [book EXCEPT ![s].decision = "rejected"]
       \/ \E quantity \in 1..MaxQuantity :
             book' = [book EXCEPT ![s] =
                [decision |-> "approved", allowed |-> quantity,
                 ordered |-> 0, entered |-> 0]]

Order(s) ==
    /\ book[s].decision = "approved" /\ book[s].ordered = 0
    /\ book' = [book EXCEPT ![s].ordered = book[s].allowed]

Enter(s) ==
    /\ book[s].ordered > 0 /\ book[s].entered = 0
    /\ book' = [book EXCEPT ![s].entered = book[s].ordered]

Init == book = [s \in Signals |-> Untouched]

Next == \E s \in Signals : Decide(s) \/ Order(s) \/ Enter(s)

Spec == Init /\ [][Next]_book
=============================================================================
