--------------------------- MODULE MCPaperLedger ---------------------------
(* Small instances of PaperLedger.                                          *)
EXTENDS PaperLedger, TLC

CONSTANTS c1, c2, c3, t1, t2, t3

Symmetry == Permutations(Commands) \cup Permutations(Tickets)
Results == {-2, 1}
Gain == {1}

\* The Kill Switch moves in the first instant only; once two tickets are written
\* the validation is neither started nor cancelled, only completed; and once all
\* are, only cycles run, which come to positions hidden from them.
Alone(kinds) == \A c \in Commands : mem'[c].kind \in kinds \cup {"none"}
Bounded ==
  /\ killSwitch' => clock' = 0
  /\ Cardinality(Written') >= 2 =>
       status' # "CANCELLED" /\ Alone(Kinds \ {"start", "cancel"})
  /\ Written' = Tickets => ~killSwitch' /\ Alone({"auto-cycle"})
MCSpec == Init /\ [][Next /\ Bounded]_vars
=============================================================================
