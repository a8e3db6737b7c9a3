-------------------------------- MODULE Units --------------------------------
(***************************************************************************)
(* The units in which the decimals of the code are integers here.          *)
(***************************************************************************)
EXTENDS Integers

CONSTANTS
    Whole,        \* 100 %, in the unit of a percentage
    OnePercent,   \* 1 %, in the same unit
    Unit,         \* one, in the unit of a fraction and of a profit factor
    Bps           \* one, in basis points: 10000 in the code

ASSUME UnitsAssumption ==
    /\ {Whole, Unit, Bps} \subseteq Nat \ {0}
    /\ OnePercent \in 1..Whole
=============================================================================
