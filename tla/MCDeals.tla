------------------------------- MODULE MCDeals -------------------------------
(* Shops a and b and the vacant plot c, for two players. *)
EXTENDS Deals

CONSTANTS a, b, c

Three == {a, b, c}
OnlyC == {c}
UnitBase == [s \in Squares |-> IF s \in Plots THEN 2 ELSE 1]

(* A second shop of the same owner makes room for two more. *)
Caps == [s \in Squares |->
           [n \in 0 .. Cardinality(Squares) |-> Base[s] + (IF n >= 2 THEN 2 ELSE 0)]]
OneShare == [p \in Players |-> 1]
Dividends == {[p \in Players |-> 0], [p \in Players |-> IF p = 0 THEN 1 ELSE 0]}

(* No status, half off, and a price hike that makes a rent of 7 one of 8.  *)
Hikes == {0, -50, 20}

Unsold == {[s \in Squares |-> None]}
=============================================================================
