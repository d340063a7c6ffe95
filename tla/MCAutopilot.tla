----------------------------- MODULE MCAutopilot -----------------------------
(* boards/large_test_board.json as the AI sees it: streets walked both     *)
(* ways but never straight back, and the squares that matter to the plan.  *)
EXTENDS Autopilot

FourSuits == <<"SPADE", "HEART", "DIAMOND", "CLUB">>

Ring(first, last) == {{n, n + 1} : n \in first .. last - 1}
Streets ==
  Ring(0, 19) \cup Ring(20, 29) \cup Ring(30, 35) \cup Ring(37, 39) \cup Ring(41, 44)
  \cup Ring(45, 47)
  \cup {{0, 20}, {3, 48}, {21, 48}, {5, 45}, {8, 30}, {22, 39}, {22, 47}, {29, 40},
        {40, 36}, {36, 41}, {44, 19}, {35, 37}}
Around(s) == {n \in 0 .. 48 : {s, n} \in Streets}

Kinds == [s \in 0 .. 48 |->
  CASE s = 0 -> "BANK" [] s \in {3, 11, 19, 22, 41} -> "SUIT"
    [] s = 16 -> "CHANGE_OF_SUIT" [] s = 34 -> "SUIT_YOURSELF"
    [] s \in {6, 39, 43} -> "VENTURE" [] OTHER -> "SHOP"]
Shown == [s \in 0 .. 48 |->
  CASE s \in {3, 16} -> "SPADE" [] s \in {11, 41} -> "HEART" [] s = 19 -> "DIAMOND"
    [] s = 22 -> "CLUB" [] OTHER -> None]

LargeBoard ==
  [kind |-> Kinds, suit |-> Shown, doorway |-> [s \in 0 .. 48 |-> None],
   waypoints |-> [s \in 0 .. 48 |->
                    {[from |-> n, to |-> Around(s) \ {n}] : n \in Around(s)}]]

TwoDistricts == {0, 1}
Prices == <<3>> @@ (0 :> -1)
Rooms == [d \in TwoDistricts |-> 5]

(* Solvent, or in debt with shares, with shops, with both. *)
Wallets ==
  {[cash |-> cash, stock |-> [d \in TwoDistricts |-> IF d = 1 THEN n ELSE m],
    shops |-> shops] :
     cash \in {0, -2, -6, -20}, n \in 0 .. 4, m \in 0 .. 1,
     shops \in {<<>>, <<4>>, <<4, 7>>}}
=============================================================================
