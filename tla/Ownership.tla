------------------------------ MODULE Ownership ------------------------------
(***************************************************************************)
(* What the game promises about property: an estate for each player, no    *)
(* square in two of them.  A square nobody owns may be acquired; one that  *)
(* is owned may pass to another player or become unowned; a player who     *)
(* goes bankrupt gives up all of his at once.  Money is not mentioned.     *)
(***************************************************************************)
CONSTANTS Players, Squares

VARIABLE estate      \* [Players -> SUBSET Squares]

Unowned == {s \in Squares : \A p \in Players : s \notin estate[p]}

Init ==
  /\ estate \in [Players -> SUBSET Squares]
  /\ \A p, q \in Players : p # q => estate[p] \cap estate[q] = {}

Acquire(p, s) ==
  /\ s \in Unowned
  /\ estate' = [estate EXCEPT ![p] = @ \cup {s}]

Pass(p, q, s) ==
  /\ p # q /\ s \in estate[p]
  /\ estate' = [estate EXCEPT ![p] = @ \ {s}, ![q] = @ \cup {s}]

GiveUp(p, s) ==
  /\ s \in estate[p]
  /\ estate' = [estate EXCEPT ![p] = @ \ {s}]

GiveUpAll(p) == estate' = [estate EXCEPT ![p] = {}]

Next ==
  \E p \in Players :
    \/ GiveUpAll(p)
    \/ \E s \in Squares :
         \/ Acquire(p, s)
         \/ GiveUp(p, s)
         \/ \E q \in Players : Pass(p, q, s)

Spec == Init /\ [][Next]_estate
=============================================================================
