----------------------------- MODULE MCTurnLoop -----------------------------
(* Boards on which TLC walks the turn loop. *)
EXTENDS TurnLoop, TLC

TwoSuits == <<"SPADE", "HEART">>

W(from, to) == [from |-> from, to |-> to]
AnyWay(to) == {W(None, to)}

(* Undo: a ring of a bank, a change-of-suit square, a checkpoint-to-be and *)
(* a doorway, with a fork at the bank and a direction lock on the ring.    *)
UndoSquares == 0 .. 4
UndoKind == <<"SUIT", "CHANGE_OF_SUIT", "VACANT_PLOT", "DOORWAY">>
UndoKinds == [s \in UndoSquares |-> IF s = 0 THEN "BANK" ELSE UndoKind[s]]
UndoSuits ==
  [s \in UndoSquares |-> CASE s = 1 -> "SPADE" [] s = 2 -> "HEART" [] OTHER -> None]
UndoWaypoints ==
  [s \in UndoSquares |->
     CASE s = 0 -> AnyWay({1, 3})
       [] s = 1 -> {W(0, {2}), W(2, {0})}
       [] s = 2 -> AnyWay({3, 4})
       [] s = 3 -> {W(None, {0}), W(0, {2})}
       [] s = 4 -> AnyWay({0})]
UndoDestination == [s \in UndoSquares |-> IF s = 4 THEN 0 ELSE None]

(* Landing: roll-on, venture, cannon and suit squares, a backstreet, and   *)
(* two doorways that lead to one another.                                  *)
LandSquares == 0 .. 8
LandKind == <<"ROLL_ON", "VENTURE", "CANNON", "SUIT_YOURSELF", "BACKSTREET",
              "DOORWAY", "DOORWAY", "STOCKBROKER">>
LandKinds == [s \in LandSquares |-> IF s = 0 THEN "BANK" ELSE LandKind[s]]
LandSuits == [s \in LandSquares |-> None]
LandWaypoints ==
  [s \in LandSquares |->
     CASE s = 0 -> AnyWay({1, 2})
       [] s = 1 -> AnyWay({2, 3})
       [] s = 2 -> AnyWay({4, 6})
       [] s = 3 -> AnyWay({5, 8})
       [] s = 4 -> AnyWay({0})
       [] s = 5 -> AnyWay({0})
       [] s = 6 -> AnyWay({4})
       [] s = 7 -> AnyWay({1, 3})
       [] s = 8 -> AnyWay({0})]
LandDestination ==
  [s \in LandSquares |->
     CASE s = 5 -> 3 [] s = 6 -> 7 [] s = 7 -> 6 [] OTHER -> None]

Rules ==
  [players |-> 2, suits |-> TwoSuits, salary |-> 10, plot |-> 10,
   basePrice |-> 1, quantities |-> {10}]

Undo ==
  [kind |-> UndoKinds, suit |-> UndoSuits, waypoints |-> UndoWaypoints,
   destination |-> UndoDestination, cash |-> 20, cards |-> {"unlock"},
   maxRoll |-> 4, target |-> 1000, maxBankruptcies |-> 2, staleUndo |-> TRUE,
   maxChances |-> 3, maxDepth |-> 1, maxSteps |-> 6] @@ Rules

Land ==
  [kind |-> LandKinds, suit |-> LandSuits, waypoints |-> LandWaypoints,
   destination |-> LandDestination, cash |-> 10,
   cards |-> {"unlock", "extraRoll", "warp", "gold", "wild"},
   maxRoll |-> 2, target |-> 60, maxBankruptcies |-> 1, staleUndo |-> FALSE,
   maxChances |-> 4, maxDepth |-> 2, maxSteps |-> 4] @@ Rules

(* Ruin: three players at a table for whom one plot is all there is to buy *)
(* and its toll soon more than they have.                                  *)
RuinKinds == [s \in 0 .. 1 |-> IF s = 0 THEN "TAKE_A_BREAK" ELSE "VACANT_PLOT"]
RuinWaypoints == [s \in 0 .. 1 |-> AnyWay({1 - s})]
Ruin ==
  [Rules EXCEPT !.players = 3, !.quantities = {}] @@
  [kind |-> RuinKinds, suit |-> [s \in 0 .. 1 |-> None], waypoints |-> RuinWaypoints,
   destination |-> [s \in 0 .. 1 |-> None], cash |-> 10, cards |-> {"unlock"},
   maxRoll |-> 1, target |-> 1000, maxBankruptcies |-> 3, staleUndo |-> FALSE,
   maxChances |-> 7, maxDepth |-> 1, maxSteps |-> 2]

Games == {Undo, Land, Ruin}
=============================================================================
