------------------------------ MODULE Autopilot ------------------------------
(***************************************************************************)
(* The basic AI: how it plans its way to a promotion and walks it, and how *)
(* it pays its debts.  At every fork it plans again: the missing suits,    *)
(* one square for each, the shortest tour over them to the bank, and of    *)
(* the ways it may take the one closest to the tour's first stop.  The     *)
(* dice only decide where a turn ends, so any step may end one, and where  *)
(* it ends a card may be drawn, which changes what the next plan starts    *)
(* from: the way he came, the suits he holds, the square he stands on.     *)
(*                                                                         *)
(* A definition whose name is that of the next one, an underscore and a    *)
(* remark is a faulty variant, which no action uses.                       *)
(***************************************************************************)
EXTENDS Integers, Sequences, FiniteSets, SequencesExt

CONSTANTS
  None,        \* Python's None
  Board,       \* [kind, suit, waypoints, doorway], each by square id
  Suits,       \* the standard suits, in rotation order
  Districts, Price, Room,   \* districts; share price and room for capital of each
  Purses,      \* the money and the assets the AI may begin with
  MaxWarps,    \* bound: times a square of the board sends it somewhere else
  MaxWild,     \* bound: wild cards a card or a warp may bring its hand to
  Patience     \* steps within which the AI is to be promoted again

Wild == "WILD"
Squares == DOMAIN Board.kind
SuitSet == {Suits[i] : i \in DOMAIN Suits}
Far == 999999
CardKinds == {"SUIT", "CHANGE_OF_SUIT", "SUIT_YOURSELF", "VENTURE"}

VARIABLES
  pos, from,   \* where the AI's player stands, and where he came from
  suits,       \* suits he holds: [SuitSet \cup {Wild} -> Nat]
  shown,       \* suit each square shows; a change-of-suit square rotates its
  fresh,       \* he has just come to a square whose card he may still draw
  walked,      \* steps since the last promotion, or since he was sent away
  purse,       \* [cash, stock by district, sale values of the shops]
  warps        \* times a square of the board sent it somewhere else

vars == <<pos, from, suits, shown, fresh, walked, purse, warps>>

-----------------------------------------------------------------------------
(* pathfinder.py *)

Doorway(s) == {Board.doorway[s]} \ {None}
Exits(s) == UNION {w.to : w \in Board.waypoints[s]} \cup Doorway(s)

(* bfs_distances: the n-th round finds the squares n steps away. *)
Round(dist, n) ==
  LET edge  == {s \in DOMAIN dist : dist[s] = n - 1}
      found == UNION {Exits(s) : s \in edge} \ DOMAIN dist
  IN  dist @@ [s \in found |-> n]
Distance ==
  [s \in Squares |->
     LET Search[n \in Nat] == IF n = 0 THEN s :> 0 ELSE Round(Search[n - 1], n)
     IN  Search[Cardinality(Squares)] @@ [t \in Squares |-> Far]]

Bank == CHOOSE s \in Squares :
          /\ Board.kind[s] = "BANK"
          /\ \A t \in Squares : Board.kind[t] = "BANK" => s <= t
SuitSquares(suit) ==
  {s \in Squares : Board.kind[s] = "SUIT" /\ Board.suit[s] = suit}

(* The square of a suit that is nearest; of several the first. *)
Nearest(suit, s) ==
  CHOOSE t \in SuitSquares(suit) : \A u \in SuitSquares(suit) \ {t} :
    \/ Distance[s][t] < Distance[s][u]
    \/ Distance[s][t] = Distance[s][u] /\ t < u

Missing(held) == {suit \in SuitSet : held[suit] = 0}
Need(held) ==
  LET n == Cardinality(Missing(held)) - held[Wild] IN IF n < 0 THEN 0 ELSE n

Cost(s, tour) ==
  LET leg(trip, t) == [at |-> t, cost |-> trip.cost + Distance[trip.at][t]]
  IN  FoldLeft(leg, [at |-> s, cost |-> 0], tour).cost

(* The stops to choose from: a square for each of as many missing suits as *)
(* the wild cards do not replace.                                          *)
Stops(s, held) ==
  {{Nearest(suit, s) : suit \in {u \in combo : SuitSquares(u) # {}}} :
     combo \in kSubset(Need(held), Missing(held))}

(* plan_route: the shortest tours over the stops to the bank. *)
Tours(s, held) ==
  LET all == UNION {{Append(tour, Bank) : tour \in SetToSeqs(stops)} :
                      stops \in Stops(s, held)}
      cost == [tour \in all |-> Cost(s, tour)]
      best == Min({cost[tour] : tour \in all})
  IN  {tour \in all : cost[tour] = best}

(* next_step_toward: the distances it compares are those from the target.  *)
NextSteps_First(target, choices) == {c \in choices : \A d \in choices : c <= d}

NextSteps(target, choices) ==
  {c \in choices : \A d \in choices : Distance[target][c] <= Distance[target][d]}

-----------------------------------------------------------------------------
(* The walk. *)

Ways ==
  LET exact == {w \in Board.waypoints[pos] : w.from = from}
      wild  == {w \in Board.waypoints[pos] : w.from = None}
  IN  UNION {w.to : w \in IF exact # {} THEN exact ELSE IF wild # {} THEN wild
                          ELSE IF from = None THEN Board.waypoints[pos] ELSE {}}

(* What passing square s does to the suits; the game's handle_pass.  A     *)
(* promotion spends the suits, and a wild card for each one missing.       *)
Promotes(s) == Board.kind[s] = "BANK" /\ Need(suits) = 0
Collected(held, suit) ==
  IF suit = Wild THEN [held EXCEPT ![Wild] = @ + 1] ELSE [held EXCEPT ![suit] = 1]
SuitsAfter(s) ==
  CASE Promotes(s) -> [x \in SuitSet \cup {Wild} |->
                         IF x = Wild THEN suits[Wild] - Cardinality(Missing(suits)) ELSE 0]
    [] Board.kind[s] \in {"SUIT", "CHANGE_OF_SUIT"} -> Collected(suits, shown[s])
    [] Board.kind[s] = "SUIT_YOURSELF" -> Collected(suits, Wild)
    [] OTHER -> suits
Rotated(suit) ==
  LET i == CHOOSE j \in DOMAIN Suits : Suits[j] = suit IN Suits[(i % Len(Suits)) + 1]

Pass(s) ==
  /\ suits' = SuitsAfter(s)
  /\ shown' = IF Board.kind[s] = "CHANGE_OF_SUIT" THEN [shown EXCEPT ![s] = Rotated(@)]
              ELSE shown

NoPurse == [cash |-> 0, stock |-> [d \in Districts |-> 0], shops |-> <<>>]
Worthless == \A d \in Districts : purse.stock[d] > 0 => Price[d] <= 0
InDebt == purse.cash < 0 /\ (purse.shops # <<>> \/ \E d \in Districts : purse.stock[d] > 0)

(* A step along the tour, through the doorway it may lead to.  A turn that *)
(* ends at the bank opens every way; one that ends at a card draws it.     *)
Walk ==
  /\ purse = NoPurse
  /\ \E tour \in Tours(pos, suits) : \E to \in NextSteps(Head(tour), Ways) :
       /\ pos' \in IF Doorway(to) = {} THEN {to} ELSE Doorway(to)
       /\ Pass(to)
       /\ walked' = IF Promotes(to) THEN 0 ELSE walked + 1
       /\ \/ from' = IF Doorway(to) = {} THEN pos ELSE None
          \/ Board.kind[pos'] = "BANK" /\ from' = None
  /\ fresh' = (Board.kind[pos'] \in CardKinds)
  /\ UNCHANGED <<purse, warps>>

(* The turn has ended at a square that gives a card: one for each stop.    *)
Draw == purse = NoPurse /\ fresh

(* Card 001: he may leave in any direction. *)
ClearDirectionLock ==
  /\ Draw /\ fresh' = FALSE /\ from' = None
  /\ UNCHANGED <<pos, suits, shown, walked, purse, warps>>

(* Card 005: a wild suit. *)
CollectWild ==
  /\ Draw /\ fresh' = FALSE
  /\ suits' = Collected(suits, Wild) /\ suits'[Wild] <= MaxWild
  /\ UNCHANGED <<pos, from, shown, walked, purse, warps>>

(* Card 003 lets the AI choose a square: one closest to its first stop.    *)
(* He passes it and stops there, which may give another card.              *)
WarpAnywhere ==
  /\ Draw
  /\ \E tour \in Tours(pos, suits) : \E s \in NextSteps(Head(tour), Squares) :
       pos' = s /\ Pass(s) /\ fresh' = (Board.kind[s] \in CardKinds)
  /\ from' = None /\ walked' = 0 /\ suits'[Wild] <= MaxWild
  /\ UNCHANGED <<purse, warps>>

(* A backstreet sends the player anywhere, without what the square does; a *)
(* cannon sends him to another player's square, and he gets the suit it    *)
(* shows, or passes the bank.                                              *)
Displaced ==
  /\ purse = NoPurse /\ warps < MaxWarps /\ warps' = warps + 1
  /\ pos' \in Squares /\ from' = None /\ walked' = 0 /\ fresh' = FALSE
  /\ suits' \in {suits, SuitsAfter(pos')} /\ suits'[Wild] <= MaxWild
  /\ UNCHANGED <<shown, purse>>

(* Between his turns the others pass the squares that rotate their suit.   *)
OthersRotate ==
  /\ purse = NoPurse
  /\ \E s \in Squares :
       /\ Board.kind[s] = "CHANGE_OF_SUIT"
       /\ shown' = [shown EXCEPT ![s] = Rotated(@)]
  /\ UNCHANGED <<pos, from, suits, fresh, walked, purse, warps>>

-----------------------------------------------------------------------------
(* The debt.  The game asks what to sell as long as the player is in debt  *)
(* and owns anything; an answer that is not valid changes nothing.         *)

CeilDiv(n, m) == (n + m - 1) \div m
Saleable_AnyPrice == {d \in Districts : purse.stock[d] > 0}
Saleable == {d \in Districts : purse.stock[d] > 0 /\ Price[d] > 0}

(* The stock with the least room for capital, no more shares than bring    *)
(* the cash above zero; else the first shop.                               *)
Quantity(d) ==
  LET enough == CeilDiv(1 - purse.cash, Price[d])
  IN  IF enough < purse.stock[d] THEN enough ELSE purse.stock[d]

SellStock ==
  /\ InDebt
  /\ \E d \in Saleable :
       /\ \A e \in Saleable \ {d} : Room[d] < Room[e] \/ (Room[d] = Room[e] /\ d < e)
       /\ Price[d] > 0
       /\ purse' = [purse EXCEPT !.stock[d] = @ - Quantity(d),
                                 !.cash = @ + Quantity(d) * Price[d]]
  /\ UNCHANGED <<pos, from, suits, shown, fresh, walked, warps>>

SellShop ==
  /\ InDebt /\ Saleable = {} /\ purse.shops # <<>>
  /\ purse' = [purse EXCEPT !.shops = Tail(@), !.cash = @ + Head(purse.shops)]
  /\ UNCHANGED <<pos, from, suits, shown, fresh, walked, warps>>

(* Out of debt the AI walks on; its purse is not looked at again.          *)
Settled ==
  /\ purse.cash >= 0 /\ purse # NoPurse /\ purse' = NoPurse
  /\ UNCHANGED <<pos, from, suits, shown, fresh, walked, warps>>

-----------------------------------------------------------------------------
Init ==
  /\ pos = Bank /\ from = None /\ shown = Board.suit
  /\ suits = [x \in SuitSet \cup {Wild} |-> 0]
  /\ fresh = FALSE /\ walked = 0 /\ warps = 0 /\ purse \in Purses

Next == Walk \/ ClearDirectionLock \/ CollectWild \/ WarpAnywhere \/ Displaced
        \/ OthersRotate \/ SellStock \/ SellShop \/ Settled

Spec == Init /\ [][Next]_vars

(* The AI answers every question it is asked. *)
FairSpec == Spec /\ WF_vars(SellStock) /\ WF_vars(SellShop)
-----------------------------------------------------------------------------
(***************************************************************************)
(* Properties.                                                             *)
(***************************************************************************)

(* The one type invariant: no suit is spent that is not held, no more      *)
(* shares are sold than are there.                                         *)
TypeOK ==
  /\ pos \in Squares /\ from \in Squares \cup {None}
  /\ suits \in [SuitSet \cup {Wild} -> Nat]
  /\ shown \in [Squares -> SuitSet \cup {None}] /\ fresh \in BOOLEAN
  /\ purse.cash \in Int /\ purse.stock \in [Districts -> Nat]

(* Wherever its turns end, whatever cards it draws there, wherever one     *)
(* or a square sends it, and whatever the direction lock forbids, the AI   *)
(* comes to a promotion; it never walks in circles, although it plans anew *)
(* at every square (plan_route and next_step_toward).                      *)
PromotesSoon == TypeOK /\ walked <= Patience

(* A debt is paid, unless nothing is left but shares nobody pays for: then *)
(* the game asks again, for ever.                                          *)
DebtEnds == InDebt ~> ~InDebt \/ (purse.shops = <<>> /\ Worthless)
=============================================================================
