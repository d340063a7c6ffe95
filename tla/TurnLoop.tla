------------------------------ MODULE TurnLoop ------------------------------
(***************************************************************************)
(* The turn of a player as the game loop drives it: the event pipeline,    *)
(* the dice, the walk over the board with its undo, the effects of passing *)
(* and of stopping, bonus rolls, and the chain of events that ends a turn. *)
(*                                                                         *)
(* One action handles one event taken off the front of the pipeline:       *)
(* EventPipeline.process_next executes it and GameLoop._dispatch runs its  *)
(* handler.  A handler that asks a player something blocks the only thread *)
(* that changes the game, so its question and its answer are one action.   *)
(* Buying, investing, renting and trading shops, and forced liquidation,   *)
(* are the business of module Deals.                                       *)
(*                                                                         *)
(* A definition whose name is that of the next one, an underscore and a    *)
(* remark is a faulty variant, which no action uses: put in the place of   *)
(* the definition, it makes a property fail.                               *)
(***************************************************************************)
EXTENDS Integers, Sequences, FiniteSets

CONSTANTS
  None,     \* Python's None
  Setups    \* the games a program may be started with: see setup below

(***************************************************************************)
(* A setup has the fields                                                  *)
(*   players             how many there are: 0 .. players - 1              *)
(*   kind, suit          square id -> square type and suit at the start    *)
(*   waypoints           square id -> set of [from, to] records            *)
(*   destination         square id -> where it leads, or None              *)
(*   cash, suits         the ready cash; the standard suits in rotation    *)
(*   cards, maxRoll      the venture deck; the faces of the dice           *)
(*   salary, plot        of a promotion, per level; price of a vacant plot *)
(*   basePrice, target   of the one stock; net worth that wins at the bank *)
(*   maxBankruptcies                                                       *)
(*   quantities          stock quantities a player may name                *)
(*   staleUndo           TRUE: "undo" may arrive with nothing to be undone *)
(* and the bounds of its state space:                                      *)
(*   maxChances          dice rolled for moving plus venture cards drawn   *)
(*   maxDepth            bonus rolls nested in one another, plus one       *)
(*   maxSteps            length of a path (a doorway step costs nothing)   *)
(* Every player starts on square 0.                                        *)
(***************************************************************************)
SquareType ==
  {"CUSTOM", "BANK", "STOCKBROKER", "SHOP", "VACANT_PLOT", "VP_CHECKPOINT", "VP_TAX_OFFICE",
   "SUIT", "CHANGE_OF_SUIT", "SUIT_YOURSELF", "VENTURE", "TAKE_A_BREAK", "BOON", "BOOM",
   "ARCADE", "ROLL_ON", "BACKSTREET", "DOORWAY", "CANNON", "SWITCH"}

WellFormed(s) ==
  LET board == DOMAIN s.kind
      standard == {s.suits[i] : i \in DOMAIN s.suits} IN
  /\ s.players \in Nat \ {0} /\ 0 \in board
  /\ s.kind \in [board -> SquareType]
  /\ s.suits \in Seq(STRING) /\ "WILD" \notin standard
  /\ s.suit \in [board -> standard \cup {None}]
  /\ s.waypoints \in [board -> SUBSET [from : board \cup {None}, to : SUBSET board]]
  /\ s.destination \in [board -> board \cup {None}]
  /\ s.cash \in Int /\ s.salary \in Int /\ s.plot \in Int /\ s.basePrice \in Int
  /\ s.target \in Int /\ s.quantities \subseteq Nat /\ s.staleUndo \in BOOLEAN
  /\ s.maxRoll \in Nat /\ s.maxChances \in Nat
  /\ s.maxBankruptcies \in Int /\ s.maxBankruptcies <= s.players
  /\ None \notin 0 .. s.players - 1 /\ None \notin board /\ None \notin standard

ASSUME SetupsAssumption == \A s \in Setups : WellFormed(s)

VARIABLES
  setup,     \* the board and the rules: GameState.board and GameConfig
  game,      \* GameState: players, board squares, stock price
  pipes,     \* the pipelines, outermost first; the last one is self.pipeline
  moves,     \* _move_snapshots
  path,      \* _path_taken
  gameOver, winner,
  chances,   \* dice rolled and cards drawn so far
  before     \* history: the game and the decision at each step not yet undone

vars == <<setup, game, pipes, moves, path, gameOver, winner, chances, before>>

Players == 0 .. setup.players - 1
Squares == DOMAIN setup.kind
Suits == {setup.suits[i] : i \in DOMAIN setup.suits}
Wild == "WILD"

Pipe == pipes[Len(pipes)]
Event == Head(Pipe)

(* SetPipe(q): the running pipeline becomes q. *)
SetPipe(q) == pipes' = [pipes EXCEPT ![Len(pipes)] = q]
PutFront(es) == SetPipe(es \o Tail(Pipe))
PutBack(es) == SetPipe(Tail(Pipe) \o es)
Consume == PutFront(<<>>)

If(cond, es) == IF cond THEN es ELSE <<>>

Active == {p \in Players : ~game.bankrupt[p]}
Price == setup.basePrice + game.fluct
NetWorth(p) == game.cash[p] + game.stock[p] * Price
               + setup.plot * Cardinality({s \in Squares : game.owner[s] = p})

(***************************************************************************)
(* Board rules.                                                            *)
(***************************************************************************)

(* Exact match on the square come from, else the wildcard, else (after a   *)
(* warp) every exit.                                                       *)
NextSquares(s, from) ==
  LET exact == {w \in setup.waypoints[s] : w.from = from}
      wild  == {w \in setup.waypoints[s] : w.from = None}
      every == IF from = None THEN setup.waypoints[s] ELSE {}
  IN  UNION {w.to : w \in IF exact # {} THEN exact
                          ELSE IF wild # {} THEN wild ELSE every}

StepCost_EveryStep(s) == 1
StepCost(s) == IF game.kind[s] = "DOORWAY" THEN 0 ELSE 1

HasAllSuits(p) ==
  game.suits[p][Wild] >= Cardinality({s \in Suits : game.suits[p][s] = 0})

NextSuit(s) ==
  LET i == CHOOSE j \in DOMAIN setup.suits : setup.suits[j] = s
  IN  setup.suits[(i % Len(setup.suits)) + 1]

NextActive_Anyone(p) == (p + 1) % setup.players
NextActive(p) ==
  LET after(k) == (p + k) % setup.players
      found == {k \in 1 .. setup.players : after(k) \in Active}
  IN  IF found = {} THEN p
      ELSE after(CHOOSE k \in found : \A j \in found : k <= j)

(* The elements of a sequence that are to be kept, in their order. *)
Picked(s, Keep(_)) ==
  LET at == {i \in DOMAIN s : Keep(s[i])} IN
  [k \in 1 .. Cardinality(at) |-> s[CHOOSE i \in at : Cardinality({j \in at : j <= i}) = k]]

(* Events. *)
Turn(p) == [type |-> "Turn", player |-> p]
Roll(p) == [type |-> "Roll", player |-> p]
WillMove(p, total, rem) ==
  [type |-> "WillMove", player |-> p, total |-> total, remaining |-> rem]
Move(p, from, to) == [type |-> "Move", player |-> p, from |-> from, to |-> to]
At(type, p, s) == [type |-> type, player |-> p, square |-> s]
Of(type, p) == [type |-> type, player |-> p]
CollectSuit(p, suit) == [type |-> "CollectSuit", player |-> p, suit |-> suit]
Warp(p, s, voluntary) ==
  [type |-> "Warp", player |-> p, square |-> s, voluntary |-> voluntary]
Stock(type, p, qty) == [type |-> type, player |-> p, quantity |-> qty]

DoorwayWarp_PassesOn(p, s) == At("PassAction", p, setup.destination[s])
DoorwayWarp(p, s) == Warp(p, setup.destination[s], FALSE)

(* handle_pass: what passing over square s adds in front of the pipeline. *)
PassEvents(p, s) ==
  CASE game.kind[s] = "BANK" ->
         If(HasAllSuits(p), <<Of("Promotion", p)>>) \o <<Of("InitBuyStock", p)>>
    [] game.kind[s] = "SUIT" ->
         If(game.suit[s] # None, <<CollectSuit(p, game.suit[s])>>)
    [] game.kind[s] = "CHANGE_OF_SUIT" ->
         If(game.suit[s] # None,
            <<CollectSuit(p, game.suit[s]), At("RotateSuit", p, s)>>)
    [] game.kind[s] = "SUIT_YOURSELF" -> <<CollectSuit(p, Wild)>>
    [] game.kind[s] = "DOORWAY" ->
         If(setup.destination[s] # None, <<DoorwayWarp(p, s)>>)
    [] game.kind[s] = "VP_CHECKPOINT" ->
         If(game.owner[s] # None,
            <<At(IF game.owner[s] = p THEN "RaiseToll" ELSE "PayToll", p, s)>>)
    [] OTHER -> <<>>

(* handle_land and the order _handle_stop_action gives its events. *)
StopEvents(p, s) ==
  If(game.kind[game.pos[p]] = "BANK", <<Of("ClearDirectionLock", p)>>)
  \o If(game.kind[s] = "VP_CHECKPOINT" /\ game.owner[s] # None,
        <<At(IF game.owner[s] = p THEN "RaiseToll" ELSE "PayToll", p, s)>>)
  \o If(game.kind[s] = "BACKSTREET" /\ setup.destination[s] # None,
        <<Warp(p, setup.destination[s], FALSE)>>)
  \o If(game.kind[s] = "VACANT_PLOT" /\ game.owner[s] = None
          /\ game.cash[p] >= setup.plot, <<At("InitBuyVacantPlot", p, s)>>)
  \o If(game.kind[s] = "STOCKBROKER", <<Of("InitBuyStock", p)>>)
  \o If(game.kind[s] = "CANNON" /\ Active \ {p} # {}, <<Of("InitCannon", p)>>)
  \o If(game.kind[s] \in {"SUIT", "VENTURE", "CHANGE_OF_SUIT", "SUIT_YOURSELF"},
        <<Of("VentureCard", p)>>)
  \o If(game.kind[s] = "BANK" /\ NetWorth(p) >= setup.target, <<Of("Victory", p)>>)
  \o If(game.kind[s] = "ROLL_ON", <<Of("RollAgain", p)>>)

-----------------------------------------------------------------------------
(***************************************************************************)
(* Which event is handled next.  The main loop stops when the game is      *)
(* over; the loop of a bonus roll does not look at game_over and stops in  *)
(* front of an EndTurn event.                                              *)
(***************************************************************************)
Handling(type) ==
  /\ Pipe # <<>> /\ Event.type = type
  /\ IF Len(pipes) = 1 THEN ~gameOver ELSE type # "EndTurn"

NoUndo == moves' = <<>> /\ path' = <<>>
SameMoves == UNCHANGED <<moves, path>>
SameOutcome == UNCHANGED <<setup, gameOver, winner, chances>>
Leaf == SameMoves /\ SameOutcome /\ UNCHANGED before

(* _handle_turn: the pre-roll menu, asked again until the player rolls.      *)
(* The deals of the menu change no state of this module; the answer of an  *)
(* unknown action puts back the same Turn event and changes nothing.       *)
HandleTurn ==
  /\ Handling("Turn")
  /\ LET p == Event.player IN
     /\ game' = [game EXCEPT !.cur = p]
     /\ \/ PutBack(<<Roll(p)>>)
        \/ PutBack(<<Of("InitSellStock", p), Turn(p)>>)
        \/ PutBack(<<Of("InitDeal", p), Turn(p)>>)
  /\ NoUndo /\ SameOutcome /\ UNCHANGED before

HandleInitDeal ==
  /\ Handling("InitDeal") /\ Consume /\ Leaf /\ UNCHANGED game

HandleInitSellStock ==
  /\ Handling("InitSellStock") /\ Leaf /\ UNCHANGED game
  /\ LET p == Event.player IN
     \/ Consume
     \/ \E qty \in setup.quantities :
          qty <= game.stock[p] /\ PutFront(<<Stock("SellStock", p, qty)>>)

HandleRoll ==
  /\ Handling("Roll") /\ chances < setup.maxChances /\ chances' = chances + 1
  /\ SameMoves /\ UNCHANGED <<setup, game, gameOver, winner, before>>
  /\ \E roll \in 1 .. setup.maxRoll : PutFront(<<WillMove(Event.player, roll, roll)>>)

(* The part of the state _take_snapshot saves before a step. *)
Snapshot(p, rem) ==
  [pos |-> game.pos[p], from |-> game.from[p], remaining |-> rem,
   suits |-> game.suits[p], level |-> game.level[p], stock |-> game.stock[p],
   cash |-> game.cash, suit |-> game.suit, toll |-> game.toll,
   fluct |-> game.fluct, pending |-> game.pending]

Restored_OwnCashOnly(p, snap) ==
  [game EXCEPT !.pos[p] = snap.pos, !.from[p] = snap.from,
               !.suits[p] = snap.suits, !.level[p] = snap.level,
               !.stock[p] = snap.stock, !.cash[p] = snap.cash[p],
               !.suit = snap.suit, !.toll = snap.toll,
               !.fluct = snap.fluct, !.pending = snap.pending]

Restored(p, snap) ==
  [game EXCEPT !.pos[p] = snap.pos, !.from[p] = snap.from,
               !.suits[p] = snap.suits, !.level[p] = snap.level,
               !.stock[p] = snap.stock, !.cash = snap.cash,
               !.suit = snap.suit, !.toll = snap.toll,
               !.fluct = snap.fluct, !.pending = snap.pending]

Choices ==
  IF Event.remaining <= 0 THEN {}
  ELSE NextSquares(game.pos[Event.player], game.from[Event.player])

(* The events of a step.  The next decision waits for what passing does. *)
StepEvents(p, to, total, left) ==
  <<Move(p, game.pos[p], to), At("PassAction", p, to), WillMove(p, total, left)>>

(* A valid choice of path.  An invalid one puts back the same event. *)
ChoosePath ==
  /\ Handling("WillMove") /\ Len(path) < setup.maxSteps
  /\ LET p == Event.player
         left(to) == Event.remaining - StepCost(to) IN
     /\ \E to \in Choices :
          /\ path' = Append(path, to)
          /\ PutBack(StepEvents(p, to, Event.total, left(to)))
     /\ moves' = Append(moves, Snapshot(p, Event.remaining))
  /\ before' = Append(before, [game |-> game, event |-> Event])
  /\ SameOutcome /\ UNCHANGED game

(* _undo_move with a snapshot on the stack; it empties the pipeline. *)
UndoMove ==
  /\ Handling("WillMove") /\ moves # <<>>
  /\ LET p == Event.player
         snap == moves[Len(moves)]
         shorter(s) == SubSeq(s, 1, Len(s) - 1) IN
     /\ game' = Restored(p, snap)
     /\ SetPipe(<<WillMove(p, Event.total, snap.remaining)>>)
     /\ moves' = shorter(moves)
     /\ path' = IF path = <<>> THEN path ELSE shorter(path)
     /\ before' = IF before = <<>> THEN before ELSE shorter(before)
  /\ SameOutcome

(* "undo" is taken as an answer to choose_path even when can_undo is       *)
(* false; _undo_move then returns without putting the decision back.       *)
UndoNothing ==
  /\ setup.staleUndo /\ Handling("WillMove") /\ moves = <<>> /\ Choices # {}
  /\ Consume /\ Leaf /\ UNCHANGED game

(* Confirmed by the player, or automatic when nothing can be undone. *)
StopMoving_OneShort ==
  /\ Handling("WillMove") /\ Choices = {}
  /\ LET p == Event.player
         s == IF game.from[p] = None THEN game.pos[p] ELSE game.from[p] IN
     PutBack(<<At("StopAction", p, s), Of("EndTurn", p)>>)
  /\ Leaf /\ UNCHANGED game

StopMoving ==
  /\ Handling("WillMove") /\ Choices = {}
  /\ LET p == Event.player IN
     PutBack(<<At("StopAction", p, game.pos[p]), Of("EndTurn", p)>>)
  /\ Leaf /\ UNCHANGED game

HandleMove ==
  /\ Handling("Move") /\ Consume /\ Leaf
  /\ game' = [game EXCEPT !.from[Event.player] = Event.from,
                          !.pos[Event.player] = Event.to]

HandlePass ==
  /\ Handling("PassAction") /\ Leaf /\ UNCHANGED game
  /\ PutFront(PassEvents(Event.player, Event.square))

HandleStop ==
  /\ Handling("StopAction") /\ SameMoves /\ SameOutcome /\ UNCHANGED game
  /\ PutFront(StopEvents(Event.player, Event.square))
  /\ before' = <<>>

-----------------------------------------------------------------------------
(* Leaf events: they change the game and enqueue nothing, but for a        *)
(* voluntary warp, which passes and stops on its target.                   *)

Collected(suits, suit) ==
  IF suit = Wild THEN [suits EXCEPT ![Wild] = @ + 1]
  ELSE [suits EXCEPT ![suit] = 1]

HandleCollectSuit ==
  /\ Handling("CollectSuit") /\ Consume /\ Leaf
  /\ game' = [game EXCEPT !.suits[Event.player] = Collected(@, Event.suit)]

HandleRotateSuit ==
  /\ Handling("RotateSuit") /\ Consume /\ Leaf
  /\ game' = [game EXCEPT !.suit[Event.square] = NextSuit(@)]

(* Four suits are spent: each standard suit held, and a wild for each one  *)
(* that is missing.  The bonus grows with the level.                       *)
HandlePromotion ==
  /\ Handling("Promotion") /\ Consume /\ Leaf
  /\ LET p == Event.player
         held == game.suits[p]
         missing == Cardinality({s \in Suits : held[s] = 0})
         left == IF held[Wild] > missing THEN held[Wild] - missing ELSE 0 IN
     game' = [game EXCEPT
                !.cash[p] = @ + setup.salary * (game.level[p] + 1), !.level[p] = @ + 1,
                !.suits[p] = [s \in Suits \cup {Wild} |-> IF s = Wild THEN left ELSE 0]]

HandleInitBuyStock ==
  /\ Handling("InitBuyStock") /\ Leaf /\ UNCHANGED game
  /\ LET p == Event.player IN
     \/ Consume
     \/ \E qty \in setup.quantities :
          qty * Price <= game.cash[p] /\ PutFront(<<Stock("BuyStock", p, qty)>>)

(* Ten or more shares move the price at the end of the turn. *)
PriceMove(qty) == IF qty >= 10 THEN Price \div 16 + 1 ELSE 0

HandleBuyStock ==
  /\ Handling("BuyStock") /\ Consume /\ Leaf
  /\ game' = [game EXCEPT !.cash[Event.player] = @ - Event.quantity * Price,
                          !.stock[Event.player] = @ + Event.quantity,
                          !.pending = @ + PriceMove(Event.quantity)]

HandleSellStock ==
  /\ Handling("SellStock") /\ Consume /\ Leaf
  /\ game' = [game EXCEPT !.cash[Event.player] = @ + Event.quantity * Price,
                          !.stock[Event.player] = @ - Event.quantity,
                          !.pending = @ - PriceMove(Event.quantity)]

HandleRaiseToll ==
  /\ Handling("RaiseToll") /\ Consume /\ Leaf
  /\ game' = [game EXCEPT !.toll[Event.square] = @ + 10]

Transferred(cash, payer, payee, due) ==
  LET paid == [cash EXCEPT ![payer] = @ - due] IN [paid EXCEPT ![payee] = @ + due]

(* A closed checkpoint (the status is not modelled here) takes no toll,    *)
(* but the toll rises all the same.                                        *)
HandlePayToll ==
  /\ Handling("PayToll") /\ Consume /\ Leaf
  /\ \E closed \in BOOLEAN :
     LET p == Event.player
         owner == game.owner[Event.square]
         due == IF closed THEN 0 ELSE game.toll[Event.square] IN
     game' = [game EXCEPT !.cash = Transferred(@, p, owner, due),
                          !.toll[Event.square] = @ + 10]

HandleWarp ==
  /\ Handling("Warp") /\ Leaf
  /\ LET p == Event.player  s == Event.square IN
     /\ game' = [game EXCEPT !.from[p] = None, !.pos[p] = s]
     /\ PutFront(If(Event.voluntary,
                    <<At("PassAction", p, s), At("StopAction", p, s)>>))

HandleClearDirectionLock ==
  /\ Handling("ClearDirectionLock") /\ Consume /\ Leaf
  /\ game' = [game EXCEPT !.from[Event.player] = None]

HandleInitBuyVacantPlot ==
  /\ Handling("InitBuyVacantPlot") /\ Leaf /\ UNCHANGED game
  /\ \/ Consume
     \/ PutFront(<<At("BuyVacantPlot", Event.player, Event.square)>>)

HandleBuyVacantPlot ==
  /\ Handling("BuyVacantPlot") /\ Consume /\ Leaf
  /\ game' = [game EXCEPT !.cash[Event.player] = @ - setup.plot,
                          !.owner[Event.square] = Event.player,
                          !.kind[Event.square] = "VP_CHECKPOINT",
                          !.toll[Event.square] = 10]

(* Warp to the target's square; of its pass effects only a suit, or the    *)
(* whole pass action of a bank, is granted.                                *)
HandleInitCannon ==
  /\ Handling("InitCannon") /\ Leaf /\ UNCHANGED game
  /\ LET p == Event.player IN
     \/ Consume
     \/ \E t \in Active \ {p} :
          LET s == game.pos[t]  k == game.kind[s] IN
          PutFront(
            <<Warp(p, s, FALSE)>>
            \o If(k \in {"SUIT", "CHANGE_OF_SUIT"} /\ game.suit[s] # None,
                  <<CollectSuit(p, game.suit[s])>>)
            \o If(k = "SUIT_YOURSELF", <<CollectSuit(p, Wild)>>)
            \o If(k = "BANK", <<At("PassAction", p, s)>>))

-----------------------------------------------------------------------------
(* Venture cards, bonus rolls and the end of the game at the bank. *)

(* The card's script runs inside the handler.  "extraRoll" starts a        *)
(* pipeline of its own, and the handler goes on when that one is done.     *)
HandleVentureCard ==
  /\ Handling("VentureCard") /\ chances < setup.maxChances /\ chances' = chances + 1
  /\ UNCHANGED <<setup, gameOver, winner, before>>
  /\ LET p == Event.player
         spent == [pipes EXCEPT ![Len(pipes)] = Tail(@)] IN
     \/ /\ "unlock" \in setup.cards /\ Consume /\ SameMoves
        /\ game' = [game EXCEPT !.from[p] = None]
     \/ /\ "extraRoll" \in setup.cards /\ Len(pipes) < setup.maxDepth
        /\ pipes' = Append(spent, <<Roll(p)>>)
        /\ NoUndo /\ UNCHANGED game
     \/ /\ "warp" \in setup.cards /\ SameMoves
        /\ \E s \in Squares :
             /\ game' = [game EXCEPT !.from[p] = None, !.pos[p] = s]
             /\ PutFront(<<At("PassAction", p, s), At("StopAction", p, s)>>)
     \/ /\ "gold" \in setup.cards /\ Consume /\ SameMoves
        /\ \E roll \in 1 .. setup.maxRoll :
             game' = [game EXCEPT !.cash[p] = @ + 40 * roll]
     \/ /\ "wild" \in setup.cards /\ Consume /\ SameMoves
        /\ game' = [game EXCEPT !.suits[p] = Collected(@, Wild)]

(* _do_extra_roll returns: whatever is left in its pipeline is dropped. *)
LeaveExtraRoll ==
  /\ Len(pipes) > 1
  /\ Pipe = <<>> \/ Event.type = "EndTurn"
  /\ pipes' = SubSeq(pipes, 1, Len(pipes) - 1)
  /\ Leaf /\ UNCHANGED game

HandleRollAgain_KeepsEndTurn ==
  /\ Handling("RollAgain") /\ PutFront(<<Roll(Event.player)>>)
  /\ NoUndo /\ SameOutcome /\ UNCHANGED <<game, before>>

HandleRollAgain ==
  /\ Handling("RollAgain")
  /\ LET Kept(e) == e.type \notin {"EndTurn", "Turn"} IN
     SetPipe(<<Roll(Event.player)>> \o Picked(Tail(Pipe), Kept))
  /\ NoUndo /\ SameOutcome /\ UNCHANGED <<game, before>>

HandleVictory ==
  /\ Handling("Victory") /\ Consume
  /\ gameOver' = TRUE /\ winner' = Event.player
  /\ SameMoves /\ UNCHANGED <<setup, game, chances, before>>

-----------------------------------------------------------------------------
(* The end of a turn. *)

ClosingEvents_CheckLast(p) ==
  <<Of("LiquidationPhase", p), Of("BankruptcyCheck", p), Of("StockFluctuation", p),
    Of("TickStatuses", p), Of("AdvanceTurn", p), Of("GameOverCheck", p)>>

ClosingEvents(p) ==
  <<Of("LiquidationPhase", p), Of("BankruptcyCheck", p), Of("StockFluctuation", p),
    Of("TickStatuses", p), Of("GameOverCheck", p), Of("AdvanceTurn", p)>>

HandleEndTurn ==
  /\ Handling("EndTurn") /\ Leaf /\ UNCHANGED game
  /\ PutFront(ClosingEvents(Event.player))

(* Module Deals models the sales; here they cover the debt or do not.      *)
HandleLiquidation ==
  /\ Handling("LiquidationPhase") /\ Consume /\ Leaf
  /\ \/ UNCHANGED game
     \/ game.cash[Event.player] < 0 /\ game' = [game EXCEPT !.cash[Event.player] = 0]

HandleTickStatuses ==
  /\ Handling("TickStatuses") /\ Consume /\ Leaf /\ UNCHANGED game

HandleBankruptcyCheck ==
  /\ Handling("BankruptcyCheck") /\ Leaf /\ UNCHANGED game
  /\ PutFront(If(NetWorth(Event.player) < 0, <<Of("Bankruptcy", Event.player)>>))

HandleBankruptcy ==
  /\ Handling("Bankruptcy") /\ Consume /\ Leaf
  /\ LET p == Event.player IN
     game' = [game EXCEPT
                !.bankrupt[p] = TRUE, !.cash[p] = @ + game.stock[p] * Price,
                !.stock[p] = 0,
                !.owner = [s \in Squares |-> IF @[s] = p THEN None ELSE @[s]]]

HandleStockFluctuation ==
  /\ Handling("StockFluctuation") /\ Consume /\ Leaf
  /\ game' = [game EXCEPT !.fluct = @ + game.pending, !.pending = 0]

HandleGameOverCheck ==
  /\ Handling("GameOverCheck") /\ Consume /\ SameMoves
  /\ UNCHANGED <<setup, game, chances, before>>
  /\ IF Cardinality(Players \ Active) < setup.maxBankruptcies
     THEN UNCHANGED <<gameOver, winner>>
     ELSE /\ gameOver' = TRUE
          /\ IF Active = {} THEN winner' = None
             ELSE \E p \in Active :
                    /\ \A q \in Active : NetWorth(p) >= NetWorth(q)
                    /\ winner' = p

HandleAdvanceTurn ==
  /\ Handling("AdvanceTurn") /\ Leaf
  /\ LET p == NextActive(game.cur) IN
     /\ game' = [game EXCEPT !.cur = p]
     /\ PutFront(<<Turn(p)>>)

-----------------------------------------------------------------------------
Init ==
  /\ setup \in Setups
  /\ game = [cur |-> 0, bankrupt |-> [p \in Players |-> FALSE],
             pos |-> [p \in Players |-> 0], from |-> [p \in Players |-> None],
             cash |-> [p \in Players |-> setup.cash], level |-> [p \in Players |-> 1],
             suits |-> [p \in Players |-> [s \in Suits \cup {Wild} |-> 0]],
             stock |-> [p \in Players |-> 0], kind |-> setup.kind,
             suit |-> setup.suit, toll |-> [s \in Squares |-> 0],
             owner |-> [s \in Squares |-> None], fluct |-> 0, pending |-> 0]
  /\ pipes = << <<Turn(0)>> >>
  /\ moves = <<>> /\ path = <<>> /\ before = <<>>
  /\ gameOver = FALSE /\ winner = None /\ chances = 0

Walk == HandleRoll \/ ChoosePath \/ UndoMove \/ UndoNothing \/ StopMoving
        \/ HandleMove \/ HandlePass \/ HandleStop

Effect == HandleCollectSuit \/ HandleRotateSuit \/ HandlePromotion
          \/ HandleInitBuyStock \/ HandleBuyStock \/ HandleRaiseToll
          \/ HandlePayToll \/ HandleWarp \/ HandleClearDirectionLock
          \/ HandleInitBuyVacantPlot \/ HandleBuyVacantPlot \/ HandleInitCannon
          \/ HandleVentureCard \/ LeaveExtraRoll \/ HandleRollAgain \/ HandleVictory

EndOfTurn == HandleEndTurn \/ HandleLiquidation \/ HandleBankruptcyCheck
             \/ HandleBankruptcy \/ HandleStockFluctuation \/ HandleTickStatuses
             \/ HandleGameOverCheck \/ HandleAdvanceTurn

PreRoll == HandleTurn \/ HandleInitDeal \/ HandleInitSellStock \/ HandleSellStock

Next == PreRoll \/ Walk \/ Effect \/ EndOfTurn

Spec == Init /\ [][Next]_vars
FairSpec == Spec /\ WF_vars(Next)
-----------------------------------------------------------------------------
(***************************************************************************)
(* Properties.                                                             *)
(***************************************************************************)

(* The one type invariant: the state keeps its shape (the names of events  *)
(* and squares, and the two stacks) through every handler.                 *)
EventTypes ==
  {"Turn", "Roll", "WillMove", "Move", "PassAction", "StopAction", "EndTurn",
   "InitDeal", "InitSellStock", "SellStock", "InitBuyStock", "BuyStock",
   "CollectSuit", "RotateSuit", "Promotion", "RaiseToll", "PayToll", "Warp",
   "ClearDirectionLock", "InitBuyVacantPlot", "BuyVacantPlot", "InitCannon",
   "VentureCard", "RollAgain", "Victory", "LiquidationPhase",
   "BankruptcyCheck", "Bankruptcy", "StockFluctuation", "TickStatuses",
   "GameOverCheck", "AdvanceTurn"}

TypeOK ==
  /\ game.cur \in Players
  /\ game.bankrupt \in [Players -> BOOLEAN]
  /\ game.pos \in [Players -> Squares]
  /\ game.from \in [Players -> Squares \cup {None}]
  /\ game.cash \in [Players -> Int]
  /\ game.suits \in [Players -> [Suits \cup {Wild} -> Nat]]
  /\ game.stock \in [Players -> Nat]
  /\ game.owner \in [Squares -> Players \cup {None}]
  /\ game.toll \in [Squares -> Nat]
  /\ pipes # <<>>
  /\ path \in Seq(Squares)
  /\ gameOver \in BOOLEAN /\ winner \in Players \cup {None}
  /\ \A i \in DOMAIN pipes : \A j \in DOMAIN pipes[i] :
       pipes[i][j].type \in EventTypes /\ pipes[i][j].player \in Players

IsUndo ==
  /\ Pipe # <<>> /\ Event.type = "WillMove"
  /\ Len(moves') < Len(moves)

(* Undoing a step brings the whole game, and the decision the player was   *)
(* facing, back to what they were: "there should never be a difference in  *)
(* game state vs if the move/undo never happened" (design/technical.md).   *)
(* It covers promotions, stock bought while passing the bank, tolls paid   *)
(* to other players and rotated suits, and a step before the last landing  *)
(* can never be undone.  _undo_move empties the pipeline: only the         *)
(* decision undone may be in it, or an event of the turn would be lost.    *)
UndoRestores ==
  [][IsUndo =>
       /\ before # <<>>
       /\ game' = before[Len(before)].game
       /\ pipes'[Len(pipes')] = <<before[Len(before)].event>>
       /\ Len(Pipe) = 1]_vars

(* Every pipeline holds exactly one event that carries the turn on: a turn *)
(* is never dropped (the loop would run dry with no winner) and never      *)
(* doubled (a player would be given two turns), whatever the mixture of    *)
(* roll-on squares, bonus rolls, warps and cannons.  An "undo" that comes  *)
(* when nothing can be undone does drop the turn: the code takes it.       *)
CarriesOn(e) == e.type \in {"Turn", "Roll", "WillMove", "EndTurn", "AdvanceTurn"}
OneContinuation ==
  /\ TypeOK
  /\ ~setup.staleUndo =>
       \A i \in DOMAIN pipes :
         Cardinality({j \in DOMAIN pipes[i] : CarriesOn(pipes[i][j])}) = 1

(* Every pending event is the current player's: no event of a finished     *)
(* turn, or of a player already bankrupt, is left for the next one.        *)
OnlyCurrentPlayerActs ==
  \A i \in DOMAIN pipes : \A j \in DOMAIN pipes[i] :
     LET e == pipes[i][j] IN
     /\ e.player = game.cur
     /\ \/ e.type \notin {"Turn", "Roll", "WillMove", "StopAction", "EndTurn"}
        \/ ~game.bankrupt[e.player]

(* At each decision the moves left are the roll less the steps on the path *)
(* that cost one, after any number of steps, doorways and undos.           *)
StepsAccounted ==
  Pipe # <<>> /\ Event.type = "WillMove" =>
    Event.total - Event.remaining
      = Cardinality({i \in DOMAIN path : game.kind[path[i]] # "DOORWAY"})

(* A player who stops is standing on the square whose effects he gets,     *)
(* unless a card warped him onto a doorway, which passes him on.           *)
StopsWhereHeStands ==
  Pipe # <<>> /\ Event.type = "StopAction" =>
    \/ game.kind[Event.square] = "DOORWAY"
    \/ Event.square = game.pos[Event.player]

(* Handlers that ask nobody cannot go on for ever among themselves: the    *)
(* loop comes back to a question, to the end of the game or to the bound.  *)
Asks == {"Turn", "WillMove", "InitSellStock", "InitBuyStock", "InitDeal",
         "InitBuyVacantPlot", "InitCannon"}
KeepsAsking ==
  []<>(Pipe = <<>> \/ gameOver \/ Event.type \in Asks
         \/ (Event.type \in {"Roll", "VentureCard"} /\ chances = setup.maxChances))

(* The turns of the game are those of module Rounds: whatever rolls, undos, *)
(* cards and bonus rolls come between, a turn is closed once, its player   *)
(* may be ruined only while it closes, the outcome is judged after that    *)
(* and before the turn passes, and it passes to the first one still in on  *)
(* the way round the table ("turn order advances by the normal             *)
(* player-index cycle", design/technical.md).                              *)
Pending(type) == \E j \in DOMAIN pipes[1] : pipes[1][j].type = type
Stage ==
  IF ~Pending("AdvanceTurn") THEN "play"
  ELSE IF Pending("GameOverCheck") THEN "closing" ELSE "judged"

Table == INSTANCE Rounds WITH
  seats <- setup.players, limit <- setup.maxBankruptcies, cur <- game.cur,
  stage <- Stage, out <- Players \ Active, over <- gameOver, winner <- winner
KeepsRounds == Table!Spec
=============================================================================
