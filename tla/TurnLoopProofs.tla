--------------------------- MODULE TurnLoopProofs ---------------------------
(***************************************************************************)
(* Proofs about the turn loop, for every board, every number of players    *)
(* and walks of any length.                                                *)
(*                                                                         *)
(* None of the properties is inductive: what a handler puts into the       *)
(* pipeline is right only if what waits there already is.  The invariant   *)
(* Inv says of the pipelines that each ends in the one event that carries  *)
(* the turn on, and which events may wait before it; and of a walk, how    *)
(* each snapshot relates to the game as it was and to the game as it is.   *)
(***************************************************************************)
EXTENDS TurnLoop, SequenceTheorems, FiniteSetTheorems, WellFoundedInduction, TLAPS

-----------------------------------------------------------------------------
(* Events, games and snapshots. *)

Squared == {"PassAction", "StopAction", "RotateSuit", "RaiseToll", "PayToll",
            "InitBuyVacantPlot", "BuyVacantPlot"}
Traded == {"BuyStock", "SellStock"}
Bare == EventTypes \ (Squared \cup Traded \cup {"WillMove", "Move", "CollectSuit", "Warp"})

Events ==
  [type : Bare, player : Players]
  \cup [type : Squared, player : Players, square : Squares]
  \cup [type : Traded, player : Players, quantity : Nat]
  \cup [type : {"WillMove"}, player : Players, total : Int, remaining : Int]
  \cup [type : {"Move"}, player : Players, from : Squares, to : Squares]
  \cup [type : {"CollectSuit"}, player : Players, suit : Suits \cup {Wild}]
  \cup [type : {"Warp"}, player : Players, square : Squares, voluntary : {FALSE}]

Held == [Suits \cup {Wild} -> Nat]

Games ==
  [cur : Players, bankrupt : [Players -> BOOLEAN],
   pos : [Players -> Squares], from : [Players -> Squares \cup {None}],
   cash : [Players -> Int], level : [Players -> Nat], suits : [Players -> Held],
   stock : [Players -> Nat], kind : [Squares -> SquareType],
   suit : [Squares -> Suits \cup {None}], toll : [Squares -> Nat],
   owner : [Squares -> Players \cup {None}], fluct : Int, pending : Int]

Snapshots ==
  [pos : Squares, from : Squares \cup {None}, remaining : Int, suits : Held,
   level : Nat, stock : Nat, cash : [Players -> Int],
   suit : [Squares -> Suits \cup {None}], toll : [Squares -> Nat],
   fluct : Int, pending : Int]

Decisions == [game : Games, event : Events]

Types ==
  /\ setup \in Setups /\ game \in Games
  /\ pipes \in Seq(Seq(Events)) /\ pipes # <<>>
  /\ moves \in Seq(Snapshots) /\ path \in Seq(Squares) /\ before \in Seq(Decisions)
  /\ gameOver \in BOOLEAN /\ winner \in Players \cup {None}

-----------------------------------------------------------------------------
(* The pipelines. *)

End(q) == q[Len(q)]

(* What may wait in front of each event that carries the turn on. *)
PassEffects == {"PassAction", "CollectSuit", "RotateSuit", "Promotion", "InitBuyStock",
                "BuyStock", "RaiseToll", "PayToll", "Warp"}
StopEffects == PassEffects \cup
  {"StopAction", "ClearDirectionLock", "InitBuyVacantPlot", "BuyVacantPlot", "InitCannon",
   "VentureCard", "RollAgain", "Victory"}
Ahead ==
  [Turn |-> {"InitSellStock", "SellStock", "InitDeal"}, Roll |-> {},
   WillMove |-> PassEffects \cup {"Move"}, EndTurn |-> StopEffects,
   AdvanceTurn |-> {"LiquidationPhase", "BankruptcyCheck", "Bankruptcy", "StockFluctuation",
                    "TickStatuses", "GameOverCheck"}]

(* What may only wait right before it. *)
Late == {"InitSellStock", "SellStock", "InitDeal", "StopAction", "VentureCard", "RollAgain",
         "GameOverCheck"}

Shaped(q) ==
  q # <<>> =>
    /\ End(q).type \in DOMAIN Ahead
    /\ \A j \in 1 .. Len(q) - 1 :
         /\ q[j].type \in Ahead[End(q).type]
         /\ q[j].type \in Late => j = Len(q) - 1
    /\ End(q).type = "AdvanceTurn" /\ Len(q) > 1 => q[Len(q) - 1].type = "GameOverCheck"

Mine == \A i \in 1 .. Len(pipes) : \A j \in 1 .. Len(pipes[i]) : pipes[i][j].player = game.cur

(* A bonus roll interrupts the drawing of a card, the last effect of a     *)
(* stop: its player's turn is still to be ended.                           *)
Nested ==
  /\ \A i \in 1 .. Len(pipes) - 1 : pipes[i] = <<Of("EndTurn", game.cur)>>
  /\ Len(pipes) > 1 => /\ ~game.bankrupt[game.cur]
                       /\ Pipe # <<>> => End(Pipe).type \in {"Roll", "WillMove", "EndTurn"}

(* Only the events that close a turn may find its player bankrupt; when he *)
(* was the last one, the game is over before the turn is given on.         *)
TurnGoesOn ==
  /\ Pipe = <<>> => setup.staleUndo
  /\ Pipe # <<>> /\ End(Pipe).type # "AdvanceTurn" => ~game.bankrupt[game.cur]
  /\ Pipe # <<>> /\ End(Pipe).type = "AdvanceTurn" /\ Len(Pipe) = 1 => gameOver \/ Active # {}

(* What was true when these events were enqueued is true when they run. *)
Grounded(q, g) ==
  \A j \in 1 .. Len(q) :
    /\ q[j].type = "SellStock" => q[j].quantity <= g.stock[q[j].player]
    /\ q[j].type = "RotateSuit" => g.suit[q[j].square] # None

(* Nothing ahead of a stop moves its player, but off a doorway. *)
StopWaits(q) == Len(q) > 1 /\ q[Len(q) - 1].type = "StopAction"
StopsThere(q, g) ==
  StopWaits(q) =>
    LET stop == q[Len(q) - 1] IN
    /\ \A j \in 1 .. Len(q) - 2 : q[j].type \in PassEffects
    /\ \/ g.kind[stop.square] = "DOORWAY"
       \/ /\ g.pos[g.cur] = stop.square
          /\ \A j \in 1 .. Len(q) - 2 :
               /\ q[j].type # "Warp"
               /\ q[j].type = "PassAction" => q[j].square = stop.square

-----------------------------------------------------------------------------
(* The walk. *)

(* Two games that differ in nothing but what a snapshot holds. *)
Frame(g, h) ==
  /\ h.cur = g.cur /\ h.bankrupt = g.bankrupt /\ h.kind = g.kind /\ h.owner = g.owner
  /\ \A q \in Players \ {g.cur} :
       /\ h.pos[q] = g.pos[q] /\ h.from[q] = g.from[q] /\ h.suits[q] = g.suits[q]
       /\ h.level[q] = g.level[q] /\ h.stock[q] = g.stock[q]

SnapshotOf(g, rem) ==
  LET p == g.cur IN
  [pos |-> g.pos[p], from |-> g.from[p], remaining |-> rem,
   suits |-> g.suits[p], level |-> g.level[p], stock |-> g.stock[p],
   cash |-> g.cash, suit |-> g.suit, toll |-> g.toll,
   fluct |-> g.fluct, pending |-> g.pending]

(* How many of the first n steps cost one. *)
Costs(kinds, x, n) == Cardinality({i \in 1 .. n : kinds[x[i]] # "DOORWAY"})
CostTo(g, n) == Costs(g.kind, path, n)

(* The i-th step of the walk, whose decision was before[i]. *)
StepKept(i, total) ==
  LET b == before[i] IN
  /\ Frame(b.game, game)
  /\ b.event = WillMove(game.cur, total, moves[i].remaining)
  /\ moves[i] = SnapshotOf(b.game, moves[i].remaining)
  /\ total - moves[i].remaining = CostTo(game, i - 1)

WalkKept ==
  LET now == End(Pipe) IN
  /\ Len(moves) = Len(before) /\ Len(path) = Len(before)
  /\ now.total - now.remaining = CostTo(game, Len(path))
  /\ \A i \in 1 .. Len(before) : StepKept(i, now.total)

Walking == Pipe # <<>> /\ End(Pipe).type = "WillMove"

Walks ==
  /\ before # <<>> => Walking \/ StopWaits(Pipe)
  /\ Pipe # <<>> /\ End(Pipe).type = "Roll" => moves = <<>> /\ path = <<>> /\ before = <<>>
  /\ Walking => WalkKept

Inv ==
  /\ Types /\ Shaped(Pipe) /\ Mine /\ Nested /\ TurnGoesOn
  /\ Grounded(Pipe, game) /\ StopsThere(Pipe, game) /\ Walks

-----------------------------------------------------------------------------
(* The records and sequences the model is built from. *)

(* No handler changes the setup, so the sets over it stay the same. *)
LEMMA SameSetup ==
  ASSUME setup' = setup
  PROVE  /\ Players' = Players /\ Squares' = Squares /\ Suits' = Suits
         /\ Events' = Events /\ Held' = Held /\ Games' = Games
         /\ Snapshots' = Snapshots /\ Decisions' = Decisions
<1>1. Players' = Players /\ Squares' = Squares /\ Suits' = Suits
  BY DEF Players, Squares, Suits
<1>2. Events' = Events /\ Held' = Held
  BY <1>1 DEF Events, Held
<1>3. Games' = Games /\ Snapshots' = Snapshots
  BY <1>1, <1>2 DEF Games, Snapshots
<1> QED
  BY <1>1, <1>2, <1>3 DEF Decisions

(* What the fields of an event are, by its type. *)
LEMMA EventFields ==
  ASSUME NEW e \in Events
  PROVE  /\ e.type \in EventTypes /\ e.player \in Players
         /\ e.type \in Squared \cup {"Warp"} => e.square \in Squares
         /\ e.type \in Traded => e.quantity \in Nat
         /\ e.type = "WillMove" =>
              /\ e.total \in Int /\ e.remaining \in Int
              /\ e = WillMove(e.player, e.total, e.remaining)
         /\ e.type = "Move" => e.from \in Squares /\ e.to \in Squares
         /\ e.type = "CollectSuit" => e.suit \in Suits \cup {Wild}
         /\ e.type = "Warp" => e.voluntary = FALSE
         /\ e.type \in Bare => e = Of(e.type, e.player)
<1>1. CASE e \in [type : Bare, player : Players]
  BY <1>1 DEF Bare, Squared, Traded, EventTypes, Of
<1>2. CASE e \in [type : Squared, player : Players, square : Squares]
  BY <1>2 DEF Bare, Squared, Traded, EventTypes
<1>3. CASE e \in [type : Traded, player : Players, quantity : Nat]
  BY <1>3 DEF Bare, Squared, Traded, EventTypes
<1>4. CASE e \in [type : {"WillMove"}, player : Players, total : Int, remaining : Int]
  BY <1>4 DEF Bare, Squared, Traded, EventTypes, WillMove
<1>5. CASE e \in [type : {"Move"}, player : Players, from : Squares, to : Squares]
  BY <1>5 DEF Bare, Squared, Traded, EventTypes
<1>6. CASE e \in [type : {"CollectSuit"}, player : Players, suit : Suits \cup {Wild}]
  BY <1>6 DEF Bare, Squared, Traded, EventTypes
<1>7. CASE e \in [type : {"Warp"}, player : Players, square : Squares, voluntary : {FALSE}]
  BY <1>7 DEF Bare, Squared, Traded, EventTypes
<1> QED
  BY <1>1, <1>2, <1>3, <1>4, <1>5, <1>6, <1>7 DEF Events

(* Every event a handler enqueues has a place in Events. *)
LEMMA MadeEvents ==
  ASSUME NEW p \in Players, NEW s \in Squares
  PROVE  /\ \A type \in Bare : Of(type, p) \in Events
         /\ \A type \in Squared : At(type, p, s) \in Events
         /\ \A type \in Traded : \A qty \in Nat : Stock(type, p, qty) \in Events
         /\ \A total \in Int, rem \in Int : WillMove(p, total, rem) \in Events
         /\ \A t \in Squares : Move(p, s, t) \in Events
         /\ \A suit \in Suits \cup {Wild} : CollectSuit(p, suit) \in Events
         /\ Warp(p, s, FALSE) \in Events
         /\ Turn(p) = Of("Turn", p) /\ Roll(p) = Of("Roll", p)
<1>1. \A type \in Bare : Of(type, p) \in Events
  BY DEF Events, Of
<1>2. \A type \in Squared : At(type, p, s) \in Events
  BY DEF Events, At
<1>3. \A type \in Traded : \A qty \in Nat : Stock(type, p, qty) \in Events
  BY DEF Events, Stock
<1>4. \A total \in Int, rem \in Int : WillMove(p, total, rem) \in Events
  BY DEF Events, WillMove
<1>5. \A t \in Squares : Move(p, s, t) \in Events
  BY DEF Events, Move
<1>6. \A suit \in Suits \cup {Wild} : CollectSuit(p, suit) \in Events
  BY DEF Events, CollectSuit
<1>7. Warp(p, s, FALSE) \in Events
  BY DEF Events, Warp
<1>8. Turn(p) = Of("Turn", p) /\ Roll(p) = Of("Roll", p)
  BY DEF Turn, Roll, Of
<1> QED
  BY <1>1, <1>2, <1>3, <1>4, <1>5, <1>6, <1>7, <1>8

(* The queue after its head was taken off and es put in front. *)
LEMMA FrontOf ==
  ASSUME NEW S, NEW q \in Seq(S), q # <<>>, NEW es \in Seq(S)
  PROVE  LET new == es \o Tail(q) IN
         /\ new \in Seq(S) /\ Len(new) = Len(es) + Len(q) - 1
         /\ Len(q) \in Nat \ {0} /\ Len(es) \in Nat
         /\ \A j \in 1 .. Len(es) : new[j] = es[j]
         /\ \A j \in Len(es) + 1 .. Len(new) : new[j] = q[j - Len(es) + 1]
         /\ Len(q) > 1 => new # <<>> /\ End(new) = End(q)
<1> DEFINE new == es \o Tail(q)
<1>1. /\ Tail(q) \in Seq(S) /\ Len(Tail(q)) = Len(q) - 1 /\ Len(q) \in Nat \ {0}
      /\ \A i \in 1 .. Len(q) - 1 : Tail(q)[i] = q[i + 1]
  BY HeadTailProperties, EmptySeq, LenProperties
<1>2. /\ new \in Seq(S) /\ Len(new) = Len(es) + Len(q) - 1 /\ Len(es) \in Nat
      /\ \A j \in 1 .. Len(new) :
           new[j] = IF j <= Len(es) THEN es[j] ELSE Tail(q)[j - Len(es)]
  BY <1>1, ConcatProperties, LenProperties
<1>3. \A j \in Len(es) + 1 .. Len(new) : new[j] = q[j - Len(es) + 1]
  <2> TAKE j \in Len(es) + 1 .. Len(new)
  <2>1. j - Len(es) \in 1 .. Len(q) - 1 /\ ~(j <= Len(es)) /\ j \in 1 .. Len(new)
    BY <1>1, <1>2
  <2> QED  BY <2>1, <1>1, <1>2
<1>4. ASSUME Len(q) > 1 PROVE new # <<>> /\ End(new) = End(q)
  <2>1. Len(new) \in Len(es) + 1 .. Len(new) /\ Len(new) - Len(es) + 1 = Len(q)
    BY <1>1, <1>2, <1>4
  <2>2. new # <<>>
    BY <2>1, <1>1, <1>2, <1>4, EmptySeq
  <2> QED  BY <2>1, <2>2, <1>3 DEF End
<1> QED
  BY <1>1, <1>2, <1>3, <1>4

(* The running pipeline is set, and the ones it interrupts stay. *)
LEMMA PipeSet ==
  ASSUME NEW S, pipes \in Seq(Seq(S)), pipes # <<>>, NEW q \in Seq(S), SetPipe(q)
  PROVE  /\ pipes' \in Seq(Seq(S)) /\ pipes' # <<>> /\ Len(pipes') = Len(pipes)
         /\ Len(pipes) \in Nat \ {0}
         /\ pipes' [Len(pipes')] = q /\ Pipe \in Seq(S)
         /\ \A i \in 1 .. Len(pipes) - 1 : pipes'[i] = pipes[i]
<1>1. Len(pipes) \in 1 .. Len(pipes) /\ Len(pipes) \in Nat \ {0}
  <2>1. Len(pipes) \in Nat \ {0}
    BY EmptySeq
  <2> QED  BY <2>1
<1>2. /\ pipes' \in Seq(Seq(S)) /\ Len(pipes') = Len(pipes)
      /\ \A j \in 1 .. Len(pipes) :
           pipes'[j] = IF j = Len(pipes) THEN q ELSE pipes[j]
  BY <1>1, ExceptSeq DEF SetPipe
<1>3. Pipe \in Seq(S)
  BY <1>1, ElementOfSeq DEF Pipe
<1> QED
  BY <1>1, <1>2, <1>3, EmptySeq

(* A stack without its last element. *)
LEMMA Shortened ==
  ASSUME NEW S, NEW q \in Seq(S), q # <<>>
  PROVE  LET t == SubSeq(q, 1, Len(q) - 1) IN
         /\ t \in Seq(S) /\ Len(t) = Len(q) - 1 /\ Len(q) \in Nat \ {0}
         /\ \A i \in 1 .. Len(q) - 1 : t[i] = q[i]
<1>1. Len(q) \in Nat \ {0}
  BY EmptySeq
<1>2. \A i \in 1 .. Len(q) - 1 : q[i] \in S
  BY <1>1, ElementOfSeq
<1> DEFINE t == SubSeq(q, 1, Len(q) - 1)
<1>3. /\ t \in Seq(S) /\ Len(t) = IF 1 <= Len(q) - 1 THEN Len(q) - 1 - 1 + 1 ELSE 0
      /\ \A i \in 1 .. Len(q) - 1 - 1 + 1 : t[i] = q[1 + i - 1]
  BY <1>1, <1>2, SubSeqProperties
<1> HIDE DEF t
<1>4. Len(t) = Len(q) - 1
  <2>1. PICK n \in Nat \ {0} : Len(q) = n
    BY <1>1
  <2>2. Len(t) = IF 1 <= n - 1 THEN n - 1 - 1 + 1 ELSE 0
    BY <2>1, <1>3
  <2>3. (IF 1 <= n - 1 THEN n - 1 - 1 + 1 ELSE 0) = n - 1
    OBVIOUS
  <2> QED  BY <2>1, <2>2, <2>3
<1>5. \A i \in 1 .. Len(q) - 1 : t[i] = q[i]
  BY <1>1, <1>3
<1> QED
  BY <1>1, <1>3, <1>4, <1>5 DEF t

(* The event at the head and the events behind it, by the kind of the head. *)
LEMMA HeadPlace ==
  ASSUME Inv, Pipe # <<>>
  PROVE  /\ Pipe \in Seq(Events) /\ Len(Pipe) \in Nat \ {0}
         /\ Event = Pipe[1] /\ Event \in Events /\ Event.player = game.cur
         /\ game.cur \in Players
         /\ End(Pipe) \in Events /\ End(Pipe).player = game.cur
         /\ End(Pipe).type \in DOMAIN Ahead
         /\ Event.type \in DOMAIN Ahead => Len(Pipe) = 1 /\ End(Pipe) = Event
         /\ Event.type \notin DOMAIN Ahead =>
              /\ Len(Pipe) > 1 /\ Event.type \in Ahead[End(Pipe).type]
              /\ Event.type \in Late => Len(Pipe) = 2
<1>1. /\ Pipe \in Seq(Events) /\ Len(Pipe) \in Nat \ {0} /\ Len(pipes) \in 1 .. Len(pipes)
      /\ game.cur \in Players
  <2>1. Len(pipes) \in 1 .. Len(pipes) /\ Len(pipes) \in Nat \ {0}
    <3>1. pipes \in Seq(Seq(Events)) /\ pipes # <<>>
      BY DEF Inv, Types
    <3>2. Len(pipes) \in Nat \ {0}
      BY <3>1, EmptySeq
    <3> QED  BY <3>2
  <2>2. Pipe \in Seq(Events)
    BY <2>1, ElementOfSeq DEF Pipe, Inv, Types
  <2>3. game.cur \in Players
    BY DEF Inv, Types, Games
  <2> QED  BY <2>1, <2>2, <2>3, EmptySeq
<1>2. Event = Pipe[1] /\ Pipe[1] \in Events /\ End(Pipe) \in Events
  BY <1>1, ElementOfSeq DEF Event, End
<1>3. Event.player = game.cur /\ End(Pipe).player = game.cur
  BY <1>1, <1>2 DEF Inv, Mine, Pipe, End
<1>4. /\ End(Pipe).type \in DOMAIN Ahead
      /\ Len(Pipe) > 1 => /\ Event.type \in Ahead[End(Pipe).type]
                          /\ Event.type \in Late => 1 = Len(Pipe) - 1
  <2>1. Shaped(Pipe)
    BY DEF Inv
  <2>2. Len(Pipe) > 1 => 1 \in 1 .. Len(Pipe) - 1
    BY <1>1
  <2> QED  BY <2>1, <2>2, <1>2 DEF Shaped
<1>5. \A t \in DOMAIN Ahead : Ahead[t] \cap DOMAIN Ahead = {}
  BY DEF Ahead, PassEffects, StopEffects
<1>6. Len(Pipe) = 1 => End(Pipe) = Event
  BY <1>2 DEF End
<1>7. CASE Len(Pipe) = 1
  BY <1>1, <1>2, <1>3, <1>4, <1>6, <1>7
<1>8. CASE Len(Pipe) > 1
  <2>1. Event.type \notin DOMAIN Ahead
    BY <1>4, <1>5, <1>8
  <2>2. Event.type \in Late => Len(Pipe) = 2
    BY <1>1, <1>4, <1>8
  <2> QED  BY <1>1, <1>2, <1>3, <1>4, <1>8, <2>1, <2>2
<1>9. Len(Pipe) = 1 \/ Len(Pipe) > 1
  BY <1>1
<1> QED
  BY <1>7, <1>8, <1>9, Zenon

(* The parts of the invariant that look at all pipelines hold again when   *)
(* the running one is replaced by events of the current player.            *)
LEMMA NewPipe ==
  ASSUME Inv, NEW q \in Seq(Events), SetPipe(q), setup' = setup, game' \in Games,
         moves' \in Seq(Snapshots), path' \in Seq(Squares), before' \in Seq(Decisions),
         gameOver' \in BOOLEAN, winner' \in Players \cup {None},
         \A j \in 1 .. Len(q) : q[j].player = game'.cur,
         Len(pipes) > 1 =>
           /\ game'.cur = game.cur /\ game'.bankrupt[game.cur] = game.bankrupt[game.cur]
           /\ q # <<>> => End(q).type \in {"Roll", "WillMove", "EndTurn"}
  PROVE  Types' /\ Mine' /\ Nested' /\ Pipe' = q /\ Len(pipes') = Len(pipes)
<1>1. pipes \in Seq(Seq(Events)) /\ pipes # <<>>
  BY DEF Inv, Types
<1>2. /\ pipes' \in Seq(Seq(Events)) /\ pipes' # <<>> /\ Len(pipes') = Len(pipes)
      /\ Len(pipes) \in Nat \ {0} /\ pipes'[Len(pipes')] = q
      /\ \A i \in 1 .. Len(pipes) - 1 : pipes'[i] = pipes[i]
  BY <1>1, PipeSet
<1>3. Pipe' = q
  BY <1>2 DEF Pipe
<1>4. Types'
  BY <1>2, SameSetup DEF Types, Inv
<1>5. Mine'
  <2> SUFFICES ASSUME NEW i \in 1 .. Len(pipes), NEW j \in 1 .. Len(pipes'[i])
               PROVE  pipes'[i][j].player = game'.cur
    BY <1>2 DEF Mine
  <2>1. CASE i = Len(pipes)
    BY <2>1, <1>2
  <2>2. CASE i # Len(pipes)
    <3>1. i \in 1 .. Len(pipes) - 1 /\ Len(pipes) > 1
      BY <2>2, <1>2
    <3> QED  BY <3>1, <1>2 DEF Inv, Mine
  <2> QED  BY <2>1, <2>2
<1>6. Nested'
  BY <1>2, <1>3 DEF Nested, Inv
<1> QED
  BY <1>2, <1>3, <1>4, <1>5, <1>6

-----------------------------------------------------------------------------
(* Handling an event in front of the one that carries the turn on. *)

(* What was true of the events that stay is still true of them. *)
LEMMA GroundedFront ==
  ASSUME Inv, Pipe # <<>>, Event.type \notin DOMAIN Ahead, NEW es \in Seq(Events), NEW g,
         \A s \in Squares : game.suit[s] # None => g.suit[s] # None,
         \A j \in 1 .. Len(es) :
           /\ es[j].type = "SellStock" => es[j].quantity <= g.stock[es[j].player]
           /\ es[j].type = "RotateSuit" => g.suit[es[j].square] # None
  PROVE  Grounded(es \o Tail(Pipe), g)
<1> DEFINE new == es \o Tail(Pipe)
<1>1. /\ Pipe \in Seq(Events) /\ Len(Pipe) \in Nat /\ Len(Pipe) > 1
      /\ End(Pipe).type \in DOMAIN Ahead
      /\ Event = Pipe[1] /\ Event.type \in Ahead[End(Pipe).type]
      /\ Event.type \in Late => Len(Pipe) = 2
  BY HeadPlace
<1>2. /\ Len(new) = Len(es) + Len(Pipe) - 1 /\ Len(es) \in Nat
      /\ \A j \in 1 .. Len(es) : new[j] = es[j]
      /\ \A j \in Len(es) + 1 .. Len(new) : new[j] = Pipe[j - Len(es) + 1]
  BY <1>1, FrontOf
<1>3. ASSUME NEW i \in 2 .. Len(Pipe)
      PROVE  /\ Pipe[i] \in Events /\ Pipe[i].type # "SellStock"
             /\ Pipe[i].type = "RotateSuit" => game.suit[Pipe[i].square] # None
  <2>1. Pipe[i] \in Events /\ i \in 1 .. Len(Pipe)
    BY <1>1, ElementOfSeq
  <2>2. Pipe[i].type = "RotateSuit" => game.suit[Pipe[i].square] # None
    BY <2>1 DEF Inv, Grounded
  <2>3. SUFFICES ASSUME Pipe[i].type = "SellStock" PROVE FALSE
    BY <2>1, <2>2
  <2>4. i \in 1 .. Len(Pipe) - 1
    BY <1>1, <2>3 DEF End, Ahead
  <2>5. Shaped(Pipe)
    BY DEF Inv
  <2>6. Pipe[i].type \in Ahead[End(Pipe).type] /\ (Pipe[i].type \in Late => i = Len(Pipe) - 1)
    BY <2>4, <2>5, <1>1 DEF Shaped
  <2>7. End(Pipe).type = "Turn"
    BY <1>1, <2>6, <2>3 DEF Ahead, StopEffects, PassEffects
  <2>8. Event.type \in Late
    <3>1. Ahead["Turn"] \subseteq Late
      BY DEF Ahead, Late
    <3> QED  BY <1>1, <2>7, <3>1
  <2>9. Len(Pipe) = 2
    BY <2>8, <1>1
  <2> QED  BY <2>4, <2>9
<1> SUFFICES ASSUME NEW j \in 1 .. Len(new)
             PROVE  /\ new[j].type = "SellStock" => new[j].quantity <= g.stock[new[j].player]
                    /\ new[j].type = "RotateSuit" => g.suit[new[j].square] # None
  BY DEF Grounded
<1> HIDE DEF new
<1>4. CASE j <= Len(es)
  <2>1. j \in 1 .. Len(es)
    BY <1>2, <1>4
  <2> QED  BY <2>1, <1>2
<1>5. CASE ~(j <= Len(es))
  <2>1. j \in Len(es) + 1 .. Len(new) /\ j - Len(es) + 1 \in 2 .. Len(Pipe)
    BY <1>1, <1>2, <1>5
  <2>2. PICK i \in 2 .. Len(Pipe) : new[j] = Pipe[i]
    BY <2>1, <1>2
  <2>3. Pipe[i].type = "RotateSuit" => Pipe[i].square \in Squares
    BY <1>3, EventFields DEF Squared
  <2> QED  BY <2>2, <2>3, <1>3
<1> QED
  BY <1>4, <1>5

(* A stop that waits still finds its player on its square. *)
LEMMA StopsThereFront ==
  ASSUME Inv, Pipe # <<>>, Event.type \notin DOMAIN Ahead, NEW es \in Seq(Events), NEW g,
         \A j \in 1 .. Len(es) : es[j].type # "StopAction",
         Event.type \in PassEffects /\ StopWaits(Pipe) =>
           /\ g.kind = game.kind /\ g.cur = game.cur
           /\ \A j \in 1 .. Len(es) : es[j].type \in PassEffects
           /\ \/ game.kind[Pipe[Len(Pipe) - 1].square] = "DOORWAY"
              \/ /\ g.pos[game.cur] = game.pos[game.cur]
                 /\ \A j \in 1 .. Len(es) : es[j].type \notin {"Warp", "PassAction"}
  PROVE  /\ StopsThere(es \o Tail(Pipe), g)
         /\ StopWaits(Pipe) /\ Event.type # "StopAction" => StopWaits(es \o Tail(Pipe))
<1> DEFINE new == es \o Tail(Pipe)
<1>1. /\ Pipe \in Seq(Events) /\ Len(Pipe) \in Nat /\ Len(Pipe) > 1 /\ Event = Pipe[1]
  BY HeadPlace
<1>2. /\ Len(new) = Len(es) + Len(Pipe) - 1 /\ Len(es) \in Nat
      /\ \A j \in 1 .. Len(es) : new[j] = es[j]
      /\ \A j \in Len(es) + 1 .. Len(new) : new[j] = Pipe[j - Len(es) + 1]
  BY <1>1, FrontOf
<1> HIDE DEF new
<1>3. ASSUME StopWaits(Pipe), Event.type # "StopAction"
      PROVE  StopWaits(new) /\ Len(Pipe) > 2 /\ new[Len(new) - 1] = Pipe[Len(Pipe) - 1]
  <2>1. Len(Pipe) > 2
    BY <1>1, <1>3 DEF StopWaits
  <2>2. /\ Len(new) - 1 \in Len(es) + 1 .. Len(new) /\ Len(new) > 1
        /\ Len(new) - 1 - Len(es) + 1 = Len(Pipe) - 1
    BY <1>1, <1>2, <2>1
  <2>3. new[Len(new) - 1] = Pipe[Len(Pipe) - 1]
    BY <2>2, <1>2
  <2> QED  BY <2>1, <2>2, <2>3, <1>3 DEF StopWaits
<1>4. ASSUME StopWaits(new)
      PROVE  StopWaits(Pipe) /\ Len(Pipe) > 2 /\ new[Len(new) - 1] = Pipe[Len(Pipe) - 1]
  <2>1. Len(new) > 1 /\ new[Len(new) - 1].type = "StopAction"
    BY <1>4 DEF StopWaits
  <2>2. ~(Len(new) - 1 <= Len(es))
    <3>1. SUFFICES ASSUME Len(new) - 1 <= Len(es) PROVE FALSE
      OBVIOUS
    <3>2. Len(new) - 1 \in 1 .. Len(es)
      BY <3>1, <2>1, <1>1, <1>2
    <3> QED  BY <3>2, <2>1, <1>2
  <2>3. /\ Len(new) - 1 \in Len(es) + 1 .. Len(new) /\ Len(Pipe) > 2
        /\ Len(new) - 1 - Len(es) + 1 = Len(Pipe) - 1
    BY <2>2, <1>1, <1>2
  <2>4. new[Len(new) - 1] = Pipe[Len(Pipe) - 1]
    BY <2>3, <1>2
  <2> QED  BY <2>1, <2>3, <2>4 DEF StopWaits
<1>5. StopsThere(new, g)
  <2>1. SUFFICES ASSUME StopWaits(new)
                 PROVE LET stop == new[Len(new) - 1] IN
                       /\ \A j \in 1 .. Len(new) - 2 : new[j].type \in PassEffects
                       /\ \/ g.kind[stop.square] = "DOORWAY"
                          \/ /\ g.pos[g.cur] = stop.square
                             /\ \A j \in 1 .. Len(new) - 2 :
                                  /\ new[j].type # "Warp"
                                  /\ new[j].type = "PassAction" => new[j].square = stop.square
    BY DEF StopsThere
  <2> DEFINE stop == Pipe[Len(Pipe) - 1]
  <2>2. StopWaits(Pipe) /\ Len(Pipe) > 2 /\ new[Len(new) - 1] = stop
    BY <2>1, <1>4
  <2>3. /\ \A j \in 1 .. Len(Pipe) - 2 : Pipe[j].type \in PassEffects
        /\ \/ game.kind[stop.square] = "DOORWAY"
           \/ /\ game.pos[game.cur] = stop.square
              /\ \A j \in 1 .. Len(Pipe) - 2 :
                   /\ Pipe[j].type # "Warp"
                   /\ Pipe[j].type = "PassAction" => Pipe[j].square = stop.square
    BY <2>2 DEF Inv, StopsThere
  <2>4. Event.type \in PassEffects
    BY <2>2, <2>3, <1>1
  <2> HIDE DEF stop
  <2>5. /\ g.kind = game.kind /\ g.cur = game.cur
        /\ \A j \in 1 .. Len(es) : es[j].type \in PassEffects
        /\ \/ game.kind[stop.square] = "DOORWAY"
           \/ /\ g.pos[game.cur] = game.pos[game.cur]
              /\ \A j \in 1 .. Len(es) : es[j].type \notin {"Warp", "PassAction"}
    BY <2>2, <2>4 DEF stop
  <2>6. ASSUME NEW j \in 1 .. Len(new) - 2
        PROVE  \/ j \in 1 .. Len(es) /\ new[j] = es[j]
               \/ \E i \in 1 .. Len(Pipe) - 2 : new[j] = Pipe[i]
    <3>1. CASE j <= Len(es)
      BY <3>1, <1>1, <1>2
    <3>2. CASE ~(j <= Len(es))
      <4>1. /\ j \in Len(es) + 1 .. Len(new) /\ j - Len(es) + 1 \in 1 .. Len(Pipe) - 2
        BY <3>2, <1>1, <1>2, <2>2
      <4> QED  BY <4>1, <1>2
    <3> QED  BY <3>1, <3>2
  <2>7. \A j \in 1 .. Len(new) - 2 : new[j].type \in PassEffects
    BY <2>3, <2>5, <2>6
  <2>8. CASE game.kind[stop.square] = "DOORWAY"
    BY <2>2, <2>5, <2>7, <2>8
  <2>9. CASE game.kind[stop.square] # "DOORWAY"
    <3>1. g.pos[g.cur] = stop.square
      BY <2>3, <2>5, <2>9
    <3>2. \A j \in 1 .. Len(new) - 2 :
            /\ new[j].type # "Warp"
            /\ new[j].type = "PassAction" => new[j].square = stop.square
      BY <2>3, <2>5, <2>6, <2>9
    <3> QED  BY <2>2, <2>7, <3>1, <3>2
  <2> QED  BY <2>8, <2>9
<1> QED
  BY <1>3, <1>5 DEF new

(* The general case: the head is replaced by events that may wait there. *)
LEMMA AsideKeeps ==
  ASSUME Inv, Pipe # <<>>, Event.type \notin DOMAIN Ahead, NEW es \in Seq(Events),
         PutFront(es), UNCHANGED <<setup, moves, path>>,
         before' = IF Event.type = "StopAction" THEN <<>> ELSE before,
         gameOver' \in BOOLEAN, winner' \in Players \cup {None},
         game' \in Games, game'.cur = game.cur,
         End(Pipe).type # "AdvanceTurn" => game'.bankrupt[game.cur] = game.bankrupt[game.cur],
         End(Pipe).type = "AdvanceTurn" /\ Len(Pipe) = 2 =>
           es = <<>> /\ (gameOver' \/ Active' # {}),
         \A j \in 1 .. Len(es) :
           /\ es[j].player = game.cur /\ es[j].type \in Ahead[End(Pipe).type]
           /\ es[j].type \in Late => j = Len(es) /\ Len(Pipe) = 2,
         Grounded(es \o Tail(Pipe), game'), StopsThere(es \o Tail(Pipe), game'),
         StopWaits(Pipe) /\ Event.type # "StopAction" => StopWaits(es \o Tail(Pipe)),
         End(Pipe).type = "WillMove" => Frame(game, game')
  PROVE  Inv'
<1> DEFINE new == es \o Tail(Pipe)
<1>1. /\ Pipe \in Seq(Events) /\ Len(Pipe) \in Nat /\ Len(Pipe) > 1
      /\ Event = Pipe[1] /\ game.cur \in Players
      /\ End(Pipe) \in Events /\ End(Pipe).type \in DOMAIN Ahead
      /\ Event.type \in Ahead[End(Pipe).type]
      /\ Event.type \in Late => Len(Pipe) = 2
  BY HeadPlace
<1>2. /\ new \in Seq(Events)
      /\ Len(new) = Len(es) + Len(Pipe) - 1 /\ Len(es) \in Nat
      /\ \A j \in 1 .. Len(es) : new[j] = es[j]
      /\ \A j \in Len(es) + 1 .. Len(new) : new[j] = Pipe[j - Len(es) + 1]
      /\ new # <<>> /\ End(new) = End(Pipe)
  BY <1>1, FrontOf
<1>3. /\ \A j \in 1 .. Len(Pipe) : Pipe[j].player = game.cur
      /\ Shaped(Pipe)
      /\ Len(pipes) > 1 => End(Pipe).type \in {"Roll", "WillMove", "EndTurn"}
  <2>1. Len(pipes) \in 1 .. Len(pipes)
    <3>1. Len(pipes) \in Nat \ {0}
      BY EmptySeq DEF Inv, Types
    <3> QED  BY <3>1
  <2> QED  BY <2>1 DEF Inv, Mine, Nested, Pipe
<1>4. SetPipe(new)
  BY DEF PutFront
<1> HIDE DEF new
<1>11. /\ Len(Pipe) \in Nat /\ Len(es) \in Nat /\ Len(Pipe) > 1
      /\ Len(new) = Len(es) + Len(Pipe) - 1
  BY <1>1, <1>2
<1>12. PICK n \in Nat, k \in Nat : Len(Pipe) = n /\ Len(es) = k
  BY <1>11
<1>13. n > 1 /\ Len(new) = k + n - 1
  BY <1>11, <1>12
<1>5. ASSUME NEW j \in 1 .. Len(new)
      PROVE  \/ /\ j \in 1 .. Len(es) /\ new[j] = es[j]
                /\ j = Len(es) /\ Len(Pipe) = 2 => j = Len(new) - 1
             \/ \E i \in 2 .. Len(Pipe) :
                  new[j] = Pipe[i] /\ (i = Len(Pipe) <=> j = Len(new))
                    /\ (i = Len(Pipe) - 1 <=> j = Len(new) - 1)
  <2>1. CASE j <= Len(es)
    <3>1. j \in 1 .. Len(es) /\ (j = Len(es) /\ Len(Pipe) = 2 => j = Len(new) - 1)
      <4>1. j <= k => j \in 1 .. k
        BY <1>13
      <4>2. j = k /\ n = 2 => j = k + n - 1 - 1
        BY <1>13
      <4> QED  BY <2>1, <4>1, <4>2, <1>12, <1>13
    <3> QED  BY <3>1, <1>2
  <2>2. CASE ~(j <= Len(es))
    <3>1. /\ j \in Len(es) + 1 .. Len(new) /\ j - Len(es) + 1 \in 2 .. Len(Pipe)
          /\ j - Len(es) + 1 = Len(Pipe) <=> j = Len(new)
          /\ j - Len(es) + 1 = Len(Pipe) - 1 <=> j = Len(new) - 1
      BY <2>2, <1>1, <1>2
    <3> QED  BY <3>1, <1>2
  <2> QED  BY <2>1, <2>2
<1>6. \A j \in 1 .. Len(new) : new[j].player = game.cur
  <2> TAKE j \in 1 .. Len(new)
  <2>1. \A i \in 2 .. Len(Pipe) : Pipe[i].player = game.cur
    BY <1>1, <1>3
  <2> QED  BY <2>1, <1>5
<1>7. Types' /\ Mine' /\ Nested' /\ Pipe' = new
  <2>1. moves' \in Seq(Snapshots) /\ path' \in Seq(Squares) /\ before' \in Seq(Decisions)
    BY EmptySeq DEF Inv, Types
  <2>2. Len(pipes) > 1 =>
          /\ game'.cur = game.cur /\ game'.bankrupt[game.cur] = game.bankrupt[game.cur]
          /\ new # <<>> => End(new).type \in {"Roll", "WillMove", "EndTurn"}
    BY <1>2, <1>3
  <2> QED  BY <1>2, <1>4, <1>6, <2>1, <2>2, NewPipe
<1>8. Shaped(new)
  <2>1. ASSUME NEW j \in 1 .. Len(new) - 1
        PROVE  /\ new[j].type \in Ahead[End(Pipe).type]
               /\ new[j].type \in Late => j = Len(new) - 1
    <3>1. j \in 1 .. Len(new) /\ j # Len(new)
      BY <1>1, <1>2
    <3>2. CASE /\ j \in 1 .. Len(es) /\ new[j] = es[j]
               /\ j = Len(es) /\ Len(Pipe) = 2 => j = Len(new) - 1
      BY <3>2
    <3>3. CASE \E i \in 2 .. Len(Pipe) :
                  new[j] = Pipe[i] /\ (i = Len(Pipe) <=> j = Len(new))
                    /\ (i = Len(Pipe) - 1 <=> j = Len(new) - 1)
      <4>1. PICK i \in 2 .. Len(Pipe) :
                  new[j] = Pipe[i] /\ (i = Len(Pipe) <=> j = Len(new))
                    /\ (i = Len(Pipe) - 1 <=> j = Len(new) - 1)
        BY <3>3
      <4>2. i \in 1 .. Len(Pipe) - 1
        BY <4>1, <3>1, <1>1
      <4>3. Pipe[i].type \in Ahead[End(Pipe).type] /\ (Pipe[i].type \in Late => i = Len(Pipe) - 1)
        BY <4>2, <1>3 DEF Shaped
      <4> QED  BY <4>1, <4>3
    <3> QED  BY <3>1, <3>2, <3>3, <1>5
  <2>2. ASSUME End(Pipe).type = "AdvanceTurn", Len(new) > 1
        PROVE  new[Len(new) - 1].type = "GameOverCheck"
    <3>1. Len(Pipe) > 2
      <4>1. CASE Len(Pipe) = 2
        <5>1. es = <<>>
          BY <4>1, <2>2
        <5>2. Len(es) = 0
          BY <5>1, EmptySeq
        <5>3. k + n - 1 > 1 /\ k = 0 /\ n = 2
          BY <5>2, <4>1, <2>2, <1>12, <1>13
        <5> QED  BY <5>3
      <4>2. n = 2 \/ n > 2
        BY <1>13
      <4> QED  BY <4>1, <4>2, <1>12
    <3>2. Pipe[Len(Pipe) - 1].type = "GameOverCheck"
      BY <2>2, <1>3, <1>1, <3>1, EmptySeq DEF Shaped
    <3>3. /\ Len(new) - 1 \in Len(es) + 1 .. Len(new)
          /\ Len(new) - 1 - Len(es) + 1 = Len(Pipe) - 1
      BY <3>1, <1>1, <1>2
    <3> QED  BY <3>2, <3>3, <1>2
  <2> QED  BY <2>1, <2>2, <1>1, <1>2 DEF Shaped
<1>9. TurnGoesOn'
  <2>1. new # <<>> /\ End(new) = End(Pipe)
    BY <1>2
  <2>2. End(Pipe).type # "AdvanceTurn" => ~game'.bankrupt[game'.cur]
    BY DEF Inv, TurnGoesOn
  <2>3. ASSUME End(Pipe).type = "AdvanceTurn", Len(new) = 1
        PROVE  gameOver' \/ Active' # {}
    <3>1. Len(Pipe) = 2
      <4>1. k + n - 1 = 1 => n = 2
        BY <1>13
      <4> QED  BY <2>3, <4>1, <1>12, <1>13
    <3> QED  BY <3>1, <2>3
  <2> QED  BY <1>7, <2>1, <2>2, <2>3 DEF TurnGoesOn
<1>10. Walks'
  <2>1. before' # <<>> => (new # <<>> /\ End(new).type = "WillMove") \/ StopWaits(new)
    BY <1>2 DEF Inv, Walks, Walking, new
  <2>2. End(new).type = "Roll" => moves' = <<>> /\ path' = <<>> /\ before' = <<>>
    BY <1>2 DEF Inv, Walks
  <2>3. ASSUME End(new).type = "WillMove" PROVE WalkKept'
    <3>1. WalkKept /\ Frame(game, game') /\ End(Pipe).type = "WillMove"
      BY <2>3, <1>2 DEF Inv, Walks, Walking
    <3>2. before' = before
      <4>1. "StopAction" \notin Ahead["WillMove"]
        BY DEF Ahead, PassEffects
      <4> QED  BY <4>1, <3>1, <1>1
    <3>3. Players' = Players
      BY SameSetup
    <3>4. game'.kind = game.kind /\ game'.cur = game.cur
      BY <3>1 DEF Frame
    <3>5. \A m : CostTo(game, m)' = CostTo(game, m)
      BY <3>4 DEF CostTo
    <3>6. \A i \in 1 .. Len(before) : Frame(before[i].game, game)' 
      <4> TAKE i \in 1 .. Len(before)
      <4>1. Frame(before[i].game, game)
        BY <3>1 DEF WalkKept, StepKept
      <4> QED  BY <4>1, <3>1, <3>2, <3>3 DEF Frame
    <3>7. End(Pipe)' = End(Pipe)
      BY <1>7, <1>2
    <3>8. ASSUME NEW i \in 1 .. Len(before) PROVE StepKept(i, End(Pipe).total)'
      <4>1. StepKept(i, End(Pipe).total)
        BY <3>1 DEF WalkKept
      <4> QED  BY <4>1, <3>2, <3>4, <3>5, <3>6, <3>7 DEF StepKept
    <3> QED  BY <3>1, <3>2, <3>5, <3>7, <3>8 DEF WalkKept
  <2> QED  BY <1>7, <2>1, <2>2, <2>3 DEF Walks, Walking
<1> QED
  BY <1>7, <1>8, <1>9, <1>10 DEF Inv, new

(* Which event carries the turn on behind each kind of effect. *)
LEMMA EndPlace ==
  ASSUME Inv, Pipe # <<>>, Event.type \notin DOMAIN Ahead
  PROVE  /\ Event.type \in {"InitDeal", "InitSellStock", "SellStock"} =>
              End(Pipe).type = "Turn" /\ Len(Pipe) = 2
         /\ Event.type = "Move" => End(Pipe).type = "WillMove"
         /\ Event.type \in PassEffects => End(Pipe).type \in {"WillMove", "EndTurn"}
         /\ Event.type \in StopEffects \ PassEffects => End(Pipe).type = "EndTurn"
         /\ Event.type \in Ahead.AdvanceTurn => End(Pipe).type = "AdvanceTurn"
         /\ Event.type \in Late => Len(Pipe) = 2
         /\ End(Pipe).type = "AdvanceTurn" /\ Len(Pipe) = 2 => Event.type = "GameOverCheck"
<1>1. /\ End(Pipe).type \in DOMAIN Ahead /\ Event.type \in Ahead[End(Pipe).type]
      /\ Event.type \in Late => Len(Pipe) = 2
      /\ Event = Pipe[1]
  BY HeadPlace
<1>2. End(Pipe).type = "AdvanceTurn" /\ Len(Pipe) = 2 => Event.type = "GameOverCheck"
  BY <1>1 DEF Inv, Shaped
<1>3. Event.type \in {"InitDeal", "InitSellStock", "SellStock"} =>
              End(Pipe).type = "Turn" /\ Len(Pipe) = 2
  BY <1>1 DEF Ahead, StopEffects, PassEffects, Late
<1>4. Event.type = "Move" => End(Pipe).type = "WillMove"
  BY <1>1 DEF Ahead, StopEffects, PassEffects
<1>5. Event.type \in PassEffects => End(Pipe).type \in {"WillMove", "EndTurn"}
  BY <1>1 DEF Ahead, PassEffects
<1>6. Event.type \in StopEffects \ PassEffects => End(Pipe).type = "EndTurn"
  BY <1>1 DEF Ahead, StopEffects, PassEffects
<1>7. Event.type \in Ahead.AdvanceTurn => End(Pipe).type = "AdvanceTurn"
  BY <1>1 DEF Ahead, StopEffects, PassEffects
<1> QED
  BY <1>1, <1>2, <1>3, <1>4, <1>5, <1>6, <1>7

(* The head is taken off and the game changed by it. *)
LEMMA ConsumeKeeps ==
  ASSUME Inv, Pipe # <<>>, Event.type \notin DOMAIN Ahead, Event.type # "StopAction",
         Consume, UNCHANGED <<setup, moves, path, before>>,
         gameOver' \in BOOLEAN, winner' \in Players \cup {None},
         game' \in Games, game'.cur = game.cur,
         Event.type # "Bankruptcy" => game'.bankrupt = game.bankrupt,
         Event.type = "GameOverCheck" => gameOver' \/ Active' # {},
         Event.type # "RotateSuit" => game'.suit = game.suit,
         \A s \in Squares : game.suit[s] # None => game'.suit[s] # None,
         Event.type \in PassEffects => game'.kind = game.kind,
         Event.type \in PassEffects \ {"Warp"} => game'.pos = game.pos,
         Event.type \in PassEffects \cup {"Move"} => Frame(game, game')
  PROVE  Inv'
<1>1. <<>> \in Seq(Events) /\ Len(<<>>) = 0 /\ \A j : j \notin 1 .. Len(<<>>)
  BY EmptySeq
<1>2. /\ Event = Pipe[1] /\ Event.type \in Ahead[End(Pipe).type]
      /\ End(Pipe).type \in DOMAIN Ahead /\ Len(Pipe) \in Nat
  BY HeadPlace
<1>3. Grounded(<<>> \o Tail(Pipe), game')
  BY <1>1, GroundedFront
<1>4. ASSUME Event.type \in PassEffects, StopWaits(Pipe)
      PROVE  \/ game.kind[Pipe[Len(Pipe) - 1].square] = "DOORWAY"
             \/ game'.pos[game.cur] = game.pos[game.cur]
  <2>1. Len(Pipe) - 1 # 1
    <3>1. "StopAction" \notin PassEffects
      BY DEF PassEffects
    <3> QED  BY <3>1, <1>2, <1>4 DEF StopWaits
  <2>2. 1 \in 1 .. Len(Pipe) - 2
    <3>1. PICK n \in Nat : n = Len(Pipe)
      BY <1>2
    <3>2. n > 1 /\ n - 1 # 1
      BY <2>1, <3>1, <1>4 DEF StopWaits
    <3>3. 1 \in 1 .. n - 2
      BY <3>2
    <3> QED  BY <3>1, <3>3
  <2> QED  BY <2>2, <1>2, <1>4 DEF Inv, StopsThere
<1>5. /\ StopsThere(<<>> \o Tail(Pipe), game')
      /\ StopWaits(Pipe) /\ Event.type # "StopAction" => StopWaits(<<>> \o Tail(Pipe))
  BY <1>1, <1>4, StopsThereFront
<1>6. /\ End(Pipe).type # "AdvanceTurn" => game'.bankrupt[game.cur] = game.bankrupt[game.cur]
      /\ End(Pipe).type = "AdvanceTurn" /\ Len(Pipe) = 2 => gameOver' \/ Active' # {}
      /\ End(Pipe).type = "WillMove" => Event.type \in PassEffects \cup {"Move"}
  <2>1. "Bankruptcy" \in Ahead.AdvanceTurn
    BY DEF Ahead
  <2>2. Ahead["WillMove"] = PassEffects \cup {"Move"}
    BY DEF Ahead
  <2> QED  BY <1>2, <2>1, <2>2, EndPlace
<1> QED
  BY <1>1, <1>3, <1>5, <1>6, AsideKeeps DEF Consume

(* The head is replaced by events, and the game stays as it is. *)
LEMMA QuietKeeps ==
  ASSUME Inv, Pipe # <<>>, Event.type \notin DOMAIN Ahead, Event.type # "GameOverCheck",
         NEW es \in Seq(Events), PutFront(es),
         UNCHANGED <<setup, moves, path, game, gameOver, winner>>,
         before' = IF Event.type = "StopAction" THEN <<>> ELSE before,
         \A j \in 1 .. Len(es) :
           /\ es[j].player = game.cur /\ es[j].type \in Ahead[End(Pipe).type]
           /\ es[j].type \in Late => j = Len(es) /\ Len(Pipe) = 2
           /\ es[j].type # "StopAction"
           /\ es[j].type = "SellStock" => es[j].quantity <= game.stock[es[j].player]
           /\ es[j].type = "RotateSuit" => game.suit[es[j].square] # None,
         Event.type \in PassEffects /\ StopWaits(Pipe) =>
           /\ \A j \in 1 .. Len(es) : es[j].type \in PassEffects
           /\ \/ game.kind[Pipe[Len(Pipe) - 1].square] = "DOORWAY"
              \/ \A j \in 1 .. Len(es) : es[j].type \notin {"Warp", "PassAction"}
  PROVE  Inv'
<1>1. Grounded(es \o Tail(Pipe), game')
  BY GroundedFront
<1>2. /\ StopsThere(es \o Tail(Pipe), game')
      /\ StopWaits(Pipe) /\ Event.type # "StopAction" => StopWaits(es \o Tail(Pipe))
  BY StopsThereFront
<1>3. ~(End(Pipe).type = "AdvanceTurn" /\ Len(Pipe) = 2)
  BY EndPlace
<1>4. game' \in Games /\ gameOver' \in BOOLEAN /\ winner' \in Players \cup {None}
  BY DEF Inv, Types
<1>5. Frame(game, game')
  BY DEF Frame
<1> QED
  BY <1>1, <1>2, <1>3, <1>4, <1>5, AsideKeeps

-----------------------------------------------------------------------------
(* The handlers whose event waits in front of another one. *)

(* What the assumption on the setups says of the one that is played. *)
LEMMA Board ==
  ASSUME Inv
  PROVE  /\ setup.players \in Nat \ {0} /\ setup.salary \in Int /\ setup.plot \in Int
         /\ setup.quantities \subseteq Nat /\ setup.maxRoll \in Nat /\ Price \in Int
         /\ setup.suits \in Seq(STRING) /\ Wild \notin Suits /\ None \notin Suits
         /\ setup.destination \in [Squares -> Squares \cup {None}]
         /\ setup.waypoints \in
              [Squares -> SUBSET [from : Squares \cup {None}, to : SUBSET Squares]]
         /\ None \notin Players /\ None \notin Squares
         /\ setup.maxBankruptcies \in Int /\ setup.maxBankruptcies <= setup.players
         /\ game \in Games /\ game.cur \in Players
<1>1. WellFormed(setup) /\ game \in Games
  BY SetupsAssumption DEF Inv, Types
<1>2. setup.basePrice \in Int /\ game.fluct \in Int /\ game.cur \in Players
  BY <1>1 DEF WellFormed, Games
<1> QED
  BY <1>1, <1>2 DEF WellFormed, Players, Squares, Suits, Wild, Price

LEMMA PreRollKeeps ==
  ASSUME Inv, HandleInitDeal \/ HandleInitSellStock \/ HandleSellStock
  PROVE  Inv'
<1> DEFINE p == Event.player
<1>1. Pipe # <<>>
  BY DEF HandleInitDeal, HandleInitSellStock, HandleSellStock, Handling
<1>2. Event \in Events /\ p = game.cur /\ p \in Players
  BY <1>1, HeadPlace
<1>3. CASE HandleInitDeal
  <2>1. /\ Event.type = "InitDeal" /\ Consume
        /\ UNCHANGED <<setup, moves, path, before, game, gameOver, winner>>
    BY <1>3 DEF HandleInitDeal, Handling, Leaf, SameMoves, SameOutcome
  <2>2. Event.type \notin DOMAIN Ahead \cup PassEffects
    BY <2>1 DEF Ahead, PassEffects
  <2>3. game \in Games /\ gameOver \in BOOLEAN /\ winner \in Players \cup {None}
    BY DEF Inv, Types
  <2> QED  BY <1>1, <2>1, <2>2, <2>3, ConsumeKeeps
<1>4. CASE HandleInitSellStock
  <2>1. /\ Event.type = "InitSellStock"
        /\ UNCHANGED <<setup, moves, path, before, game, gameOver, winner>>
    BY <1>4 DEF HandleInitSellStock, Handling, Leaf, SameMoves, SameOutcome
  <2>2. Event.type \notin DOMAIN Ahead \cup PassEffects
    BY <2>1 DEF Ahead, PassEffects
  <2>3. CASE Consume
    <3>1. game \in Games /\ gameOver \in BOOLEAN /\ winner \in Players \cup {None}
      BY DEF Inv, Types
    <3> QED  BY <1>1, <2>1, <2>2, <2>3, <3>1, ConsumeKeeps
  <2>4. CASE \E qty \in setup.quantities :
               qty <= game.stock[p] /\ PutFront(<<Stock("SellStock", p, qty)>>)
    <3>1. PICK qty \in setup.quantities :
               qty <= game.stock[p] /\ PutFront(<<Stock("SellStock", p, qty)>>)
      BY <2>4
    <3> DEFINE e == Stock("SellStock", p, qty)
    <3>2. e.type = "SellStock" /\ e.player = p /\ e.quantity = qty
      BY DEF Stock
    <3>3. e \in Events
      <4>1. qty \in Nat
        BY Board
      <4> QED  BY <4>1, <1>2 DEF Stock, Events, Traded
    <3> HIDE DEF e
    <3>4. <<e>> \in Seq(Events) /\ Len(<<e>>) = 1 /\ <<e>>[1] = e
      BY <3>3
    <3>5. End(Pipe).type = "Turn" /\ Len(Pipe) = 2
      BY <1>1, <2>1, <2>2, EndPlace
    <3>6. "SellStock" \in Ahead["Turn"]
      BY DEF Ahead
    <3>7. PutFront(<<e>>)
      BY <3>1 DEF e
    <3>8. \A j \in 1 .. Len(<<e>>) : j = 1 /\ <<e>>[j] = e
      BY <3>4
    <3> QED  BY <1>1, <1>2, <2>1, <2>2, <3>1, <3>2, <3>4, <3>5, <3>6, <3>7, <3>8, QuietKeeps
  <2> QED  BY <1>4, <2>3, <2>4 DEF HandleInitSellStock
<1>5. CASE HandleSellStock
  <2>1. /\ Event.type = "SellStock" /\ Consume
        /\ UNCHANGED <<setup, moves, path, before, gameOver, winner>>
        /\ game' = [game EXCEPT !.cash[p] = @ + Event.quantity * Price,
                                !.stock[p] = @ - Event.quantity,
                                !.pending = @ - PriceMove(Event.quantity)]
    BY <1>5 DEF HandleSellStock, Handling, Leaf, SameMoves, SameOutcome
  <2>2. Event.type \notin DOMAIN Ahead \cup PassEffects
    BY <2>1 DEF Ahead, PassEffects
  <2>3. Event.quantity \in Nat
    BY <1>2, <2>1, EventFields DEF Traded
  <2>4. Event.quantity <= game.stock[p]
    BY <1>1, <2>1, HeadPlace DEF Inv, Grounded
  <2>5. PriceMove(Event.quantity) \in Int
    BY Board DEF PriceMove
  <2>6. game' \in Games
    <3>1. /\ game.cash[p] \in Int /\ game.stock[p] \in Nat /\ game.pending \in Int /\ Price \in Int
          /\ game \in Games
      BY <1>2, Board DEF Games
    <3>2. PICK c \in Int : c = game.cash[p] + Event.quantity * Price
      BY <3>1, <2>3
    <3>3. PICK n \in Nat : n = game.stock[p] - Event.quantity
      BY <3>1, <2>3, <2>4
    <3>4. PICK d \in Int : d = game.pending - PriceMove(Event.quantity)
      BY <3>1, <2>5
    <3>5. game' = [game EXCEPT !.cash[p] = c, !.stock[p] = n, !.pending = d]
      BY <2>1, <3>2, <3>3, <3>4
    <3> QED  BY <3>1, <3>5, <1>2 DEF Games
  <2>7. /\ game'.cur = game.cur /\ game'.bankrupt = game.bankrupt
        /\ game'.suit = game.suit
    BY <2>1, Board DEF Games
  <2>8. gameOver' \in BOOLEAN /\ winner' \in Players \cup {None}
    BY <2>1 DEF Inv, Types
  <2> QED  BY <1>1, <2>1, <2>2, <2>6, <2>7, <2>8, ConsumeKeeps
<1> QED
  BY <1>3, <1>4, <1>5

(* The rotation of a change-of-suit square never leaves the standard suits. *)
LEMMA NextSuitIsOne ==
  ASSUME Inv, NEW t \in Suits
  PROVE  NextSuit(t) \in Suits
<1> DEFINE i == CHOOSE j \in DOMAIN setup.suits : setup.suits[j] = t
<1>1. DOMAIN setup.suits = 1 .. Len(setup.suits) /\ Len(setup.suits) \in Nat
  BY Board, LenProperties
<1>2. i \in 1 .. Len(setup.suits)
  BY <1>1 DEF Suits
<1>3. PICK n \in Nat : n = Len(setup.suits)
  BY <1>1
<1> HIDE DEF i
<1>4. (i % Len(setup.suits)) + 1 \in 1 .. Len(setup.suits)
  <2>1. i \in 1 .. n /\ n > 0
    BY <1>2, <1>3
  <2>2. i % n \in 0 .. n - 1
    BY <2>1
  <2>3. (i % n) + 1 \in 1 .. n
    BY <2>1, <2>2
  <2> QED  BY <1>3, <2>3
<1> QED
  BY <1>1, <1>4 DEF NextSuit, Suits, i

LEMMA SuitsFinite ==
  ASSUME Inv
  PROVE  IsFiniteSet(Suits)
<1>1. DOMAIN setup.suits = 1 .. Len(setup.suits) /\ Len(setup.suits) \in Nat
  BY Board, LenProperties
<1>2. IsFiniteSet(DOMAIN setup.suits)
  BY <1>1, FS_Interval
<1>3. setup.suits \in [DOMAIN setup.suits -> Suits]
  BY Board, LenProperties DEF Suits
<1>4. setup.suits \in Surjection(DOMAIN setup.suits, Suits)
  BY <1>3 DEF Surjection, Suits
<1> QED
  BY <1>2, <1>4, FS_Surjection

(* Effects of passing a square that ask nobody and enqueue nothing. *)
LEMMA SuitEffectKeeps ==
  ASSUME Inv, HandleMove \/ HandleCollectSuit \/ HandleRotateSuit \/ HandlePromotion
  PROVE  Inv'
<1> DEFINE p == Event.player
<1>1. /\ Pipe # <<>> /\ Consume /\ UNCHANGED <<setup, moves, path, before, gameOver, winner>>
      /\ gameOver' \in BOOLEAN /\ winner' \in Players \cup {None}
  BY DEF HandleMove, HandleCollectSuit, HandleRotateSuit, HandlePromotion, Handling, Leaf,
         SameMoves, SameOutcome, Inv, Types
<1>2. Event \in Events /\ p = game.cur /\ p \in Players
  BY <1>1, HeadPlace
<1>3. game \in Games
  BY Board
<1>4. CASE HandleMove
  <2>1. /\ Event.type = "Move"
        /\ game' = [game EXCEPT !.from[p] = Event.from, !.pos[p] = Event.to]
    BY <1>4 DEF HandleMove, Handling
  <2>2. Event.type \notin DOMAIN Ahead \cup PassEffects
    BY <2>1 DEF Ahead, PassEffects
  <2>3. Event.from \in Squares /\ Event.to \in Squares
    BY <1>2, <2>1, EventFields
  <2>4. game' \in Games
    BY <1>2, <1>3, <2>1, <2>3 DEF Games
  <2>5. game'.cur = game.cur /\ game'.bankrupt = game.bankrupt /\ game'.suit = game.suit
    BY <1>3, <2>1 DEF Games
  <2>6. Frame(game, game')
    BY <1>2, <1>3, <2>1 DEF Frame, Games
  <2> QED  BY <1>1, <2>1, <2>2, <2>4, <2>5, <2>6, ConsumeKeeps
<1>5. CASE HandleCollectSuit
  <2>1. /\ Event.type = "CollectSuit"
        /\ game' = [game EXCEPT !.suits[p] = Collected(@, Event.suit)]
    BY <1>5 DEF HandleCollectSuit, Handling
  <2>2. Event.type \notin DOMAIN Ahead
    BY <2>1 DEF Ahead
  <2>3. Event.suit \in Suits \cup {Wild} /\ game.suits[p] \in Held
    BY <1>2, <1>3, <2>1, EventFields DEF Games
  <2>4. PICK h \in Held : h = Collected(game.suits[p], Event.suit)
    <3>1. CASE Event.suit = Wild
      <4>1. game.suits[p][Wild] + 1 \in Nat
        BY <2>3 DEF Held
      <4> QED  BY <2>3, <3>1, <4>1 DEF Collected, Held
    <3>2. CASE Event.suit # Wild
      BY <2>3, <3>2 DEF Collected, Held
    <3> QED  BY <3>1, <3>2
  <2>5. game' = [game EXCEPT !.suits[p] = h]
    BY <2>1, <2>4
  <2>6. game' \in Games
    BY <1>2, <1>3, <2>5 DEF Games
  <2>7. /\ game'.cur = game.cur /\ game'.bankrupt = game.bankrupt /\ game'.suit = game.suit
        /\ game'.kind = game.kind /\ game'.pos = game.pos
    BY <1>3, <2>5 DEF Games
  <2>8. Frame(game, game')
    BY <1>2, <1>3, <2>5 DEF Frame, Games
  <2> QED  BY <1>1, <2>1, <2>2, <2>6, <2>7, <2>8, ConsumeKeeps
<1>6. CASE HandleRotateSuit
  <2>1. /\ Event.type = "RotateSuit"
        /\ game' = [game EXCEPT !.suit[Event.square] = NextSuit(@)]
    BY <1>6 DEF HandleRotateSuit, Handling
  <2>2. Event.type \notin DOMAIN Ahead
    BY <2>1 DEF Ahead
  <2>3. Event.square \in Squares
    BY <1>2, <2>1, EventFields DEF Squared
  <2>4. game.suit[Event.square] \in Suits
    <3>1. game.suit[Event.square] # None
      BY <1>1, <2>1, HeadPlace DEF Inv, Grounded
    <3> QED  BY <3>1, <2>3, <1>3 DEF Games
  <2>5. PICK t \in Suits : t = NextSuit(game.suit[Event.square])
    BY <2>4, NextSuitIsOne
  <2>6. game' = [game EXCEPT !.suit[Event.square] = t]
    BY <2>1, <2>5
  <2>7. game' \in Games
    BY <1>3, <2>3, <2>6 DEF Games
  <2>8. /\ game'.cur = game.cur /\ game'.bankrupt = game.bankrupt
        /\ game'.kind = game.kind /\ game'.pos = game.pos
    BY <1>3, <2>6 DEF Games
  <2>9. \A s \in Squares : game.suit[s] # None => game'.suit[s] # None
    <3>1. t # None
      BY Board
    <3> QED  BY <3>1, <1>3, <2>3, <2>6 DEF Games
  <2>10. Frame(game, game')
    BY <1>2, <1>3, <2>6 DEF Frame, Games
  <2> QED  BY <1>1, <2>1, <2>2, <2>7, <2>8, <2>9, <2>10, ConsumeKeeps
<1>7. CASE HandlePromotion
  <2> DEFINE missing == Cardinality({s \in Suits : game.suits[p][s] = 0})
             left == IF game.suits[p][Wild] > missing THEN game.suits[p][Wild] - missing ELSE 0
  <2>1. /\ Event.type = "Promotion"
        /\ game' = [game EXCEPT
                !.cash[p] = @ + setup.salary * (game.level[p] + 1), !.level[p] = @ + 1,
                !.suits[p] = [s \in Suits \cup {Wild} |-> IF s = Wild THEN left ELSE 0]]
    BY <1>7 DEF HandlePromotion, Handling
  <2>2. Event.type \notin DOMAIN Ahead
    BY <2>1 DEF Ahead
  <2>3. left \in Nat
    <3>1. missing \in Nat
      <4>1. IsFiniteSet(Suits)
        BY SuitsFinite
      <4>2. IsFiniteSet({s \in Suits : game.suits[p][s] = 0})
        BY <4>1, FS_Subset
      <4> QED  BY <4>2, FS_CardinalityType
    <3>2. game.suits[p][Wild] \in Nat
      BY <1>2, <1>3 DEF Games, Held
    <3> HIDE DEF missing
    <3> QED  BY <3>1, <3>2
  <2> HIDE DEF left
  <2>4. PICK h \in Held : h = [s \in Suits \cup {Wild} |-> IF s = Wild THEN left ELSE 0]
    BY <2>3 DEF Held
  <2>5. PICK c \in Int : c = game.cash[p] + setup.salary * (game.level[p] + 1)
    <3>1. game.cash[p] \in Int /\ game.level[p] \in Nat /\ setup.salary \in Int
      BY <1>2, <1>3, Board DEF Games
    <3> QED  BY <3>1
  <2>6. PICK n \in Nat : n = game.level[p] + 1
    BY <1>2, <1>3 DEF Games
  <2>7. game' = [game EXCEPT !.cash[p] = c, !.level[p] = n, !.suits[p] = h]
    BY <2>1, <2>4, <2>5, <2>6
  <2>8. game' \in Games
    BY <1>2, <1>3, <2>7 DEF Games
  <2>9. /\ game'.cur = game.cur /\ game'.bankrupt = game.bankrupt /\ game'.suit = game.suit
        /\ game'.kind = game.kind /\ game'.pos = game.pos
    BY <1>3, <2>7 DEF Games
  <2>10. Frame(game, game')
    BY <1>2, <1>3, <2>7 DEF Frame, Games
  <2> QED  BY <1>1, <2>1, <2>2, <2>8, <2>9, <2>10, ConsumeKeeps
<1> QED
  BY <1>4, <1>5, <1>6, <1>7

LEMMA TransferredType ==
  ASSUME NEW cash \in [Players -> Int], NEW p \in Players, NEW o, NEW due \in Nat
  PROVE  Transferred(cash, p, o, due) \in [Players -> Int]
<1>1. cash[p] - due \in Int
  OBVIOUS
<1>2. PICK b \in [Players -> Int] : b = [cash EXCEPT ![p] = cash[p] - due]
  BY <1>1
<1>3. Transferred(cash, p, o, due) = [b EXCEPT ![o] = b[o] + due]
  BY <1>2 DEF Transferred
<1>4. CASE o \in Players
  <2>1. b[o] + due \in Int
    BY <1>2, <1>4
  <2> QED  BY <1>2, <1>3, <2>1
<1>5. CASE o \notin Players
  BY <1>2, <1>3, <1>5
<1> QED
  BY <1>4, <1>5

(* Effects that move money, stock and shops, or the player himself. *)
LEMMA MoneyEffectKeeps ==
  ASSUME Inv, \/ HandleBuyStock \/ HandleRaiseToll \/ HandlePayToll \/ HandleBuyVacantPlot
              \/ HandleClearDirectionLock \/ HandleWarp \/ HandleVictory
  PROVE  Inv'
<1> DEFINE p == Event.player
<1>1. /\ Pipe # <<>> /\ UNCHANGED <<setup, moves, path, before>>
      /\ game \in Games
  BY Board DEF HandleBuyStock, HandleRaiseToll, HandlePayToll, HandleBuyVacantPlot,
       HandleClearDirectionLock, HandleWarp, HandleVictory, Handling, Leaf, SameMoves, SameOutcome
<1>2. Event \in Events /\ p = game.cur /\ p \in Players
  BY <1>1, HeadPlace
<1>3. gameOver \in BOOLEAN /\ winner \in Players \cup {None}
  BY DEF Inv, Types
<1>4. CASE HandleBuyStock
  <2>1. /\ Event.type = "BuyStock" /\ Consume /\ UNCHANGED <<gameOver, winner>>
        /\ game' = [game EXCEPT !.cash[p] = @ - Event.quantity * Price,
                                !.stock[p] = @ + Event.quantity,
                                !.pending = @ + PriceMove(Event.quantity)]
    BY <1>4 DEF HandleBuyStock, Handling, Leaf, SameOutcome
  <2>2. Event.type \notin DOMAIN Ahead
    BY <2>1 DEF Ahead
  <2>3. /\ Event.quantity \in Nat /\ Price \in Int /\ PriceMove(Event.quantity) \in Int
        /\ game.cash[p] \in Int /\ game.stock[p] \in Nat /\ game.pending \in Int
    <3>1. Event.quantity \in Nat
      BY <1>2, <2>1, EventFields DEF Traded
    <3>2. Price \in Int /\ PriceMove(Event.quantity) \in Int
      BY Board DEF PriceMove
    <3> QED  BY <1>1, <1>2, <3>1, <3>2 DEF Games
  <2>4. PICK c \in Int : c = game.cash[p] - Event.quantity * Price
    BY <2>3
  <2>5. PICK n \in Nat : n = game.stock[p] + Event.quantity
    BY <2>3
  <2>6. PICK d \in Int : d = game.pending + PriceMove(Event.quantity)
    BY <2>3
  <2>7. game' = [game EXCEPT !.cash[p] = c, !.stock[p] = n, !.pending = d]
    BY <2>1, <2>4, <2>5, <2>6
  <2>8. game' \in Games
    BY <1>1, <1>2, <2>7 DEF Games
  <2>9. /\ game'.cur = game.cur /\ game'.bankrupt = game.bankrupt /\ game'.suit = game.suit
        /\ game'.kind = game.kind /\ game'.pos = game.pos
    BY <1>1, <2>7 DEF Games
  <2>10. Frame(game, game')
    BY <1>1, <1>2, <2>7 DEF Frame, Games
  <2> QED  BY <1>1, <1>3, <2>1, <2>2, <2>8, <2>9, <2>10, ConsumeKeeps
<1>5. CASE HandleRaiseToll
  <2>1. /\ Event.type = "RaiseToll" /\ Consume /\ UNCHANGED <<gameOver, winner>>
        /\ game' = [game EXCEPT !.toll[Event.square] = @ + 10]
    BY <1>5 DEF HandleRaiseToll, Handling, Leaf, SameOutcome
  <2>2. Event.type \notin DOMAIN Ahead
    BY <2>1 DEF Ahead
  <2>3. PICK n \in Nat : n = game.toll[Event.square] + 10
    <3>1. game.toll[Event.square] \in Nat
      BY <1>1, <1>2, <2>1, EventFields DEF Squared, Games
    <3> QED  BY <3>1
  <2>4. game' = [game EXCEPT !.toll[Event.square] = n]
    BY <2>1, <2>3
  <2>5. game' \in Games
    BY <1>1, <2>4 DEF Games
  <2>6. /\ game'.cur = game.cur /\ game'.bankrupt = game.bankrupt /\ game'.suit = game.suit
        /\ game'.kind = game.kind /\ game'.pos = game.pos
    BY <1>1, <2>4 DEF Games
  <2>7. Frame(game, game')
    BY <1>1, <2>4 DEF Frame, Games
  <2> QED  BY <1>1, <1>3, <2>1, <2>2, <2>5, <2>6, <2>7, ConsumeKeeps
<1>6. CASE HandlePayToll
  <2> DEFINE owner == game.owner[Event.square]
  <2>1. Event.type = "PayToll" /\ Consume /\ UNCHANGED <<gameOver, winner>>
    BY <1>6 DEF HandlePayToll, Handling, Leaf, SameOutcome
  <2>2. Event.type \notin DOMAIN Ahead
    BY <2>1 DEF Ahead
  <2>3. game.toll[Event.square] \in Nat
    BY <1>1, <1>2, <2>1, EventFields DEF Squared, Games
  <2>4. PICK due \in Nat :
          game' = [game EXCEPT !.cash = Transferred(@, p, owner, due),
                               !.toll[Event.square] = @ + 10]
    BY <1>6, <2>3 DEF HandlePayToll
  <2>5. PICK n \in Nat : n = game.toll[Event.square] + 10
    BY <2>3
  <2>6. PICK c \in [Players -> Int] : c = Transferred(game.cash, p, owner, due)
    BY <1>1, <1>2, TransferredType DEF Games
  <2>7. game' = [game EXCEPT !.cash = c, !.toll[Event.square] = n]
    BY <2>4, <2>5, <2>6
  <2>8. game' \in Games
    BY <1>1, <2>7 DEF Games
  <2>9. /\ game'.cur = game.cur /\ game'.bankrupt = game.bankrupt /\ game'.suit = game.suit
        /\ game'.kind = game.kind /\ game'.pos = game.pos
    BY <1>1, <2>7 DEF Games
  <2>10. Frame(game, game')
    BY <1>1, <2>7 DEF Frame, Games
  <2> QED  BY <1>1, <1>3, <2>1, <2>2, <2>8, <2>9, <2>10, ConsumeKeeps
<1>7. CASE HandleBuyVacantPlot
  <2>1. /\ Event.type = "BuyVacantPlot" /\ Consume /\ UNCHANGED <<gameOver, winner>>
        /\ game' = [game EXCEPT !.cash[p] = @ - setup.plot, !.owner[Event.square] = p,
                                !.kind[Event.square] = "VP_CHECKPOINT", !.toll[Event.square] = 10]
    BY <1>7 DEF HandleBuyVacantPlot, Handling, Leaf, SameOutcome
  <2>2. Event.type \notin DOMAIN Ahead \cup PassEffects
    BY <2>1 DEF Ahead, PassEffects
  <2>3. PICK c \in Int : c = game.cash[p] - setup.plot
    BY <1>1, <1>2, Board DEF Games
  <2>4. game' = [game EXCEPT !.cash[p] = c, !.owner[Event.square] = p,
                             !.kind[Event.square] = "VP_CHECKPOINT", !.toll[Event.square] = 10]
    BY <2>1, <2>3
  <2>5. game' \in Games
    <3>1. [game.kind EXCEPT ![Event.square] = "VP_CHECKPOINT"] \in [Squares -> SquareType]
      <4>1. "VP_CHECKPOINT" \in SquareType
        BY DEF SquareType
      <4>2. game.kind \in [Squares -> SquareType]
        BY <1>1 DEF Games
      <4> QED  BY <4>1, <4>2
    <3>2. [game.owner EXCEPT ![Event.square] = p] \in [Squares -> Players \cup {None}]
      BY <1>1, <1>2 DEF Games
    <3>3. [game.toll EXCEPT ![Event.square] = 10] \in [Squares -> Nat]
      BY <1>1 DEF Games
    <3>4. [game.cash EXCEPT ![p] = c] \in [Players -> Int]
      BY <1>1 DEF Games
    <3> QED  BY <1>1, <2>4, <3>1, <3>2, <3>3, <3>4 DEF Games
  <2>6. game'.cur = game.cur /\ game'.bankrupt = game.bankrupt /\ game'.suit = game.suit
    BY <1>1, <2>4 DEF Games
  <2> QED  BY <1>1, <1>3, <2>1, <2>2, <2>5, <2>6, ConsumeKeeps
<1>8. CASE HandleClearDirectionLock
  <2>1. /\ Event.type = "ClearDirectionLock" /\ Consume /\ UNCHANGED <<gameOver, winner>>
        /\ game' = [game EXCEPT !.from[p] = None]
    BY <1>8 DEF HandleClearDirectionLock, Handling, Leaf, SameOutcome
  <2>2. Event.type \notin DOMAIN Ahead \cup PassEffects
    BY <2>1 DEF Ahead, PassEffects
  <2>3. game' \in Games
    BY <1>1, <2>1 DEF Games
  <2>4. game'.cur = game.cur /\ game'.bankrupt = game.bankrupt /\ game'.suit = game.suit
    BY <1>1, <2>1 DEF Games
  <2> QED  BY <1>1, <1>3, <2>1, <2>2, <2>3, <2>4, ConsumeKeeps
<1>9. CASE HandleWarp
  <2>1. /\ Event.type = "Warp" /\ UNCHANGED <<gameOver, winner>>
        /\ game' = [game EXCEPT !.from[p] = None, !.pos[p] = Event.square]
    BY <1>9 DEF HandleWarp, Handling, Leaf, SameOutcome
  <2>2. Event.type \notin DOMAIN Ahead
    BY <2>1 DEF Ahead
  <2>3. Event.square \in Squares /\ Event.voluntary = FALSE
    BY <1>2, <2>1, EventFields
  <2>4. Consume
    BY <1>9, <2>3 DEF HandleWarp, If, Consume
  <2>5. game' \in Games
    BY <1>1, <2>1, <2>3 DEF Games
  <2>6. /\ game'.cur = game.cur /\ game'.bankrupt = game.bankrupt /\ game'.suit = game.suit
        /\ game'.kind = game.kind
    BY <1>1, <2>1 DEF Games
  <2>7. Frame(game, game')
    BY <1>1, <1>2, <2>1 DEF Frame, Games
  <2> QED  BY <1>1, <1>3, <2>1, <2>2, <2>4, <2>5, <2>6, <2>7, ConsumeKeeps
<1>10. CASE HandleVictory
  <2>1. Event.type = "Victory" /\ Consume /\ game' = game /\ gameOver' = TRUE /\ winner' = p
    BY <1>10 DEF HandleVictory, Handling
  <2>2. Event.type \notin DOMAIN Ahead \cup PassEffects
    BY <2>1 DEF Ahead, PassEffects
  <2> QED  BY <1>1, <1>2, <2>1, <2>2, ConsumeKeeps
<1> QED
  BY <1>4, <1>5, <1>6, <1>7, <1>8, <1>9, <1>10

-----------------------------------------------------------------------------
(* The handlers that enqueue events. *)

LEMMA IfSeq ==
  ASSUME NEW S, NEW cond, NEW es, cond => es \in Seq(S)
  PROVE  If(cond, es) \in Seq(S)
BY EmptySeq DEF If

LEMMA ConcatSeq ==
  ASSUME NEW S, NEW es \in Seq(S), NEW fs \in Seq(S)
  PROVE  es \o fs \in Seq(S)
BY ConcatProperties

(* What passing enqueues: effects of the player, a warp only off a doorway *)
(* and a rotation only of a square that has a suit.                        *)
PassGood(p, s) ==
  {e \in Events :
     /\ e.player = p
     /\ e.type \in PassEffects \ {"PassAction", "BuyStock"}
     /\ e.type = "RotateSuit" => game.suit[e.square] # None
     /\ e.type = "Warp" => game.kind[s] = "DOORWAY"}

LEMMA PassEventsGood ==
  ASSUME Inv, NEW p \in Players, NEW s \in Squares
  PROVE  PassEvents(p, s) \in Seq(PassGood(p, s))
<1> DEFINE G == PassGood(p, s)
<1>1. /\ game.suit[s] \in Suits \cup {None} /\ game.owner[s] \in Players \cup {None}
      /\ setup.destination[s] \in Squares \cup {None}
  BY Board DEF Games
<1>2. Of("Promotion", p) \in G /\ Of("InitBuyStock", p) \in G
  <2>1. {"Promotion", "InitBuyStock"} \subseteq Bare
    BY DEF Bare, EventTypes, Squared, Traded
  <2> QED  BY <2>1, MadeEvents DEF PassGood, PassEffects, Of
<1>3. \A suit \in Suits \cup {Wild} : CollectSuit(p, suit) \in G
  BY MadeEvents DEF PassGood, PassEffects, CollectSuit
<1>4. game.suit[s] # None => At("RotateSuit", p, s) \in G
  <2>1. At("RotateSuit", p, s) \in Events
    BY MadeEvents DEF Squared
  <2> QED  BY <2>1 DEF PassGood, PassEffects, At
<1>5. At("RaiseToll", p, s) \in G /\ At("PayToll", p, s) \in G
  <2>1. At("RaiseToll", p, s) \in Events /\ At("PayToll", p, s) \in Events
    BY MadeEvents DEF Squared
  <2> QED  BY <2>1 DEF PassGood, PassEffects, At
<1>6. game.kind[s] = "DOORWAY" /\ setup.destination[s] # None => DoorwayWarp(p, s) \in G
  <2>1. setup.destination[s] # None => Warp(p, setup.destination[s], FALSE) \in Events
    BY <1>1, MadeEvents
  <2> QED  BY <2>1 DEF PassGood, PassEffects, Warp, DoorwayWarp
<1> HIDE DEF G
<1>7. <<>> \in Seq(G) /\ \A e \in G : <<e>> \in Seq(G) /\ \A f \in G : <<e, f>> \in Seq(G)
  OBVIOUS
<1>8. CASE game.kind[s] = "BANK"
  <2>1. PassEvents(p, s) = If(HasAllSuits(p), <<Of("Promotion", p)>>) \o <<Of("InitBuyStock", p)>>
    BY <1>8 DEF PassEvents
  <2>2. /\ If(HasAllSuits(p), <<Of("Promotion", p)>>) \in Seq(G)
        /\ <<Of("InitBuyStock", p)>> \in Seq(G)
    BY <1>2, <1>7, IfSeq
  <2> QED  BY <2>1, <2>2, ConcatSeq DEF G
<1>9. CASE game.kind[s] = "SUIT"
  <2>1. PassEvents(p, s) = If(game.suit[s] # None, <<CollectSuit(p, game.suit[s])>>)
    BY <1>9 DEF PassEvents
  <2>2. game.suit[s] # None => <<CollectSuit(p, game.suit[s])>> \in Seq(G)
    BY <1>1, <1>3, <1>7
  <2> QED  BY <2>1, <2>2, IfSeq DEF G
<1>10. CASE game.kind[s] = "CHANGE_OF_SUIT"
  <2>1. PassEvents(p, s) = If(game.suit[s] # None,
                              <<CollectSuit(p, game.suit[s]), At("RotateSuit", p, s)>>)
    BY <1>10 DEF PassEvents
  <2>2. game.suit[s] # None =>
          <<CollectSuit(p, game.suit[s]), At("RotateSuit", p, s)>> \in Seq(G)
    BY <1>1, <1>3, <1>4, <1>7
  <2> QED  BY <2>1, <2>2, IfSeq DEF G
<1>11. CASE game.kind[s] = "SUIT_YOURSELF"
  <2>1. PassEvents(p, s) = <<CollectSuit(p, Wild)>>
    BY <1>11 DEF PassEvents
  <2> QED  BY <2>1, <1>3, <1>7 DEF G
<1>12. CASE game.kind[s] = "DOORWAY"
  <2>1. PassEvents(p, s) = If(setup.destination[s] # None, <<DoorwayWarp(p, s)>>)
    BY <1>12 DEF PassEvents
  <2>2. setup.destination[s] # None => <<DoorwayWarp(p, s)>> \in Seq(G)
    BY <1>12, <1>6, <1>7
  <2> QED  BY <2>1, <2>2, IfSeq DEF G
<1>13. CASE game.kind[s] = "VP_CHECKPOINT"
  <2> DEFINE e == At(IF game.owner[s] = p THEN "RaiseToll" ELSE "PayToll", p, s)
  <2>1. PassEvents(p, s) = If(game.owner[s] # None, <<e>>)
    BY <1>13 DEF PassEvents
  <2>2. e \in G
    BY <1>5
  <2> HIDE DEF e
  <2> QED  BY <2>1, <2>2, <1>7, IfSeq DEF G
<1>14. CASE game.kind[s] \notin {"BANK", "SUIT", "CHANGE_OF_SUIT", "SUIT_YOURSELF", "DOORWAY",
                                "VP_CHECKPOINT"}
  <2>1. PassEvents(p, s) = <<>>
    BY <1>14 DEF PassEvents
  <2> QED  BY <2>1, <1>7 DEF G
<1> QED
  BY <1>8, <1>9, <1>10, <1>11, <1>12, <1>13, <1>14

(* What stopping enqueues: first effects that may wait anywhere before the *)
(* end of the turn, then at most one that must wait right before it.       *)
StopGood(p) ==
  {e \in Events :
     e.player = p /\ e.type \in StopEffects \ {"StopAction", "RotateSuit", "PassAction"}}
StopEarly(p) == {e \in StopGood(p) : e.type \notin Late}

LEMMA StopEventsGood ==
  ASSUME Inv, NEW p \in Players, NEW s \in Squares
  PROVE  \E es \in Seq(StopEarly(p)), fs \in Seq(StopGood(p)) :
           Len(fs) <= 1 /\ StopEvents(p, s) = es \o fs
<1> DEFINE G == StopGood(p)
           E == StopEarly(p)
<1>1. /\ game.suit[s] \in Suits \cup {None} /\ game.owner[s] \in Players \cup {None}
      /\ setup.destination[s] \in Squares \cup {None}
  BY Board DEF Games
<1>2. \A type \in {"ClearDirectionLock", "InitBuyStock", "InitCannon", "Victory"} :
        Of(type, p) \in E
  <2> TAKE type \in {"ClearDirectionLock", "InitBuyStock", "InitCannon", "Victory"}
  <2>1. type \in Bare
    BY DEF Bare, EventTypes, Squared, Traded
  <2>2. Of(type, p) \in Events
    BY <2>1, MadeEvents
  <2>3. type \in StopEffects \ {"StopAction", "RotateSuit", "PassAction"} /\ type \notin Late
    BY DEF StopEffects, PassEffects, Late
  <2> QED  BY <2>2, <2>3 DEF StopEarly, StopGood, Of
<1>3. \A type \in {"RaiseToll", "PayToll", "InitBuyVacantPlot"} : At(type, p, s) \in E
  <2> TAKE type \in {"RaiseToll", "PayToll", "InitBuyVacantPlot"}
  <2>1. type \in Squared
    BY DEF Squared
  <2>2. At(type, p, s) \in Events
    BY <2>1, MadeEvents
  <2>3. type \in StopEffects \ {"StopAction", "RotateSuit", "PassAction"} /\ type \notin Late
    BY DEF StopEffects, PassEffects, Late
  <2> QED  BY <2>2, <2>3 DEF StopEarly, StopGood, At
<1>4. setup.destination[s] # None => Warp(p, setup.destination[s], FALSE) \in E
  <2>1. setup.destination[s] # None => Warp(p, setup.destination[s], FALSE) \in Events
    BY <1>1, MadeEvents
  <2>2. "Warp" \in StopEffects \ {"StopAction", "RotateSuit", "PassAction"} /\ "Warp" \notin Late
    BY DEF StopEffects, PassEffects, Late
  <2> QED  BY <2>1, <2>2 DEF StopEarly, StopGood, Warp
<1>5. Of("VentureCard", p) \in G /\ Of("RollAgain", p) \in G
  <2>1. {"VentureCard", "RollAgain"} \subseteq Bare
    BY DEF Bare, EventTypes, Squared, Traded
  <2>2. Of("VentureCard", p) \in Events /\ Of("RollAgain", p) \in Events
    BY <2>1, MadeEvents
  <2>3. {"VentureCard", "RollAgain"}
          \subseteq StopEffects \ {"StopAction", "RotateSuit", "PassAction"}
    BY DEF StopEffects, PassEffects
  <2> QED  BY <2>2, <2>3 DEF StopGood, Of
<1>6. E \subseteq G
  BY DEF StopEarly
<1> DEFINE k == game.kind[s]
           c1 == game.kind[game.pos[p]] = "BANK"
           c2 == k = "VP_CHECKPOINT" /\ game.owner[s] # None
           c3 == k = "BACKSTREET" /\ setup.destination[s] # None
           c4 == k = "VACANT_PLOT" /\ game.owner[s] = None /\ game.cash[p] >= setup.plot
           c5 == k = "STOCKBROKER"
           c6 == k = "CANNON" /\ Active \ {p} # {}
           c7 == k \in {"SUIT", "VENTURE", "CHANGE_OF_SUIT", "SUIT_YOURSELF"}
           c8 == k = "BANK" /\ NetWorth(p) >= setup.target
           c9 == k = "ROLL_ON"
           e1 == Of("ClearDirectionLock", p)
           e2 == At(IF game.owner[s] = p THEN "RaiseToll" ELSE "PayToll", p, s)
           e3 == Warp(p, setup.destination[s], FALSE)
           e4 == At("InitBuyVacantPlot", p, s)
           e5 == Of("InitBuyStock", p)
           e6 == Of("InitCannon", p)
           e7 == Of("VentureCard", p)
           e8 == Of("Victory", p)
           e9 == Of("RollAgain", p)
           es == If(c1, <<e1>>) \o If(c2, <<e2>>) \o If(c3, <<e3>>) \o If(c4, <<e4>>)
                 \o If(c5, <<e5>>) \o If(c6, <<e6>>)
<1>7. StopEvents(p, s) = es \o If(c7, <<e7>>) \o If(c8, <<e8>>) \o If(c9, <<e9>>)
  BY Zenon DEF StopEvents
<1>8. e1 \in E /\ e2 \in E /\ (c3 => e3 \in E) /\ e4 \in E /\ e5 \in E /\ e6 \in E /\ e8 \in E
      /\ e7 \in G /\ e9 \in G
  BY <1>2, <1>3, <1>4, <1>5
<1>9. /\ (c7 => ~c8 /\ ~c9) /\ (c9 => ~c7 /\ ~c8)
  OBVIOUS
<1> HIDE DEF c1, c2, c3, c4, c5, c6, c7, c8, c9, e1, e2, e3, e4, e5, e6, e7, e8, e9, E, G
<1>10. /\ <<>> \in Seq(E) /\ <<>> \in Seq(G)
       /\ \A e \in E : <<e>> \in Seq(E)
       /\ \A e \in G : <<e>> \in Seq(G) /\ Len(<<e>>) = 1
  OBVIOUS
<1>11. /\ If(c1, <<e1>>) \in Seq(E) /\ If(c2, <<e2>>) \in Seq(E) /\ If(c3, <<e3>>) \in Seq(E)
       /\ If(c4, <<e4>>) \in Seq(E) /\ If(c5, <<e5>>) \in Seq(E) /\ If(c6, <<e6>>) \in Seq(E)
  BY <1>8, <1>10 DEF If
<1>12. es \in Seq(E)
  <2>1. If(c1, <<e1>>) \o If(c2, <<e2>>) \in Seq(E)
    BY <1>11, ConcatSeq
  <2>2. If(c1, <<e1>>) \o If(c2, <<e2>>) \o If(c3, <<e3>>) \in Seq(E)
    BY <1>11, <2>1, ConcatSeq
  <2>3. If(c1, <<e1>>) \o If(c2, <<e2>>) \o If(c3, <<e3>>) \o If(c4, <<e4>>) \in Seq(E)
    BY <1>11, <2>2, ConcatSeq
  <2>4. If(c1, <<e1>>) \o If(c2, <<e2>>) \o If(c3, <<e3>>) \o If(c4, <<e4>>) \o If(c5, <<e5>>)
          \in Seq(E)
    BY <1>11, <2>3, ConcatSeq
  <2> QED  BY <1>11, <2>4, ConcatSeq
<1> HIDE DEF es
<1>13. es \in Seq(G)
  BY <1>6, <1>12, SeqMonotonic
<1>14. PICK fs \in Seq(G) : Len(fs) <= 1 /\ StopEvents(p, s) = es \o fs
  <2>1. CASE c7
    <3>1. StopEvents(p, s) = es \o <<e7>> \o <<>> \o <<>>
      BY <1>7, <1>9, <2>1 DEF If
    <3>2. <<e7>> \in Seq(G) /\ Len(<<e7>>) = 1
      BY <1>8, <1>10
    <3> DEFINE fs == <<e7>>
    <3> HIDE DEF fs
    <3>3. fs \in Seq(G) /\ es \o fs \in Seq(G)
      BY <3>2, <1>13, ConcatSeq DEF fs
    <3>4. es \o fs \o <<>> = es \o fs
      BY <3>3, ConcatEmptySeq
    <3>5. StopEvents(p, s) = es \o fs
      BY <3>1, <3>4 DEF fs
    <3>6. fs \in Seq(G) /\ Len(fs) <= 1
      BY <3>2 DEF fs
    <3> QED  BY <3>3, <3>5, <3>6
  <2>2. CASE c9
    <3>1. StopEvents(p, s) = es \o <<>> \o <<>> \o <<e9>>
      BY <1>7, <1>9, <2>2 DEF If
    <3>2. <<e9>> \in Seq(G) /\ Len(<<e9>>) = 1
      BY <1>8, <1>10
    <3>3. es \o <<>> = es
      BY <1>13, ConcatEmptySeq
    <3> DEFINE fs == <<e9>>
    <3> HIDE DEF fs
    <3>4. StopEvents(p, s) = es \o fs
      BY <3>1, <3>3 DEF fs
    <3>6. fs \in Seq(G) /\ Len(fs) <= 1
      BY <3>2 DEF fs
    <3> QED  BY <3>4, <3>6
  <2>3. CASE ~c7 /\ ~c9
    <3> DEFINE fs == If(c8, <<e8>>)
    <3>1. StopEvents(p, s) = es \o <<>> \o fs \o <<>>
      BY <1>7, <2>3 DEF If
    <3>2. fs \in Seq(G) /\ Len(fs) <= 1
      <4>1. e8 \in G
        BY <1>6, <1>8
      <4>2. Len(<<>>) = 0
        BY EmptySeq
      <4> QED  BY <1>10, <4>1, <4>2 DEF If
    <3> HIDE DEF fs
    <3>3. es \o <<>> = es /\ es \o fs \in Seq(G)
      BY <3>2, <1>13, ConcatSeq, ConcatEmptySeq
    <3>4. es \o fs \o <<>> = es \o fs
      BY <3>3, ConcatEmptySeq
    <3>5. StopEvents(p, s) = es \o fs
      BY <3>1, <3>3, <3>4
    <3> QED  BY <3>2, <3>5
  <2> QED  BY <2>1, <2>2, <2>3
<1> QED
  BY <1>12, <1>14 DEF E, G

LEMMA PassKeeps ==
  ASSUME Inv, HandlePass
  PROVE  Inv'
<1> DEFINE p == Event.player
           s == Event.square
           es == PassEvents(p, s)
<1>1. /\ Pipe # <<>> /\ Event.type = "PassAction" /\ PutFront(es)
      /\ UNCHANGED <<setup, moves, path, game, gameOver, winner, before>>
  BY DEF HandlePass, Handling, Leaf, SameMoves, SameOutcome
<1>2. Event \in Events /\ p = game.cur /\ p \in Players /\ Event = Pipe[1] /\ Len(Pipe) \in Nat
  BY <1>1, HeadPlace
<1>3. s \in Squares
  BY <1>1, <1>2, EventFields DEF Squared
<1>4. es \in Seq(PassGood(p, s))
  BY <1>2, <1>3, PassEventsGood
<1> HIDE DEF es
<1>5. \A j \in 1 .. Len(es) : es[j] \in PassGood(p, s)
  BY <1>4, ElementOfSeq
<1>6. es \in Seq(Events)
  <2>1. PassGood(p, s) \subseteq Events
    BY DEF PassGood
  <2> QED  BY <1>4, <2>1, SeqMonotonic
<1>7. /\ Event.type \notin DOMAIN Ahead /\ Event.type \in PassEffects
      /\ PassEffects \subseteq Ahead["WillMove"] /\ PassEffects \subseteq Ahead["EndTurn"]
      /\ \A t \in PassEffects : t \notin Late /\ t \notin {"StopAction", "SellStock"}
  BY <1>1 DEF Ahead, PassEffects, StopEffects, Late
<1>8. End(Pipe).type \in {"WillMove", "EndTurn"}
  BY <1>1, <1>7, EndPlace
<1>9. \A j \in 1 .. Len(es) :
        /\ es[j].player = game.cur /\ es[j].type \in PassEffects \ {"PassAction", "BuyStock"}
        /\ es[j].type = "RotateSuit" => game.suit[es[j].square] # None
        /\ es[j].type = "Warp" => game.kind[s] = "DOORWAY"
  BY <1>2, <1>5 DEF PassGood
<1>10. ASSUME StopWaits(Pipe)
       PROVE  \/ game.kind[Pipe[Len(Pipe) - 1].square] = "DOORWAY"
              \/ game.kind[s] # "DOORWAY"
  <2>1. 1 \in 1 .. Len(Pipe) - 2
    <3>1. PICK n \in Nat : n = Len(Pipe)
      BY <1>2
    <3>2. n > 1 /\ n - 1 # 1
      BY <1>1, <1>2, <1>10, <3>1 DEF StopWaits
    <3>3. 1 \in 1 .. n - 2
      BY <3>2
    <3> QED  BY <3>1, <3>3
  <2> QED  BY <2>1, <1>1, <1>2, <1>10 DEF Inv, StopsThere
<1>11. \A j \in 1 .. Len(es) :
         /\ es[j].player = game.cur /\ es[j].type \in Ahead[End(Pipe).type]
         /\ es[j].type \notin Late /\ es[j].type \notin {"StopAction", "SellStock"}
  BY <1>7, <1>8, <1>9
<1>12. StopWaits(Pipe) =>
         \/ game.kind[Pipe[Len(Pipe) - 1].square] = "DOORWAY"
         \/ \A j \in 1 .. Len(es) : es[j].type \notin {"Warp", "PassAction"}
  BY <1>9, <1>10
<1> QED
  BY <1>1, <1>6, <1>7, <1>9, <1>11, <1>12, QuietKeeps

LEMMA StopKeeps ==
  ASSUME Inv, HandleStop
  PROVE  Inv'
<1> DEFINE p == Event.player
           s == Event.square
           new == StopEvents(p, s)
<1>1. /\ Pipe # <<>> /\ Event.type = "StopAction" /\ PutFront(new)
      /\ UNCHANGED <<setup, moves, path, game, gameOver, winner>> /\ before' = <<>>
  BY DEF HandleStop, Handling, SameMoves, SameOutcome
<1>2. Event \in Events /\ p = game.cur /\ p \in Players
  BY <1>1, HeadPlace
<1>3. s \in Squares
  BY <1>1, <1>2, EventFields DEF Squared
<1>4. PICK es \in Seq(StopEarly(p)), fs \in Seq(StopGood(p)) : Len(fs) <= 1 /\ new = es \o fs
  BY <1>2, <1>3, StopEventsGood
<1>5. /\ Event.type \notin DOMAIN Ahead /\ Event.type \notin PassEffects
      /\ Event.type \in StopEffects /\ Event.type \in Late
      /\ Ahead["EndTurn"] = StopEffects /\ "SellStock" \notin StopEffects
  BY <1>1 DEF Ahead, PassEffects, StopEffects, Late
<1>6. End(Pipe).type = "EndTurn" /\ Len(Pipe) = 2
  BY <1>1, <1>5, EndPlace
<1>7. /\ StopEarly(p) \subseteq StopGood(p) /\ StopGood(p) \subseteq Events
  BY DEF StopEarly, StopGood
<1>8. es \in Seq(StopGood(p))
  BY <1>4, <1>7, SeqMonotonic
<1>9. /\ new \in Seq(StopGood(p)) /\ Len(new) = Len(es) + Len(fs)
      /\ Len(es) \in Nat /\ Len(fs) \in Nat
      /\ \A j \in 1 .. Len(es) + Len(fs) :
           new[j] = IF j <= Len(es) THEN es[j] ELSE fs[j - Len(es)]
  BY <1>4, <1>8, ConcatProperties, LenProperties
<1> HIDE DEF new
<1>10. new \in Seq(Events)
  BY <1>7, <1>9, SeqMonotonic
<1>11. ASSUME NEW j \in 1 .. Len(new)
       PROVE  /\ new[j].player = game.cur
              /\ new[j].type \in StopEffects \ {"StopAction", "RotateSuit", "PassAction"}
              /\ new[j].type \in Late => j = Len(new)
  <2>1. new[j] \in StopGood(p)
    BY <1>9, ElementOfSeq
  <2>2. CASE j <= Len(es)
    <3>1. j \in 1 .. Len(es) /\ new[j] = es[j]
      BY <1>9, <2>2
    <3>2. new[j] \in StopEarly(p)
      BY <1>4, <3>1, ElementOfSeq
    <3> QED  BY <1>2, <2>1, <3>2 DEF StopGood, StopEarly
  <2>3. CASE ~(j <= Len(es))
    <3>1. PICK m \in Nat, n \in Nat : m = Len(es) /\ n = Len(fs)
      BY <1>9
    <3>2. j = m + n
      BY <1>4, <1>9, <2>3, <3>1
    <3> QED  BY <1>2, <1>9, <2>1, <3>1, <3>2 DEF StopGood
  <2> QED  BY <2>2, <2>3
<1>12. \A j \in 1 .. Len(new) :
         /\ new[j].player = game.cur /\ new[j].type \in Ahead[End(Pipe).type]
         /\ new[j].type \in Late => j = Len(new) /\ Len(Pipe) = 2
         /\ new[j].type # "StopAction" /\ new[j].type # "SellStock"
         /\ new[j].type # "RotateSuit"
  BY <1>5, <1>6, <1>11
<1> QED
  BY <1>1, <1>5, <1>10, <1>12, QuietKeeps

(* An offer is declined, or its acceptance put in front. *)
LEMMA OfferKeeps ==
  ASSUME Inv, HandleInitBuyStock \/ HandleInitBuyVacantPlot
  PROVE  Inv'
<1> DEFINE p == Event.player
<1>1. /\ Pipe # <<>> /\ Event.type \in {"InitBuyStock", "InitBuyVacantPlot"}
      /\ UNCHANGED <<setup, moves, path, game, gameOver, winner, before>>
  BY DEF HandleInitBuyStock, HandleInitBuyVacantPlot, Handling, Leaf, SameMoves, SameOutcome
<1>2. Event \in Events /\ p = game.cur /\ p \in Players
  BY <1>1, HeadPlace
<1>3. /\ Event.type \notin DOMAIN Ahead
      /\ Event.type \in StopEffects /\ Ahead["EndTurn"] = StopEffects
      /\ Event.type = "InitBuyStock" => Event.type \in PassEffects
      /\ Event.type = "InitBuyVacantPlot" => Event.type \notin PassEffects
      /\ "BuyStock" \in PassEffects /\ "BuyStock" \notin Late
      /\ "BuyVacantPlot" \in StopEffects /\ "BuyVacantPlot" \notin Late
      /\ PassEffects \subseteq Ahead["EndTurn"] /\ PassEffects \subseteq Ahead["WillMove"]
  BY <1>1 DEF Ahead, PassEffects, StopEffects, Late
<1>4. CASE Consume
  <2>1. game \in Games /\ gameOver \in BOOLEAN /\ winner \in Players \cup {None}
    BY DEF Inv, Types
  <2>2. Frame(game, game')
    BY <1>1 DEF Frame
  <2> QED  BY <1>1, <1>3, <1>4, <2>1, <2>2, ConsumeKeeps
<1>5. CASE \E e \in Events :
             /\ PutFront(<<e>>) /\ e.player = p
             /\ \/ Event.type = "InitBuyStock" /\ e.type = "BuyStock"
                \/ Event.type = "InitBuyVacantPlot" /\ e.type = "BuyVacantPlot"
  <2>1. PICK e \in Events :
             /\ PutFront(<<e>>) /\ e.player = p
             /\ \/ Event.type = "InitBuyStock" /\ e.type = "BuyStock"
                \/ Event.type = "InitBuyVacantPlot" /\ e.type = "BuyVacantPlot"
    BY <1>5
  <2>2. /\ <<e>> \in Seq(Events) /\ \A j \in 1 .. Len(<<e>>) : <<e>>[j] = e
    OBVIOUS
  <2>3. e.type \in Ahead[End(Pipe).type] /\ e.type \notin Late
    BY <1>1, <1>3, <2>1, EndPlace
  <2>4. /\ e.type \notin {"StopAction", "SellStock", "RotateSuit", "Warp", "PassAction"}
        /\ Event.type \in PassEffects => e.type \in PassEffects
    BY <1>3, <2>1
  <2>5. Event.type # "GameOverCheck" /\ Event.type # "StopAction"
    BY <1>1
  <2> QED  BY <1>1, <1>2, <1>3, <2>1, <2>2, <2>3, <2>4, <2>5, QuietKeeps
<1>6. ASSUME HandleInitBuyStock, ~Consume
      PROVE  \E e \in Events :
               PutFront(<<e>>) /\ e.player = p /\ Event.type = "InitBuyStock" /\ e.type = "BuyStock"
  <2>1. PICK qty \in setup.quantities : PutFront(<<Stock("BuyStock", p, qty)>>)
    BY <1>6 DEF HandleInitBuyStock
  <2>2. Stock("BuyStock", p, qty) \in Events
    <3>1. qty \in Nat
      BY Board
    <3> QED  BY <3>1, <1>2 DEF Stock, Events, Traded
  <2>3. Stock("BuyStock", p, qty).player = p /\ Stock("BuyStock", p, qty).type = "BuyStock"
    BY DEF Stock
  <2> QED  BY <1>6, <2>1, <2>2, <2>3 DEF HandleInitBuyStock, Handling
<1>7. ASSUME HandleInitBuyVacantPlot, ~Consume
      PROVE  \E e \in Events :
               PutFront(<<e>>) /\ e.player = p /\ Event.type = "InitBuyVacantPlot"
                 /\ e.type = "BuyVacantPlot"
  <2>1. PutFront(<<At("BuyVacantPlot", p, Event.square)>>) /\ Event.type = "InitBuyVacantPlot"
    BY <1>7 DEF HandleInitBuyVacantPlot, Handling
  <2>2. At("BuyVacantPlot", p, Event.square) \in Events
    <3>1. Event.square \in Squares
      BY <1>2, <2>1, EventFields DEF Squared
    <3> QED  BY <3>1, <1>2, MadeEvents DEF Squared
  <2>3. /\ At("BuyVacantPlot", p, Event.square).player = p
        /\ At("BuyVacantPlot", p, Event.square).type = "BuyVacantPlot"
    BY DEF At
  <2> QED  BY <2>1, <2>2, <2>3
<1> QED
  BY <1>4, <1>5, <1>6, <1>7

LEMMA CannonKeeps ==
  ASSUME Inv, HandleInitCannon
  PROVE  Inv'
<1> DEFINE p == Event.player
<1>1. /\ Pipe # <<>> /\ Event.type = "InitCannon"
      /\ UNCHANGED <<setup, moves, path, game, gameOver, winner, before>>
  BY DEF HandleInitCannon, Handling, Leaf, SameMoves, SameOutcome
<1>2. p = game.cur /\ p \in Players
  BY <1>1, HeadPlace
<1>3. /\ Event.type \notin DOMAIN Ahead /\ Event.type \notin PassEffects
      /\ Event.type \in StopEffects \ PassEffects
      /\ {"Warp", "CollectSuit", "PassAction"} \subseteq Ahead["EndTurn"]
      /\ {"Warp", "CollectSuit", "PassAction"} \cap Late = {}
  BY <1>1 DEF Ahead, PassEffects, StopEffects, Late
<1>4. CASE Consume
  <2>1. game \in Games /\ gameOver \in BOOLEAN /\ winner \in Players \cup {None}
    BY DEF Inv, Types
  <2> QED  BY <1>1, <1>3, <1>4, <2>1, ConsumeKeeps
<1>5. CASE ~Consume
  <2> DEFINE G == {e \in Events : e.player = p /\ e.type \in {"Warp", "CollectSuit", "PassAction"}}
  <2>1. PICK t \in Active \ {p} :
          LET s == game.pos[t]  k == game.kind[s] IN
          PutFront(
            <<Warp(p, s, FALSE)>>
            \o If(k \in {"SUIT", "CHANGE_OF_SUIT"} /\ game.suit[s] # None,
                  <<CollectSuit(p, game.suit[s])>>)
            \o If(k = "SUIT_YOURSELF", <<CollectSuit(p, Wild)>>)
            \o If(k = "BANK", <<At("PassAction", p, s)>>))
    BY <1>5 DEF HandleInitCannon
  <2> DEFINE s == game.pos[t]
             k == game.kind[s]
             c2 == k \in {"SUIT", "CHANGE_OF_SUIT"} /\ game.suit[s] # None
             e1 == Warp(p, s, FALSE)
             e2 == CollectSuit(p, game.suit[s])
             e3 == CollectSuit(p, Wild)
             e4 == At("PassAction", p, s)
             es == <<e1>> \o If(c2, <<e2>>) \o If(k = "SUIT_YOURSELF", <<e3>>)
                   \o If(k = "BANK", <<e4>>)
  <2>2. PutFront(es)
    BY <2>1
  <2>3. s \in Squares /\ game.suit[s] \in Suits \cup {None}
    BY Board DEF Active, Games
  <2>4. e1 \in G
    BY <1>2, <2>3, MadeEvents DEF Warp
  <2>5. e3 \in G
    BY <1>2, <2>3, MadeEvents DEF CollectSuit
  <2>6. c2 => e2 \in G
    BY <1>2, <2>3, MadeEvents DEF CollectSuit
  <2>7. e4 \in G
    <3>1. At("PassAction", p, s) \in Events
      BY <1>2, <2>3, MadeEvents DEF Squared
    <3> QED  BY <3>1 DEF At
  <2>8. /\ G \subseteq Events
        /\ \A e \in G : e.player = p /\ e.type \in {"Warp", "CollectSuit", "PassAction"}
    OBVIOUS
  <2> HIDE DEF G, e1, e2, e3, e4, c2, k, es
  <2>9. \A e \in G : <<e>> \in Seq(G)
    OBVIOUS
  <2>10. /\ <<e1>> \in Seq(G) /\ If(c2, <<e2>>) \in Seq(G)
         /\ If(k = "SUIT_YOURSELF", <<e3>>) \in Seq(G) /\ If(k = "BANK", <<e4>>) \in Seq(G)
    BY <2>4, <2>5, <2>6, <2>7, <2>9, IfSeq
  <2>11. es \in Seq(G)
    <3>1. <<e1>> \o If(c2, <<e2>>) \in Seq(G)
      BY <2>10, ConcatSeq
    <3>2. <<e1>> \o If(c2, <<e2>>) \o If(k = "SUIT_YOURSELF", <<e3>>) \in Seq(G)
      BY <2>10, <3>1, ConcatSeq
    <3> QED  BY <2>10, <3>2, ConcatSeq DEF es
  <2>12. es \in Seq(Events) /\ \A j \in 1 .. Len(es) : es[j] \in G
    BY <2>8, <2>11, SeqMonotonic, ElementOfSeq
  <2>13. End(Pipe).type = "EndTurn"
    BY <1>1, <1>3, EndPlace
  <2>14. \A j \in 1 .. Len(es) :
           /\ es[j].player = game.cur /\ es[j].type \in Ahead[End(Pipe).type]
           /\ es[j].type \notin Late
           /\ es[j].type \notin {"StopAction", "SellStock", "RotateSuit"}
    BY <1>2, <1>3, <2>8, <2>12, <2>13
  <2>15. Event.type # "GameOverCheck" /\ Event.type # "StopAction"
    BY <1>1
  <2> QED  BY <1>1, <1>3, <2>2, <2>12, <2>14, <2>15, QuietKeeps
<1> QED
  BY <1>4, <1>5

(* The events that close a turn. *)
LEMMA ActiveWhileOn ==
  ASSUME Inv, Cardinality(Players \ Active) < setup.maxBankruptcies
  PROVE  Active # {}
<1> SUFFICES ASSUME Active = {} PROVE FALSE
  OBVIOUS
<1>1. Players \ Active = 0 .. setup.players - 1
  BY DEF Players
<1>2. /\ setup.players \in Nat \ {0} /\ setup.maxBankruptcies \in Int
      /\ setup.maxBankruptcies <= setup.players
  BY Board
<1>3. PICK n \in Nat \ {0} : n = setup.players
  BY <1>2
<1>4. Cardinality(0 .. n - 1) = IF 0 > n - 1 THEN 0 ELSE n - 1 - 0 + 1
  <2>1. 0 \in Int /\ n - 1 \in Int
    OBVIOUS
  <2> QED  BY <2>1, FS_Interval, Zenon
<1>5. Cardinality(0 .. n - 1) = n
  BY <1>4
<1> QED
  BY <1>1, <1>2, <1>3, <1>5

LEMMA ClosingKeeps ==
  ASSUME Inv, \/ HandleLiquidation \/ HandleBankruptcyCheck \/ HandleBankruptcy
              \/ HandleStockFluctuation \/ HandleTickStatuses \/ HandleGameOverCheck
  PROVE  Inv'
<1> DEFINE p == Event.player
<1>1. /\ Pipe # <<>> /\ UNCHANGED <<setup, moves, path, before>>
  BY DEF HandleLiquidation, HandleBankruptcyCheck, HandleBankruptcy, HandleStockFluctuation,
         HandleTickStatuses, HandleGameOverCheck, Handling, Leaf, SameMoves, SameOutcome
<1>2. Event \in Events /\ p = game.cur /\ p \in Players
  BY <1>1, HeadPlace
<1>3. game \in Games /\ gameOver \in BOOLEAN /\ winner \in Players \cup {None}
  BY DEF Inv, Types
<1>4. \A t \in {"LiquidationPhase", "BankruptcyCheck", "Bankruptcy", "StockFluctuation",
                "TickStatuses", "GameOverCheck"} :
        t \notin DOMAIN Ahead /\ t \notin PassEffects /\ t # "StopAction" /\ t # "Move"
          /\ t # "RotateSuit" /\ t # "Warp"
  BY DEF Ahead, PassEffects
<1>5. CASE HandleLiquidation
  <2>1. /\ Event.type = "LiquidationPhase" /\ Consume /\ UNCHANGED <<gameOver, winner>>
        /\ game' = game \/ game' = [game EXCEPT !.cash[p] = 0]
    BY <1>5 DEF HandleLiquidation, Handling, Leaf, SameOutcome
  <2>2. game' \in Games
    BY <1>2, <1>3, <2>1 DEF Games
  <2>3. game'.cur = game.cur /\ game'.bankrupt = game.bankrupt /\ game'.suit = game.suit
    BY <1>3, <2>1 DEF Games
  <2> QED  BY <1>1, <1>3, <1>4, <2>1, <2>2, <2>3, ConsumeKeeps
<1>6. CASE HandleBankruptcyCheck
  <2> DEFINE e == Of("Bankruptcy", p)
             es == If(NetWorth(p) < 0, <<e>>)
  <2>1. /\ Event.type = "BankruptcyCheck" /\ PutFront(es) /\ UNCHANGED <<game, gameOver, winner>>
    BY <1>6 DEF HandleBankruptcyCheck, Handling, Leaf, SameOutcome
  <2>2. e \in Events /\ e.player = p /\ e.type = "Bankruptcy"
    <3>1. "Bankruptcy" \in Bare
      BY DEF Bare, EventTypes, Squared, Traded
    <3> QED  BY <1>2, <3>1, MadeEvents DEF Of, Events
  <2>3. End(Pipe).type = "AdvanceTurn"
    BY <1>1, <1>4, <2>1, EndPlace DEF Ahead
  <2>4. "Bankruptcy" \in Ahead["AdvanceTurn"] /\ "Bankruptcy" \notin Late
    BY DEF Ahead, Late
  <2> HIDE DEF e, es
  <2>5. es \in Seq(Events) /\ \A j \in 1 .. Len(es) : es[j] = e
    <3>1. CASE NetWorth(p) < 0
      <4>1. es = <<e>>
        BY <3>1 DEF If, es
      <4> QED  BY <2>2, <4>1
    <3>2. CASE ~(NetWorth(p) < 0)
      <4>1. es = <<>>
        BY <3>2 DEF If, es
      <4> QED  BY <4>1, EmptySeq
    <3> QED  BY <3>1, <3>2
  <2>6. \A j \in 1 .. Len(es) :
          /\ es[j].player = game.cur /\ es[j].type \in Ahead[End(Pipe).type]
          /\ es[j].type \notin Late
          /\ es[j].type \notin {"StopAction", "SellStock", "RotateSuit"}
    BY <1>2, <2>2, <2>3, <2>4, <2>5
  <2>7. Event.type \notin DOMAIN Ahead \cup PassEffects \cup {"GameOverCheck", "StopAction"}
    BY <1>4, <2>1
  <2> QED  BY <1>1, <2>1, <2>5, <2>6, <2>7, QuietKeeps
<1>7. CASE HandleBankruptcy
  <2>1. /\ Event.type = "Bankruptcy" /\ Consume /\ UNCHANGED <<gameOver, winner>>
        /\ game' = [game EXCEPT
                      !.bankrupt[p] = TRUE, !.cash[p] = @ + game.stock[p] * Price,
                      !.stock[p] = 0,
                      !.owner = [s \in Squares |-> IF @[s] = p THEN None ELSE @[s]]]
    BY <1>7 DEF HandleBankruptcy, Handling, Leaf, SameOutcome
  <2>2. PICK c \in Int : c = game.cash[p] + game.stock[p] * Price
    <3>1. game.cash[p] \in Int /\ game.stock[p] \in Nat /\ Price \in Int
      BY <1>2, <1>3, Board DEF Games
    <3> QED  BY <3>1
  <2>3. PICK o \in [Squares -> Players \cup {None}] :
          o = [s \in Squares |-> IF game.owner[s] = p THEN None ELSE game.owner[s]]
    BY <1>3 DEF Games
  <2>4. game' = [game EXCEPT !.bankrupt[p] = TRUE, !.cash[p] = c, !.stock[p] = 0, !.owner = o]
    BY <2>1, <2>2, <2>3
  <2>5. game' \in Games
    BY <1>2, <1>3, <2>4 DEF Games
  <2>6. game'.cur = game.cur /\ game'.suit = game.suit
    BY <1>3, <2>4 DEF Games
  <2> QED  BY <1>1, <1>3, <1>4, <2>1, <2>5, <2>6, ConsumeKeeps
<1>8. CASE HandleStockFluctuation
  <2>1. /\ Event.type = "StockFluctuation" /\ Consume /\ UNCHANGED <<gameOver, winner>>
        /\ game' = [game EXCEPT !.fluct = @ + game.pending, !.pending = 0]
    BY <1>8 DEF HandleStockFluctuation, Handling, Leaf, SameOutcome
  <2>2. game' \in Games
    <3>1. PICK x \in Int : x = game.fluct + game.pending
      BY <1>3 DEF Games
    <3>2. PICK y \in Int : y = 0
      OBVIOUS
    <3>3. game' = [game EXCEPT !.fluct = x, !.pending = y]
      BY <2>1, <3>1, <3>2
    <3> QED  BY <1>3, <3>3 DEF Games
  <2>3. game'.cur = game.cur /\ game'.bankrupt = game.bankrupt /\ game'.suit = game.suit
    BY <1>3, <2>1 DEF Games
  <2> QED  BY <1>1, <1>3, <1>4, <2>1, <2>2, <2>3, ConsumeKeeps
<1>9. CASE HandleTickStatuses
  <2>1. Event.type = "TickStatuses" /\ Consume /\ UNCHANGED <<game, gameOver, winner>>
    BY <1>9 DEF HandleTickStatuses, Handling, Leaf, SameOutcome
  <2> QED  BY <1>1, <1>3, <1>4, <2>1, ConsumeKeeps
<1>10. CASE HandleGameOverCheck
  <2>1. Event.type = "GameOverCheck" /\ Consume /\ game' = game
    BY <1>10 DEF HandleGameOverCheck, Handling
  <2>2. gameOver' \in BOOLEAN /\ winner' \in Players \cup {None}
    BY <1>3, <1>10 DEF HandleGameOverCheck, Active
  <2>3. gameOver' \/ Active' # {}
    <3>1. CASE Cardinality(Players \ Active) < setup.maxBankruptcies
      <4>1. Active' = Active
        BY <1>1, <2>1 DEF Active, Players
      <4> QED  BY <3>1, <4>1, ActiveWhileOn
    <3>2. CASE ~(Cardinality(Players \ Active) < setup.maxBankruptcies)
      BY <1>10, <3>2 DEF HandleGameOverCheck
    <3> QED  BY <3>1, <3>2
  <2> QED  BY <1>1, <1>3, <1>4, <2>1, <2>2, <2>3, ConsumeKeeps
<1> QED
  BY <1>5, <1>6, <1>7, <1>8, <1>9, <1>10

(* A venture card other than a bonus roll.  One that warps lets its player *)
(* pass and stop where it put him.                                         *)
BonusRoll ==
  /\ pipes' = Append([pipes EXCEPT ![Len(pipes)] = Tail(@)], <<Roll(Event.player)>>)
  /\ NoUndo /\ UNCHANGED game

LEMMA CardKeeps ==
  ASSUME Inv, HandleVentureCard, ~BonusRoll
  PROVE  Inv'
<1> DEFINE p == Event.player
<1>1. /\ Pipe # <<>> /\ Event.type = "VentureCard"
      /\ UNCHANGED <<setup, gameOver, winner, before, moves, path>>
      /\ \/ Consume /\ game' = [game EXCEPT !.from[p] = None]
         \/ \E s \in Squares :
              /\ game' = [game EXCEPT !.from[p] = None, !.pos[p] = s]
              /\ PutFront(<<At("PassAction", p, s), At("StopAction", p, s)>>)
         \/ Consume /\ \E roll \in 1 .. setup.maxRoll :
                         game' = [game EXCEPT !.cash[p] = @ + 40 * roll]
         \/ Consume /\ game' = [game EXCEPT !.suits[p] = Collected(@, Wild)]
  BY DEF HandleVentureCard, Handling, SameMoves, BonusRoll
<1>0. Pipe # <<>>
  BY <1>1
<1>2. Event \in Events /\ p = game.cur /\ p \in Players /\ Len(Pipe) = 2 /\ Event = Pipe[1]
  BY <1>1, HeadPlace DEF Ahead, Late
<1>3. game \in Games /\ gameOver \in BOOLEAN /\ winner \in Players \cup {None}
  BY DEF Inv, Types
<1>4. /\ Event.type \notin DOMAIN Ahead /\ Event.type \notin PassEffects
      /\ Event.type \in StopEffects
  BY <1>1 DEF Ahead, PassEffects, StopEffects
<1>5. CASE Consume /\ game' = [game EXCEPT !.from[p] = None]
  <2>1. game' \in Games
    BY <1>3, <1>5 DEF Games
  <2>2. game'.cur = game.cur /\ game'.bankrupt = game.bankrupt /\ game'.suit = game.suit
    BY <1>3, <1>5 DEF Games
  <2> QED  BY <1>1, <1>3, <1>4, <1>5, <2>1, <2>2, ConsumeKeeps
<1>6. CASE Consume /\ \E roll \in 1 .. setup.maxRoll :
                         game' = [game EXCEPT !.cash[p] = @ + 40 * roll]
  <2>1. PICK roll \in 1 .. setup.maxRoll : game' = [game EXCEPT !.cash[p] = @ + 40 * roll]
    BY <1>6
  <2>2. PICK c \in Int : c = game.cash[p] + 40 * roll
    BY <1>2, <1>3, Board DEF Games
  <2>3. game' = [game EXCEPT !.cash[p] = c]
    BY <2>1, <2>2
  <2>4. game' \in Games
    BY <1>3, <2>3 DEF Games
  <2>5. game'.cur = game.cur /\ game'.bankrupt = game.bankrupt /\ game'.suit = game.suit
    BY <1>3, <2>3 DEF Games
  <2> QED  BY <1>1, <1>3, <1>4, <1>6, <2>4, <2>5, ConsumeKeeps
<1>7. CASE Consume /\ game' = [game EXCEPT !.suits[p] = Collected(@, Wild)]
  <2>1. PICK h \in Held : h = Collected(game.suits[p], Wild)
    <3>1. game.suits[p] \in Held
      BY <1>2, <1>3 DEF Games
    <3>2. game.suits[p][Wild] + 1 \in Nat
      BY <3>1 DEF Held
    <3> QED  BY <3>1, <3>2 DEF Collected, Held
  <2>2. game' = [game EXCEPT !.suits[p] = h]
    BY <1>7, <2>1
  <2>3. game' \in Games
    BY <1>3, <2>2 DEF Games
  <2>4. game'.cur = game.cur /\ game'.bankrupt = game.bankrupt /\ game'.suit = game.suit
    BY <1>3, <2>2 DEF Games
  <2> QED  BY <1>1, <1>3, <1>4, <1>7, <2>3, <2>4, ConsumeKeeps
<1>8. CASE \E s \in Squares :
              /\ game' = [game EXCEPT !.from[p] = None, !.pos[p] = s]
              /\ PutFront(<<At("PassAction", p, s), At("StopAction", p, s)>>)
  <2>1. PICK s \in Squares :
              /\ game' = [game EXCEPT !.from[p] = None, !.pos[p] = s]
              /\ PutFront(<<At("PassAction", p, s), At("StopAction", p, s)>>)
    BY <1>8
  <2> DEFINE pass == At("PassAction", p, s)
             stop == At("StopAction", p, s)
  <2>2. game' \in Games
    BY <1>2, <1>3, <2>1 DEF Games
  <2>3. /\ game'.cur = game.cur /\ game'.bankrupt = game.bankrupt /\ game'.suit = game.suit
        /\ game'.pos[game.cur] = s
    BY <1>2, <1>3, <2>1 DEF Games
  <2>4. /\ pass \in Events /\ pass.type = "PassAction" /\ pass.player = p /\ pass.square = s
        /\ stop \in Events /\ stop.type = "StopAction" /\ stop.player = p /\ stop.square = s
    <3>1. pass \in Events /\ stop \in Events
      BY <1>2, MadeEvents DEF Squared
    <3> QED  BY <3>1 DEF At
  <2> HIDE DEF pass, stop
  <2>5. PICK es \in Seq(Events) :
          es = <<pass, stop>> /\ Len(es) = 2 /\ es[1] = pass /\ es[2] = stop
    <3>1. <<pass, stop>> \in Seq(Events)
      BY <2>4
    <3>2. Len(<<pass, stop>>) = 2 /\ <<pass, stop>>[1] = pass /\ <<pass, stop>>[2] = stop
      OBVIOUS
    <3> QED  BY <3>1, <3>2, Zenon
  <2> DEFINE new == es \o Tail(Pipe)
  <2>6. \A j \in 1 .. Len(es) : es[j] \in {pass, stop} /\ (es[j] = stop => j = 2)
    <3>1. pass # stop
      BY <2>4
    <3>2. \A j \in 1 .. Len(es) : j = 1 \/ j = 2
      BY <2>5
    <3> QED  BY <2>5, <3>1, <3>2
  <2>7. Pipe \in Seq(Events) /\ End(Pipe).type = "EndTurn"
    BY <1>1, <1>4, HeadPlace, EndPlace
  <2>8. Len(new) = 3 /\ new[1] = pass /\ new[2] = stop
    <3>1. /\ Len(new) = Len(es) + Len(Pipe) - 1
          /\ \A j \in 1 .. Len(es) : new[j] = es[j]
      BY <1>0, <2>7, FrontOf
    <3> HIDE DEF new
    <3>2. Len(new) = 3
      BY <1>2, <2>5, <3>1
    <3>3. 1 \in 1 .. Len(es) /\ 2 \in 1 .. Len(es)
      BY <2>5
    <3> QED  BY <2>5, <3>1, <3>2, <3>3
  <2>9. Grounded(new, game')
    <3>1. \A j \in 1 .. Len(es) : es[j].type # "SellStock" /\ es[j].type # "RotateSuit"
      BY <2>4, <2>6
    <3> QED  BY <1>0, <1>4, <2>3, <3>1, GroundedFront
  <2>10. StopsThere(new, game')
    <3> HIDE DEF new
    <3>1. \A j \in 1 .. 1 : new[j] = pass
      BY <2>8
    <3>2. new[Len(new) - 1] = stop /\ Len(new) - 2 = 1
      BY <2>8
    <3>3. "PassAction" \in PassEffects
      BY DEF PassEffects
    <3> QED  BY <2>3, <2>4, <3>1, <3>2, <3>3 DEF StopsThere
  <2>11. ~StopWaits(Pipe)
    <3>1. Pipe[1].type # "StopAction"
      BY <1>1, <1>2
    <3>2. Len(Pipe) - 1 = 1
      BY <1>2
    <3> QED  BY <3>1, <3>2 DEF StopWaits
  <2>12. \A j \in 1 .. Len(es) :
           /\ es[j].player = game.cur
           /\ es[j].type \in Ahead[End(Pipe).type]
           /\ es[j].type \in Late => j = Len(es) /\ Len(Pipe) = 2
    <3>1. /\ "PassAction" \in Ahead["EndTurn"] /\ "StopAction" \in Ahead["EndTurn"]
          /\ "PassAction" \notin Late
      BY DEF Ahead, StopEffects, PassEffects, Late
    <3> QED  BY <1>2, <2>4, <2>5, <2>6, <2>7, <3>1
  <2>13. PutFront(es)
    BY <2>1, <2>5 DEF pass, stop
  <2>14. Event.type # "StopAction"
    BY <1>1
  <2> QED  BY <1>1, <1>3, <1>4, <2>2, <2>3, <2>7, <2>9, <2>10, <2>11, <2>12, <2>13, <2>14,
              AsideKeeps
<1> QED
  BY <1>1, <1>5, <1>6, <1>7, <1>8

-----------------------------------------------------------------------------
(* The handlers that replace the whole pipeline. *)

LEMMA FreshKeeps ==
  ASSUME Inv, NEW q \in Seq(Events), q # <<>>, SetPipe(q), setup' = setup, game' \in Games,
         moves' \in Seq(Snapshots), path' \in Seq(Squares), before' \in Seq(Decisions),
         gameOver' \in BOOLEAN, winner' \in Players \cup {None},
         Shaped(q), Grounded(q, game'), StopsThere(q, game'),
         \A j \in 1 .. Len(q) : q[j].player = game'.cur,
         End(q).type # "AdvanceTurn" => ~game'.bankrupt[game'.cur],
         End(q).type = "AdvanceTurn" => Len(q) > 1,
         Len(pipes) > 1 =>
           /\ game'.cur = game.cur /\ game'.bankrupt[game.cur] = game.bankrupt[game.cur]
           /\ End(q).type \in {"Roll", "WillMove", "EndTurn"},
         before' # <<>> => End(q).type = "WillMove" \/ StopWaits(q),
         End(q).type = "Roll" => moves' = <<>> /\ path' = <<>> /\ before' = <<>>,
         Pipe' = q /\ End(q).type = "WillMove" => WalkKept'
  PROVE  Inv'
<1>1. Types' /\ Mine' /\ Nested' /\ Pipe' = q
  BY NewPipe
<1>2. TurnGoesOn'
  BY <1>1 DEF TurnGoesOn
<1>3. Walks'
  BY <1>1 DEF Walks, Walking
<1> QED
  BY <1>1, <1>2, <1>3 DEF Inv

(* A pipeline of the one event that carries the turn on. *)
LEMMA Single ==
  ASSUME NEW e \in Events, e.type \in DOMAIN Ahead, NEW g
  PROVE  /\ <<e>> \in Seq(Events) /\ <<e>> # <<>> /\ Len(<<e>>) = 1 /\ End(<<e>>) = e
         /\ Shaped(<<e>>) /\ Grounded(<<e>>, g) /\ StopsThere(<<e>>, g) /\ ~StopWaits(<<e>>)
         /\ \A j \in 1 .. Len(<<e>>) : <<e>>[j] = e
<1>1. PICK q \in Seq(Events) : q = <<e>> /\ q # <<>> /\ Len(q) = 1 /\ q[1] = e
  <2>1. <<e>> \in Seq(Events)
    OBVIOUS
  <2>2. <<e>> # <<>> /\ Len(<<e>>) = 1 /\ <<e>>[1] = e
    OBVIOUS
  <2> QED  BY <2>1, <2>2, Zenon
<1>2. End(q) = e /\ \A j \in 1 .. Len(q) : q[j] = e
  BY <1>1 DEF End
<1>3. Shaped(q)
  <2>1. \A j \in 1 .. Len(q) - 1 : FALSE
    BY <1>1
  <2> QED  BY <1>1, <1>2, <2>1 DEF Shaped
<1>4. Grounded(q, g)
  <2>1. e.type # "SellStock" /\ e.type # "RotateSuit"
    BY DEF Ahead
  <2> QED  BY <1>2, <2>1 DEF Grounded
<1>5. ~StopWaits(q) /\ StopsThere(q, g)
  BY <1>1 DEF StopWaits, StopsThere
<1> QED
  BY <1>1, <1>2, <1>3, <1>4, <1>5

(* A pipeline of that event and another one in front of it. *)
LEMMA Pair ==
  ASSUME NEW e \in Events, NEW f \in Events, NEW g,
         f.type \in DOMAIN Ahead, f.type # "AdvanceTurn", e.type \in Ahead[f.type],
         e.type # "SellStock", e.type # "RotateSuit",
         e.type = "StopAction" => g.pos[g.cur] = e.square
  PROVE  /\ <<e, f>> \in Seq(Events) /\ <<e, f>> # <<>> /\ Len(<<e, f>>) = 2 /\ End(<<e, f>>) = f
         /\ Shaped(<<e, f>>) /\ Grounded(<<e, f>>, g) /\ StopsThere(<<e, f>>, g)
         /\ e.type = "StopAction" => StopWaits(<<e, f>>)
         /\ \A j \in 1 .. Len(<<e, f>>) : <<e, f>>[j] = e \/ <<e, f>>[j] = f
<1>1. PICK q \in Seq(Events) : q = <<e, f>> /\ q # <<>> /\ Len(q) = 2 /\ q[1] = e /\ q[2] = f
  <2>1. <<e, f>> \in Seq(Events)
    OBVIOUS
  <2>2. <<e, f>> # <<>> /\ Len(<<e, f>>) = 2 /\ <<e, f>>[1] = e /\ <<e, f>>[2] = f
    OBVIOUS
  <2> QED  BY <2>1, <2>2, Zenon
<1>2. /\ End(q) = f
      /\ \A j \in 1 .. Len(q) : (j = 1 /\ q[j] = e) \/ (j = 2 /\ q[j] = f)
  BY <1>1 DEF End
<1>3. Shaped(q)
  <2>1. \A j \in 1 .. Len(q) - 1 : j = 1 /\ q[j] = e /\ j = Len(q) - 1
    BY <1>1
  <2> QED  BY <1>1, <1>2, <2>1 DEF Shaped
<1>4. Grounded(q, g)
  <2>1. f.type # "SellStock" /\ f.type # "RotateSuit"
    BY DEF Ahead
  <2> QED  BY <1>2, <2>1 DEF Grounded
<1>5. StopsThere(q, g) /\ (e.type = "StopAction" => StopWaits(q))
  <2>1. q[Len(q) - 1] = e /\ \A j \in 1 .. Len(q) - 2 : FALSE
    BY <1>1
  <2> QED  BY <1>1, <2>1 DEF StopWaits, StopsThere
<1> QED
  BY <1>1, <1>2, <1>3, <1>4, <1>5

(* What holds whenever the turn is carried on by the event at the head. *)
LEMMA OnlyHead ==
  ASSUME Inv, Pipe # <<>>, Event.type \in DOMAIN Ahead
  PROVE  /\ Pipe = <<Event>> /\ Len(Pipe) = 1 /\ Tail(Pipe) = <<>> /\ End(Pipe) = Event
         /\ Event \in Events /\ Event.player = game.cur /\ game.cur \in Players
         /\ Event.type # "WillMove" => before = <<>>
         /\ Event.type # "AdvanceTurn" => ~game.bankrupt[game.cur]
         /\ Len(pipes) > 1 => Event.type \in {"Roll", "WillMove", "EndTurn"}
<1>1. /\ Pipe \in Seq(Events) /\ Len(Pipe) = 1 /\ End(Pipe) = Event
      /\ Event \in Events /\ Event.player = game.cur /\ game.cur \in Players /\ Event = Pipe[1]
  BY HeadPlace
<1>2. Tail(Pipe) \in Seq(Events) /\ Len(Tail(Pipe)) = 0
  BY <1>1, HeadTailProperties
<1>3. Tail(Pipe) = <<>>
  BY <1>2, EmptySeq
<1>4. Pipe = <<Event>>
  <2>1. <<Event>> \in Seq(Events) /\ Len(<<Event>>) = 1 /\ \A i \in 1 .. 1 : <<Event>>[i] = Event
    BY <1>1
  <2> QED  BY <1>1, <2>1, SeqEqual
<1>5. Event.type # "WillMove" => before = <<>>
  <2>1. ~StopWaits(Pipe)
    BY <1>1 DEF StopWaits
  <2> QED  BY <1>1, <2>1 DEF Inv, Walks, Walking
<1>6. Event.type # "AdvanceTurn" => ~game.bankrupt[game.cur]
  BY <1>1 DEF Inv, TurnGoesOn
<1>7. Len(pipes) > 1 => Event.type \in {"Roll", "WillMove", "EndTurn"}
  BY <1>1 DEF Inv, Nested
<1> QED
  BY <1>1, <1>3, <1>4, <1>5, <1>6, <1>7

LEMMA TurnKeeps ==
  ASSUME Inv, HandleTurn
  PROVE  Inv'
<1> DEFINE p == Event.player
<1>1. /\ Pipe # <<>> /\ Event.type = "Turn" /\ setup' = setup
      /\ moves' = <<>> /\ path' = <<>> /\ UNCHANGED <<gameOver, winner, before>>
      /\ game' = [game EXCEPT !.cur = p]
      /\ \/ PutBack(<<Roll(p)>>)
         \/ PutBack(<<Of("InitSellStock", p), Turn(p)>>)
         \/ PutBack(<<Of("InitDeal", p), Turn(p)>>)
  BY DEF HandleTurn, Handling, NoUndo, SameOutcome
<1>2. /\ Event \in Events /\ p = game.cur /\ p \in Players /\ Tail(Pipe) = <<>>
      /\ before = <<>> /\ ~game.bankrupt[p] /\ ~(Len(pipes) > 1)
  <2>1. Pipe # <<>> /\ Event.type \in DOMAIN Ahead
    BY <1>1 DEF Ahead
  <2> QED  BY <1>1, <2>1, OnlyHead
<1>3. game \in Games /\ gameOver \in BOOLEAN /\ winner \in Players \cup {None}
  BY DEF Inv, Types
<1>4. game' \in Games /\ game'.cur = p /\ game'.bankrupt = game.bankrupt
  BY <1>1, <1>2, <1>3 DEF Games
<1>5. /\ moves' \in Seq(Snapshots) /\ path' \in Seq(Squares) /\ before' \in Seq(Decisions)
      /\ gameOver' \in BOOLEAN /\ winner' \in Players \cup {None}
  BY <1>1, <1>2, <1>3, EmptySeq
<1>6. /\ Turn(p) \in Events /\ Turn(p).type = "Turn" /\ Turn(p).player = p
      /\ Roll(p) \in Events /\ Roll(p).type = "Roll" /\ Roll(p).player = p
  <2>1. {"Turn", "Roll"} \subseteq Bare
    BY DEF Bare, EventTypes, Squared, Traded
  <2>2. Turn(p) \in Events /\ Roll(p) \in Events
    BY <1>2, <2>1 DEF Turn, Roll, Events
  <2> QED  BY <2>2 DEF Turn, Roll
<1>7. CASE PutBack(<<Roll(p)>>)
  <2>1. PICK e \in Events : e = Roll(p) /\ e.type = "Roll" /\ e.player = p
    BY <1>6
  <2>2. SetPipe(<<e>>)
    <3>1. <<>> \o <<e>> = <<e>>
      OBVIOUS
    <3> QED  BY <1>2, <1>7, <2>1, <3>1 DEF PutBack
  <2>3. e.type \in DOMAIN Ahead
    BY <2>1 DEF Ahead
  <2>4. before' = <<>> /\ moves' = <<>> /\ path' = <<>> /\ setup' = setup
    BY <1>1, <1>2
  <2> QED  BY <1>2, <1>4, <1>5, <2>1, <2>2, <2>3, <2>4, Single, FreshKeeps
<1>8. ASSUME NEW e \in Events, e.player = p, e.type \in {"InitSellStock", "InitDeal"},
             PutBack(<<e, Turn(p)>>)
      PROVE  Inv'
  <2>1. PICK f \in Events : f = Turn(p) /\ f.type = "Turn" /\ f.player = p
    BY <1>6
  <2>2. SetPipe(<<e, f>>)
    <3>1. <<>> \o <<e, f>> = <<e, f>>
      OBVIOUS
    <3> QED  BY <1>2, <1>8, <2>1, <3>1 DEF PutBack
  <2>3. /\ f.type \in DOMAIN Ahead /\ f.type # "AdvanceTurn" /\ e.type \in Ahead[f.type]
        /\ e.type # "SellStock" /\ e.type # "RotateSuit" /\ e.type # "StopAction"
    BY <1>8, <2>1 DEF Ahead
  <2>4. before' = <<>> /\ moves' = <<>> /\ path' = <<>> /\ setup' = setup
    BY <1>1, <1>2
  <2>5. \A g :
          /\ <<e, f>> \in Seq(Events) /\ <<e, f>> # <<>> /\ End(<<e, f>>) = f
          /\ Shaped(<<e, f>>) /\ Grounded(<<e, f>>, g) /\ StopsThere(<<e, f>>, g)
          /\ \A j \in 1 .. Len(<<e, f>>) : <<e, f>>[j] = e \/ <<e, f>>[j] = f
    BY <2>3, Pair
  <2>6. PICK q \in Seq(Events) : q = <<e, f>>
    BY <2>5
  <2>7. \A j \in 1 .. Len(q) : q[j].player = game'.cur
    BY <1>4, <1>8, <2>1, <2>5, <2>6
  <2>8. /\ q # <<>> /\ SetPipe(q) /\ Shaped(q) /\ Grounded(q, game') /\ StopsThere(q, game')
        /\ End(q).type = "Turn"
    BY <2>1, <2>2, <2>5, <2>6
  <2> QED  BY <1>2, <1>4, <1>5, <2>4, <2>7, <2>8, FreshKeeps
<1>9. /\ Of("InitSellStock", p) \in Events /\ Of("InitDeal", p) \in Events
  <2>1. {"InitSellStock", "InitDeal"} \subseteq Bare
    BY DEF Bare, EventTypes, Squared, Traded
  <2> QED  BY <1>2, <2>1 DEF Of, Events
<1>10. /\ Of("InitSellStock", p).player = p /\ Of("InitSellStock", p).type = "InitSellStock"
       /\ Of("InitDeal", p).player = p /\ Of("InitDeal", p).type = "InitDeal"
  BY DEF Of
<1> QED
  BY <1>1, <1>7, <1>8, <1>9, <1>10

LEMMA RollKeeps ==
  ASSUME Inv, HandleRoll
  PROVE  Inv'
<1> DEFINE p == Event.player
<1>1. /\ Pipe # <<>> /\ Event.type = "Roll"
      /\ UNCHANGED <<setup, game, gameOver, winner, before, moves, path>>
      /\ \E roll \in 1 .. setup.maxRoll : PutFront(<<WillMove(p, roll, roll)>>)
  BY DEF HandleRoll, Handling, SameMoves
<1>2. /\ p = game.cur /\ p \in Players /\ Tail(Pipe) = <<>>
      /\ before = <<>> /\ ~game.bankrupt[p] /\ End(Pipe) = Event
  <2>1. Pipe # <<>> /\ Event.type \in DOMAIN Ahead
    BY <1>1 DEF Ahead
  <2> QED  BY <1>1, <2>1, OnlyHead
<1>3. /\ game' \in Games /\ gameOver' \in BOOLEAN /\ winner' \in Players \cup {None}
      /\ moves' \in Seq(Snapshots) /\ path' \in Seq(Squares) /\ before' \in Seq(Decisions)
  BY <1>1 DEF Inv, Types
<1>4. moves' = <<>> /\ path' = <<>> /\ before' = <<>>
  BY <1>1, <1>2 DEF Inv, Walks
<1>5. PICK roll \in 1 .. setup.maxRoll : PutFront(<<WillMove(p, roll, roll)>>)
  BY <1>1
<1>6. PICK e \in Events : /\ e = WillMove(p, roll, roll) /\ e.type = "WillMove" /\ e.player = p
                          /\ e.total = roll /\ e.remaining = roll
  <2>1. roll \in Int
    BY Board
  <2>2. WillMove(p, roll, roll) \in Events
    BY <1>2, <2>1 DEF WillMove, Events
  <2> QED  BY <2>2 DEF WillMove
<1>7. SetPipe(<<e>>)
  <2>1. <<e>> \o <<>> = <<e>>
    OBVIOUS
  <2> QED  BY <1>2, <1>5, <1>6, <2>1 DEF PutFront
<1>8. e.type \in DOMAIN Ahead
  BY <1>6 DEF Ahead
<1>9. PICK q \in Seq(Events) :
        /\ q = <<e>> /\ q # <<>> /\ End(q) = e /\ Shaped(q) /\ Grounded(q, game')
        /\ StopsThere(q, game') /\ \A j \in 1 .. Len(q) : q[j] = e
  BY <1>8, Single
<1>10. ASSUME Pipe' = q PROVE WalkKept'
  <2>1. Len(moves') = 0 /\ Len(before') = 0 /\ Len(path') = 0
    BY <1>4, EmptySeq
  <2>3. CostTo(game, Len(path))' = 0
    <3>1. {i \in 1 .. Len(path') : game'.kind[path'[i]] # "DOORWAY"} = {}
      BY <2>1
    <3> QED  BY <3>1, FS_EmptySet DEF CostTo, Costs
  <2>4. End(Pipe)' = e
    BY <1>9, <1>10
  <2>5. e.total - e.remaining = 0
    BY <1>6, Board
  <2> QED  BY <2>1, <2>3, <2>4, <2>5 DEF WalkKept
<1> QED
  BY <1>1, <1>2, <1>3, <1>4, <1>6, <1>7, <1>9, <1>10, FreshKeeps

LEMMA StopMovingKeeps ==
  ASSUME Inv, StopMoving
  PROVE  Inv'
<1> DEFINE p == Event.player
<1>1. /\ Pipe # <<>> /\ Event.type = "WillMove"
      /\ PutBack(<<At("StopAction", p, game.pos[p]), Of("EndTurn", p)>>)
      /\ UNCHANGED <<setup, game, gameOver, winner, before, moves, path>>
  BY DEF StopMoving, Handling, Leaf, SameMoves, SameOutcome
<1>2. /\ p = game.cur /\ p \in Players /\ Tail(Pipe) = <<>> /\ ~game.bankrupt[p]
  <2>1. Pipe # <<>> /\ Event.type \in DOMAIN Ahead
    BY <1>1 DEF Ahead
  <2> QED  BY <1>1, <2>1, OnlyHead
<1>3. /\ game' \in Games /\ gameOver' \in BOOLEAN /\ winner' \in Players \cup {None}
      /\ moves' \in Seq(Snapshots) /\ path' \in Seq(Squares) /\ before' \in Seq(Decisions)
      /\ game \in Games
  BY <1>1 DEF Inv, Types
<1>4. PICK e \in Events, f \in Events :
        /\ e = At("StopAction", p, game.pos[p]) /\ f = Of("EndTurn", p)
        /\ e.type = "StopAction" /\ e.player = p /\ e.square = game.pos[p]
        /\ f.type = "EndTurn" /\ f.player = p
  <2>1. game.pos[p] \in Squares
    BY <1>2, <1>3 DEF Games
  <2>2. "StopAction" \in Squared /\ "EndTurn" \in Bare
    BY DEF Bare, EventTypes, Squared, Traded
  <2>3. At("StopAction", p, game.pos[p]) \in Events /\ Of("EndTurn", p) \in Events
    BY <1>2, <2>1, <2>2, MadeEvents
  <2> QED  BY <2>3 DEF At, Of
<1>5. SetPipe(<<e, f>>)
  <2>1. <<>> \o <<e, f>> = <<e, f>>
    OBVIOUS
  <2> QED  BY <1>1, <1>2, <1>4, <2>1 DEF PutBack
<1>6. /\ f.type \in DOMAIN Ahead /\ f.type # "AdvanceTurn" /\ e.type \in Ahead[f.type]
      /\ e.type # "SellStock" /\ e.type # "RotateSuit"
      /\ game'.pos[game'.cur] = e.square
  BY <1>1, <1>2, <1>4 DEF Ahead, StopEffects
<1>7. PICK q \in Seq(Events) :
        /\ q = <<e, f>> /\ q # <<>> /\ End(q) = f /\ Shaped(q) /\ Grounded(q, game')
        /\ StopsThere(q, game') /\ StopWaits(q)
        /\ \A j \in 1 .. Len(q) : q[j] = e \/ q[j] = f
  <2>1. /\ <<e, f>> \in Seq(Events) /\ <<e, f>> # <<>> /\ End(<<e, f>>) = f
        /\ Shaped(<<e, f>>) /\ Grounded(<<e, f>>, game') /\ StopsThere(<<e, f>>, game')
        /\ StopWaits(<<e, f>>)
        /\ \A j \in 1 .. Len(<<e, f>>) : <<e, f>>[j] = e \/ <<e, f>>[j] = f
    BY <1>4, <1>6, Pair
  <2> QED  BY <2>1
<1> QED
  BY <1>1, <1>2, <1>3, <1>4, <1>5, <1>7, FreshKeeps

(* The undo that the code takes when nothing can be undone. *)
LEMMA UndoNothingKeeps ==
  ASSUME Inv, UndoNothing
  PROVE  Inv'
<1>1. /\ Pipe # <<>> /\ Event.type = "WillMove" /\ Consume /\ setup.staleUndo /\ moves = <<>>
      /\ UNCHANGED <<setup, game, gameOver, winner, before, moves, path>>
  BY DEF UndoNothing, Handling, Leaf, SameMoves, SameOutcome
<1>2. /\ Tail(Pipe) = <<>> /\ ~game.bankrupt[game.cur] /\ End(Pipe) = Event /\ game.cur \in Players
  <2>1. Pipe # <<>> /\ Event.type \in DOMAIN Ahead
    BY <1>1 DEF Ahead
  <2> QED  BY <1>1, <2>1, OnlyHead
<1>3. before = <<>>
  <2>1. Len(before) = 0 /\ before \in Seq(Decisions)
    BY <1>1, <1>2, EmptySeq DEF Inv, Types, Walks, Walking, WalkKept
  <2> QED  BY <2>1, EmptySeq
<1>4. /\ game' \in Games /\ gameOver' \in BOOLEAN /\ winner' \in Players \cup {None}
      /\ moves' \in Seq(Snapshots) /\ path' \in Seq(Squares) /\ before' \in Seq(Decisions)
  BY <1>1 DEF Inv, Types
<1>5. PICK q \in Seq(Events) : q = <<>> /\ Len(q) = 0
  BY EmptySeq
<1>6. SetPipe(q)
  <2>1. <<>> \o <<>> = <<>>
    OBVIOUS
  <2> QED  BY <1>1, <1>2, <1>5, <2>1 DEF Consume, PutFront
<1>7. Types' /\ Mine' /\ Nested' /\ Pipe' = q
  <2>1. \A j \in 1 .. Len(q) : q[j].player = game'.cur
    BY <1>5
  <2>2. setup' = setup /\ game' = game
    BY <1>1
  <2> QED  BY <1>4, <1>5, <1>6, <2>1, <2>2, NewPipe
<1>8. Shaped(q) /\ Grounded(q, game') /\ StopsThere(q, game') /\ ~StopWaits(q)
  BY <1>5 DEF Shaped, Grounded, StopsThere, StopWaits
<1>9. TurnGoesOn'
  BY <1>1, <1>5, <1>7 DEF TurnGoesOn
<1>10. Walks'
  BY <1>1, <1>3, <1>5, <1>7 DEF Walks, Walking
<1> QED
  BY <1>7, <1>8, <1>9, <1>10 DEF Inv

(* Behind the last effect of a stop waits the end of the turn, alone. *)
LEMMA LastEffect ==
  ASSUME Inv, Pipe # <<>>, Event.type \in {"VentureCard", "RollAgain"}
  PROVE  /\ Event.player = game.cur /\ game.cur \in Players /\ ~game.bankrupt[game.cur]
         /\ before = <<>> /\ Tail(Pipe) \in Seq(Events)
         /\ Tail(Pipe) = <<Of("EndTurn", game.cur)>>
         /\ DOMAIN Tail(Pipe) = {1} /\ Tail(Pipe)[1].type = "EndTurn"
<1> DEFINE p == game.cur
<1>1. /\ Event.type \notin DOMAIN Ahead /\ Event.type \in StopEffects \ PassEffects
      /\ Event.type \in Late /\ Event.type # "StopAction"
  BY DEF Ahead, StopEffects, PassEffects, Late
<1>2. /\ Pipe \in Seq(Events) /\ Event = Pipe[1] /\ Event.player = p /\ p \in Players
      /\ Len(Pipe) = 2 /\ End(Pipe).type = "EndTurn" /\ End(Pipe).player = p
      /\ End(Pipe) \in Events /\ End(Pipe) = Pipe[2]
  BY <1>1, HeadPlace, EndPlace DEF End
<1>3. ~game.bankrupt[p]
  BY <1>2 DEF Inv, TurnGoesOn
<1>4. before = <<>>
  <2>1. ~StopWaits(Pipe)
    <3>1. Len(Pipe) - 1 = 1
      BY <1>2
    <3> QED  BY <1>1, <1>2, <3>1 DEF StopWaits
  <2> QED  BY <1>2, <2>1 DEF Inv, Walks, Walking
<1>5. PICK t \in Seq(Events) : t = Tail(Pipe) /\ Len(t) = 1 /\ t[1] = End(Pipe)
  <2>1. /\ Tail(Pipe) \in Seq(Events) /\ Len(Tail(Pipe)) = Len(Pipe) - 1
        /\ \A i \in 1 .. Len(Tail(Pipe)) : Tail(Pipe)[i] = Pipe[i + 1]
    BY <1>2, HeadTailProperties
  <2>2. PICK t : t = Tail(Pipe)
    OBVIOUS
  <2>3. t \in Seq(Events) /\ Len(t) = 1 /\ \A i \in 1 .. Len(t) : t[i] = Pipe[i + 1]
    BY <1>2, <2>1, <2>2
  <2>4. t[1] = Pipe[2]
    <3>1. 1 \in 1 .. Len(t) /\ 1 + 1 = 2
      BY <2>3
    <3> QED  BY <2>3, <3>1
  <2> QED  BY <1>2, <2>2, <2>3, <2>4
<1>6. End(Pipe) = Of("EndTurn", p)
  <2>1. "EndTurn" \in Bare
    BY DEF Bare, EventTypes, Squared, Traded
  <2> QED  BY <1>2, <2>1, EventFields
<1>7. t = <<End(Pipe)>>
  <2>1. PICK q \in Seq(Events) : q = <<End(Pipe)>> /\ Len(q) = 1 /\ q[1] = End(Pipe)
    <3>1. <<End(Pipe)>> \in Seq(Events)
      BY <1>2
    <3>2. Len(<<End(Pipe)>>) = 1 /\ <<End(Pipe)>>[1] = End(Pipe)
      OBVIOUS
    <3> QED  BY <3>1, <3>2, Zenon
  <2>2. \A i \in 1 .. Len(t) : t[i] = q[i]
    <3>1. \A i \in 1 .. Len(t) : i = 1
      BY <1>5
    <3> QED  BY <1>5, <2>1, <3>1
  <2>3. t = q
    BY <1>5, <2>1, <2>2, SeqEqual
  <2> QED  BY <2>1, <2>3
<1>8. DOMAIN t = {1}
  <2>1. DOMAIN t = 1 .. Len(t)
    BY <1>5, LenProperties
  <2>2. 1 .. 1 = {1}
    OBVIOUS
  <2> QED  BY <1>5, <2>1, <2>2
<1> QED
  BY <1>2, <1>3, <1>4, <1>5, <1>6, <1>7, <1>8

(* A roll-on square drops the end of the turn: the new roll brings its own. *)
LEMMA RollAgainKeeps ==
  ASSUME Inv, HandleRollAgain
  PROVE  Inv'
<1> DEFINE p == Event.player
           Kept(e) == e.type \notin {"EndTurn", "Turn"}
<1>1. /\ Pipe # <<>> /\ Event.type = "RollAgain"
      /\ SetPipe(<<Roll(p)>> \o Picked(Tail(Pipe), Kept))
      /\ moves' = <<>> /\ path' = <<>> /\ UNCHANGED <<setup, game, gameOver, winner, before>>
  BY DEF HandleRollAgain, Handling, NoUndo, SameOutcome
<1>2. /\ p = game.cur /\ p \in Players /\ ~game.bankrupt[p] /\ before = <<>>
      /\ DOMAIN Tail(Pipe) = {1} /\ Tail(Pipe)[1].type = "EndTurn"
  BY <1>1, LastEffect
<1>3. Picked(Tail(Pipe), Kept) = <<>>
  <2> DEFINE at == {i \in DOMAIN Tail(Pipe) : Kept(Tail(Pipe)[i])}
             chosen(k) == Tail(Pipe)[CHOOSE i \in at : Cardinality({j \in at : j <= i}) = k]
  <2>1. at = {}
    BY <1>2
  <2>2. Cardinality(at) = 0
    BY <2>1, FS_EmptySet
  <2>3. Picked(Tail(Pipe), Kept) = [k \in 1 .. Cardinality(at) |-> chosen(k)]
    BY DEF Picked
  <2> HIDE DEF at, chosen
  <2>4. [k \in 1 .. 0 |-> chosen(k)] = <<>>
    OBVIOUS
  <2> QED  BY <2>2, <2>3, <2>4
<1>4. PICK e \in Events : e = Roll(p) /\ e.type = "Roll" /\ e.player = p
  <2>1. "Roll" \in Bare
    BY DEF Bare, EventTypes, Squared, Traded
  <2>2. Roll(p) \in Events
    BY <1>2, <2>1 DEF Roll, Events
  <2> QED  BY <2>2 DEF Roll
<1>5. SetPipe(<<e>>)
  <2>1. <<e>> \o <<>> = <<e>>
    OBVIOUS
  <2> QED  BY <1>1, <1>3, <1>4, <2>1
<1>6. e.type \in DOMAIN Ahead
  BY <1>4 DEF Ahead
<1>7. setup' = setup /\ before' = <<>> /\ moves' = <<>> /\ path' = <<>> /\ game' = game
  BY <1>1, <1>2
<1>8. /\ game' \in Games /\ gameOver' \in BOOLEAN /\ winner' \in Players \cup {None}
      /\ moves' \in Seq(Snapshots) /\ path' \in Seq(Squares) /\ before' \in Seq(Decisions)
  BY <1>1, <1>7, EmptySeq DEF Inv, Types
<1>9. PICK q \in Seq(Events) :
        /\ q = <<e>> /\ q # <<>> /\ End(q) = e /\ Shaped(q) /\ Grounded(q, game')
        /\ StopsThere(q, game') /\ \A j \in 1 .. Len(q) : q[j] = e
  BY <1>6, Single
<1> QED
  BY <1>2, <1>4, <1>5, <1>7, <1>8, <1>9, FreshKeeps

(* A card starts a bonus roll: the pipeline it interrupts holds nothing    *)
(* but the end of the turn.                                                *)
LEMMA BonusRollKeeps ==
  ASSUME Inv, HandleVentureCard, BonusRoll
  PROVE  Inv'
<1> DEFINE p == Event.player
           spent == [pipes EXCEPT ![Len(pipes)] = Tail(@)]
<1>1. /\ Pipe # <<>> /\ Event.type = "VentureCard" /\ pipes' = Append(spent, <<Roll(p)>>)
      /\ UNCHANGED <<setup, gameOver, winner, before>>
      /\ moves' = <<>> /\ path' = <<>> /\ game' = game
  BY DEF HandleVentureCard, Handling, BonusRoll, NoUndo
<1>2. /\ p = game.cur /\ p \in Players /\ ~game.bankrupt[p] /\ before = <<>>
      /\ Tail(Pipe) \in Seq(Events) /\ Tail(Pipe) = <<Of("EndTurn", p)>>
  BY <1>1, LastEffect
<1>3. PICK n \in Nat \ {0} : n = Len(pipes) /\ pipes \in Seq(Seq(Events)) /\ pipes[n] = Pipe
  BY EmptySeq DEF Inv, Types, Pipe
<1>4. PICK w \in Seq(Seq(Events)) :
        /\ w = spent /\ Len(w) = n
        /\ \A j \in 1 .. n : w[j] = IF j = n THEN Tail(Pipe) ELSE pipes[j]
  <2>1. n \in 1 .. Len(pipes) /\ spent = [pipes EXCEPT ![n] = Tail(Pipe)]
    BY <1>3
  <2>2. PICK t \in Seq(Events) : t = Tail(Pipe)
    BY <1>2
  <2>3. /\ [pipes EXCEPT ![n] = t] \in Seq(Seq(Events)) /\ Len([pipes EXCEPT ![n] = t]) = n
        /\ \A j \in 1 .. n : [pipes EXCEPT ![n] = t][j] = IF j = n THEN t ELSE pipes[j]
    BY <1>3, <2>1, ExceptSeq
  <2> HIDE DEF spent
  <2> QED  BY <2>1, <2>2, <2>3
<1> HIDE DEF spent
<1>5. PICK e \in Events : e = Roll(p) /\ e.type = "Roll" /\ e.player = p
  <2>1. "Roll" \in Bare
    BY DEF Bare, EventTypes, Squared, Traded
  <2>2. Roll(p) \in Events
    BY <1>2, <2>1 DEF Roll, Events
  <2> QED  BY <2>2 DEF Roll
<1>6. PICK q \in Seq(Events) :
        /\ q = <<e>> /\ q # <<>> /\ Len(q) = 1 /\ End(q) = e /\ Shaped(q) /\ Grounded(q, game)
        /\ StopsThere(q, game) /\ \A j \in 1 .. Len(q) : q[j] = e
  <2>1. e.type \in DOMAIN Ahead
    BY <1>5 DEF Ahead
  <2> QED  BY <2>1, Single
<1>7. pipes' = Append(w, q)
  BY <1>1, <1>4, <1>5, <1>6
<1>8. /\ pipes' \in Seq(Seq(Events)) /\ Len(pipes') = n + 1
      /\ \A j \in 1 .. n : pipes'[j] = w[j]
      /\ pipes'[n + 1] = q
  BY <1>4, <1>7, AppendProperties
<1>9. pipes' # <<>> /\ Pipe' = q
  BY <1>8, EmptySeq DEF Pipe
<1>10. pipes'[n] = <<Of("EndTurn", p)>> /\ \A j \in 1 .. n - 1 : pipes'[j] = pipes[j]
  <2>1. n \in 1 .. n /\ \A j \in 1 .. n - 1 : j \in 1 .. n /\ j # n
    OBVIOUS
  <2> QED  BY <1>2, <1>4, <1>8, <2>1
<1>11. Types'
  <2>1. /\ Players' = Players /\ Squares' = Squares
        /\ Events' = Events /\ Games' = Games
        /\ Snapshots' = Snapshots /\ Decisions' = Decisions
    BY <1>1, SameSetup
  <2>2. moves' \in Seq(Snapshots) /\ path' \in Seq(Squares)
    BY <1>1, EmptySeq
  <2>3. /\ setup \in Setups /\ game \in Games /\ before \in Seq(Decisions)
        /\ gameOver \in BOOLEAN /\ winner \in Players \cup {None}
    BY DEF Inv, Types
  <2> QED  BY <1>1, <1>8, <1>9, <2>1, <2>2, <2>3 DEF Types
<1>12. Nested'
  <2>1. \A i \in 1 .. n - 1 : pipes[i] = <<Of("EndTurn", p)>>
    BY <1>2, <1>3 DEF Inv, Nested
  <2>2. ASSUME NEW i \in 1 .. n PROVE pipes'[i] = <<Of("EndTurn", p)>>
    <3>1. i = n \/ i \in 1 .. n - 1
      OBVIOUS
    <3> QED  BY <1>10, <2>1, <3>1
  <2>3. Len(pipes') - 1 = n
    BY <1>8
  <2> QED  BY <1>1, <1>2, <1>5, <1>6, <1>9, <2>2, <2>3 DEF Nested
<1>13. Mine'
  <2>1. \A i \in 1 .. n - 1 : \A j \in 1 .. Len(pipes[i]) : pipes[i][j].player = p
    BY <1>2, <1>3 DEF Inv, Mine
  <2>2. ASSUME NEW i \in 1 .. n + 1, NEW j \in 1 .. Len(pipes'[i])
        PROVE  pipes'[i][j].player = p
    <3>1. i = n + 1 \/ i = n \/ i \in 1 .. n - 1
      OBVIOUS
    <3>2. CASE i = n + 1
      BY <1>5, <1>6, <1>8, <3>2
    <3>3. CASE i = n
      <4>1. pipes'[n] = <<Of("EndTurn", p)>>
        BY <1>10
      <4>2. \A k \in 1 .. Len(<<Of("EndTurn", p)>>) :
              <<Of("EndTurn", p)>>[k].player = p
        BY DEF Of
      <4> QED  BY <3>3, <4>1, <4>2
    <3>4. CASE i \in 1 .. n - 1
      BY <1>10, <2>1, <3>4
    <3> QED  BY <3>1, <3>2, <3>3, <3>4
  <2> QED  BY <1>1, <1>2, <1>8, <2>2 DEF Mine
<1>14. TurnGoesOn'
  BY <1>1, <1>2, <1>5, <1>6, <1>9 DEF TurnGoesOn
<1>15. Walks'
  <2>1. before' = <<>> /\ moves' = <<>> /\ path' = <<>>
    BY <1>1, <1>2
  <2> QED  BY <1>5, <1>6, <1>9, <2>1 DEF Walks, Walking
<1> QED
  BY <1>1, <1>6, <1>9, <1>11, <1>12, <1>13, <1>14, <1>15 DEF Inv

(* The bonus roll is done: what it interrupted goes on. *)
LEMMA LeaveExtraRollKeeps ==
  ASSUME Inv, LeaveExtraRoll
  PROVE  Inv'
<1> DEFINE p == game.cur
<1>1. /\ Len(pipes) > 1 /\ (Pipe = <<>> \/ Event.type = "EndTurn")
      /\ pipes' = SubSeq(pipes, 1, Len(pipes) - 1)
      /\ UNCHANGED <<setup, game, gameOver, winner, before, moves, path>>
  BY DEF LeaveExtraRoll, Leaf, SameMoves, SameOutcome
<1>2. PICK n \in Nat \ {0} : n = Len(pipes) /\ pipes \in Seq(Seq(Events)) /\ pipes # <<>>
  BY EmptySeq DEF Inv, Types
<1>3. /\ pipes' \in Seq(Seq(Events)) /\ Len(pipes') = n - 1
      /\ \A i \in 1 .. n - 1 : pipes'[i] = pipes[i]
  BY <1>1, <1>2, Shortened
<1>4. n > 1 /\ n - 1 \in 1 .. n - 1
  BY <1>1, <1>2
<1>5. /\ \A i \in 1 .. n - 1 : pipes[i] = <<Of("EndTurn", p)>>
      /\ ~game.bankrupt[p] /\ p \in Players /\ game \in Games
  BY <1>1, <1>2 DEF Inv, Nested, Types, Games
<1>6. PICK e \in Events : e = Of("EndTurn", p) /\ e.type = "EndTurn" /\ e.player = p
  <2>1. "EndTurn" \in Bare
    BY DEF Bare, EventTypes, Squared, Traded
  <2>2. Of("EndTurn", p) \in Events
    BY <1>5, <2>1 DEF Of, Events
  <2> QED  BY <2>2 DEF Of
<1>7. PICK q \in Seq(Events) :
        /\ q = <<e>> /\ q # <<>> /\ Len(q) = 1 /\ End(q) = e /\ Shaped(q) /\ Grounded(q, game)
        /\ StopsThere(q, game) /\ \A j \in 1 .. Len(q) : q[j] = e
  <2>1. e.type \in DOMAIN Ahead
    BY <1>6 DEF Ahead
  <2> QED  BY <2>1, Single
<1>8. pipes' # <<>> /\ Pipe' = q
  BY <1>3, <1>4, <1>5, <1>6, <1>7, EmptySeq DEF Pipe
<1>9. before = <<>>
  <2>1. CASE Pipe = <<>>
    <3>1. ~StopWaits(Pipe)
      BY <2>1, EmptySeq DEF StopWaits
    <3> QED  BY <2>1, <3>1 DEF Inv, Walks, Walking
  <2>2. CASE Pipe # <<>> /\ Event.type = "EndTurn"
    <3>1. Event.type \in DOMAIN Ahead
      BY <2>2 DEF Ahead
    <3> QED  BY <2>2, <3>1, OnlyHead
  <2> QED  BY <1>1, <2>1, <2>2
<1>10. Types'
  <2>1. /\ Players' = Players /\ Squares' = Squares
        /\ Events' = Events /\ Games' = Games
        /\ Snapshots' = Snapshots /\ Decisions' = Decisions
    BY <1>1, SameSetup
  <2> QED  BY <1>1, <1>3, <1>8, <2>1 DEF Types, Inv
<1>11. Nested'
  <2>1. \A i \in 1 .. n - 2 : i \in 1 .. n - 1
    OBVIOUS
  <2>2. Len(pipes') - 1 = n - 2
    BY <1>3
  <2> QED  BY <1>1, <1>3, <1>5, <1>6, <1>7, <1>8, <2>1, <2>2 DEF Nested
<1>12. Mine'
  <2>1. \A i \in 1 .. n : \A j \in 1 .. Len(pipes[i]) : pipes[i][j].player = p
    BY <1>2 DEF Inv, Mine
  <2>2. \A i \in 1 .. n - 1 : i \in 1 .. n
    OBVIOUS
  <2> QED  BY <1>1, <1>3, <2>1, <2>2 DEF Mine
<1>13. TurnGoesOn'
  BY <1>1, <1>5, <1>6, <1>7, <1>8 DEF TurnGoesOn
<1>14. Walks'
  BY <1>1, <1>6, <1>7, <1>8, <1>9 DEF Walks, Walking
<1> QED
  BY <1>1, <1>7, <1>8, <1>10, <1>11, <1>12, <1>13, <1>14 DEF Inv

LEMMA EndTurnKeeps ==
  ASSUME Inv, HandleEndTurn
  PROVE  Inv'
<1> DEFINE p == Event.player
<1>1. /\ Pipe # <<>> /\ Event.type = "EndTurn" /\ Len(pipes) = 1
      /\ PutFront(ClosingEvents(p))
      /\ UNCHANGED <<setup, game, gameOver, winner, before, moves, path>>
  BY DEF HandleEndTurn, Handling, Leaf, SameMoves, SameOutcome
<1>2. /\ p = game.cur /\ p \in Players /\ Tail(Pipe) = <<>> /\ before = <<>>
  <2>1. Pipe # <<>> /\ Event.type \in DOMAIN Ahead
    BY <1>1 DEF Ahead
  <2> QED  BY <1>1, <2>1, OnlyHead
<1>3. /\ game' \in Games /\ gameOver' \in BOOLEAN /\ winner' \in Players \cup {None}
      /\ moves' \in Seq(Snapshots) /\ path' \in Seq(Squares) /\ before' \in Seq(Decisions)
  BY <1>1 DEF Inv, Types
<1> DEFINE es == ClosingEvents(p)
<1>4. \A j \in 1 .. 6 : es[j] \in Events /\ es[j].player = p
  <2>1. {"LiquidationPhase", "BankruptcyCheck", "StockFluctuation", "TickStatuses",
         "GameOverCheck", "AdvanceTurn"} \subseteq Bare
    BY DEF Bare, EventTypes, Squared, Traded
  <2>2. \A t \in Bare : Of(t, p) \in Events /\ Of(t, p).player = p
    BY <1>2 DEF Of, Events
  <2> QED  BY <2>1, <2>2 DEF ClosingEvents
<1>5. /\ Len(es) = 6 /\ es # <<>>
      /\ es[1].type = "LiquidationPhase" /\ es[2].type = "BankruptcyCheck"
      /\ es[3].type = "StockFluctuation" /\ es[4].type = "TickStatuses"
      /\ es[5].type = "GameOverCheck" /\ es[6].type = "AdvanceTurn"
  BY DEF ClosingEvents, Of
<1>6. es \in Seq(Events) /\ es \o <<>> = es
  <2>1. /\ es[1] \in Events /\ es[2] \in Events /\ es[3] \in Events
        /\ es[4] \in Events /\ es[5] \in Events /\ es[6] \in Events
    BY <1>4
  <2>2. es = <<es[1], es[2], es[3], es[4], es[5], es[6]>>
    BY DEF ClosingEvents
  <2>3. es \in Seq(Events)
    <3> HIDE DEF es
    <3>1. <<es[1], es[2], es[3], es[4], es[5], es[6]>> \in Seq(Events)
      BY <2>1
    <3> QED  BY <2>2, <3>1
  <2>4. es \o <<>> = es
    BY <2>3, ConcatEmptySeq
  <2> QED  BY <2>3, <2>4
<1> HIDE DEF es
<1>7. PICK q \in Seq(Events) : q = es /\ Len(q) = 6 /\ q # <<>> /\ End(q) = q[6]
  BY <1>5, <1>6 DEF End
<1>8. SetPipe(q)
  BY <1>1, <1>2, <1>6, <1>7 DEF PutFront, es
<1>9. \A j \in 1 .. Len(q) : j = 1 \/ j = 2 \/ j = 3 \/ j = 4 \/ j = 5 \/ j = 6
  BY <1>7
<1>10. Shaped(q)
  <2>1. \A j \in 1 .. Len(q) - 1 : j = 1 \/ j = 2 \/ j = 3 \/ j = 4 \/ j = 5
    BY <1>7
  <2>2. /\ q[6].type \in DOMAIN Ahead
        /\ \A j \in 1 .. Len(q) - 1 :
             q[j].type \in Ahead["AdvanceTurn"] /\ (q[j].type \in Late => j = 5)
    BY <1>5, <1>7, <2>1 DEF Ahead, Late
  <2>3. Len(q) - 1 = 5 /\ q[5].type = "GameOverCheck" /\ End(q).type = "AdvanceTurn"
    BY <1>5, <1>7
  <2>4. End(q).type \in DOMAIN Ahead
    BY <2>3 DEF Ahead
  <2>5. q[Len(q) - 1].type = "GameOverCheck"
    BY <2>3
  <2>6. \A j \in 1 .. Len(q) - 1 :
          q[j].type \in Ahead[End(q).type] /\ (q[j].type \in Late => j = Len(q) - 1)
    BY <2>2, <2>3
  <2> QED  BY <2>4, <2>5, <2>6 DEF Shaped
<1>11. \A j \in 1 .. Len(q) : q[j].type \notin {"SellStock", "RotateSuit", "StopAction"}
  BY <1>5, <1>7, <1>9
<1>12. Grounded(q, game') /\ StopsThere(q, game')
  <2>1. Len(q) - 1 = 5 /\ q[5].type = "GameOverCheck"
    BY <1>5, <1>7
  <2> QED  BY <1>11, <2>1 DEF Grounded, StopsThere, StopWaits
<1>13. \A j \in 1 .. Len(q) : q[j].player = game'.cur
  BY <1>1, <1>2, <1>4, <1>7
<1>14. End(q).type = "AdvanceTurn" /\ Len(q) > 1 /\ ~(Len(pipes) > 1)
  BY <1>1, <1>5, <1>7
<1>15. before' = <<>> /\ setup' = setup
  BY <1>1, <1>2
<1> QED
  BY <1>3, <1>7, <1>8, <1>10, <1>12, <1>13, <1>14, <1>15, FreshKeeps

(* The turn goes round the table to one who is still in the game. *)
LEMMA Modulo ==
  ASSUME NEW n \in Nat \ {0}, NEW x \in 0 .. n - 1
  PROVE  x % n = x /\ (x + n) % n = x
OBVIOUS

LEMMA NextIsFirst ==
  ASSUME Inv, Active # {}, NEW p \in Players
  PROVE  LET after(k) == (p + k) % setup.players IN
         \E k \in 1 .. setup.players :
           /\ NextActive(p) = after(k) /\ after(k) \in Active
           /\ \A j \in 1 .. setup.players : after(j) \in Active => k <= j
<1>1. PICK n \in Nat \ {0} : n = setup.players
  BY Board
<1> DEFINE after(k) == (p + k) % n
           found == {k \in 1 .. n : after(k) \in Active}
<1>2. PICK q \in Active : q \in 0 .. n - 1
  BY <1>1 DEF Active, Players
<1>3. p \in 0 .. n - 1
  BY <1>1 DEF Players
<1>4. found # {}
  <2>1. CASE q > p
    <3>1. q - p \in 1 .. n /\ p + (q - p) = q
      BY <1>2, <1>3, <2>1
    <3>2. q % n = q
      BY <1>2, Modulo
    <3> QED  BY <1>2, <3>1, <3>2
  <2>2. CASE q <= p
    <3>1. q - p + n \in 1 .. n /\ p + (q - p + n) = q + n
      BY <1>2, <1>3, <2>2
    <3>2. (q + n) % n = q
      BY <1>2, Modulo
    <3> QED  BY <1>2, <3>1, <3>2
  <2> QED  BY <1>2, <1>3, <2>1, <2>2
<1>5. \E k \in found : \A j \in found : k <= j
  <2>1. found \subseteq Nat
    OBVIOUS
  <2> HIDE DEF found
  <2>2. PICK k \in found : \A y \in found : <<y, k>> \notin OpToRel(<, Nat)
    BY <1>4, <2>1, NatLessThanWellFounded, WFMin
  <2>3. \A x, y \in Nat : x < y => <<x, y>> \in OpToRel(<, Nat)
    BY DEF OpToRel
  <2>4. \A x, y \in Nat : ~(x < y) => y <= x
    OBVIOUS
  <2>5. \A j \in found : k <= j
    BY <2>1, <2>2, <2>3, <2>4
  <2> QED  BY <2>5
<1>6. NextActive(p) = after(CHOOSE k \in found : \A j \in found : k <= j)
  BY <1>1, <1>4 DEF NextActive
<1> DEFINE first == CHOOSE k \in found : \A j \in found : k <= j
<1>7. first \in found /\ \A j \in found : first <= j
  BY <1>5
<1> HIDE DEF first
<1>8. /\ NextActive(p) = after(first) /\ first \in 1 .. n /\ after(first) \in Active
      /\ \A j \in 1 .. n : after(j) \in Active => first <= j
  BY <1>6, <1>7 DEF first
<1> QED
  BY <1>1, <1>8

LEMMA NextIsActive ==
  ASSUME Inv, Active # {}, NEW p \in Players
  PROVE  NextActive(p) \in Active
BY NextIsFirst

LEMMA AdvanceTurnKeeps ==
  ASSUME Inv, HandleAdvanceTurn
  PROVE  Inv'
<1> DEFINE p == NextActive(game.cur)
<1>1. /\ Pipe # <<>> /\ Event.type = "AdvanceTurn" /\ (Len(pipes) = 1 => ~gameOver)
      /\ game' = [game EXCEPT !.cur = p] /\ PutFront(<<Turn(p)>>)
      /\ UNCHANGED <<setup, gameOver, winner, before, moves, path>>
  BY DEF HandleAdvanceTurn, Handling, Leaf, SameMoves, SameOutcome
<1>2. /\ game.cur \in Players /\ Tail(Pipe) = <<>> /\ before = <<>> /\ End(Pipe) = Event
      /\ ~(Len(pipes) > 1) /\ Len(Pipe) = 1
  <2>1. Pipe # <<>> /\ Event.type \in DOMAIN Ahead
    BY <1>1 DEF Ahead
  <2> QED  BY <1>1, <2>1, OnlyHead
<1>3. Active # {}
  <2>1. Len(pipes) = 1
    <3>1. PICK m \in Nat \ {0} : m = Len(pipes)
      BY EmptySeq DEF Inv, Types
    <3> QED  BY <1>2, <3>1
  <2> QED  BY <1>1, <1>2, <2>1 DEF Inv, TurnGoesOn
<1>4. p \in Players /\ ~game.bankrupt[p]
  BY <1>2, <1>3, NextIsActive DEF Active
<1> HIDE DEF p
<1>5. game \in Games /\ gameOver \in BOOLEAN /\ winner \in Players \cup {None}
  BY DEF Inv, Types
<1>6. game' \in Games /\ game'.cur = p /\ game'.bankrupt = game.bankrupt
  BY <1>1, <1>4, <1>5 DEF Games
<1>7. PICK e \in Events : e = Turn(p) /\ e.type = "Turn" /\ e.player = p
  <2>1. "Turn" \in Bare
    BY DEF Bare, EventTypes, Squared, Traded
  <2>2. Turn(p) \in Events
    BY <1>4, <2>1 DEF Turn, Events
  <2> QED  BY <2>2 DEF Turn
<1>8. SetPipe(<<e>>)
  <2>1. <<e>> \o <<>> = <<e>>
    OBVIOUS
  <2> QED  BY <1>1, <1>2, <1>7, <2>1 DEF PutFront, p
<1>9. PICK q \in Seq(Events) :
        /\ q = <<e>> /\ q # <<>> /\ End(q) = e /\ Shaped(q) /\ Grounded(q, game')
        /\ StopsThere(q, game') /\ \A j \in 1 .. Len(q) : q[j] = e
  <2>1. e.type \in DOMAIN Ahead
    BY <1>7 DEF Ahead
  <2> QED  BY <2>1, Single
<1>10. /\ moves' \in Seq(Snapshots) /\ path' \in Seq(Squares) /\ before' \in Seq(Decisions)
       /\ gameOver' \in BOOLEAN /\ winner' \in Players \cup {None}
       /\ before' = <<>> /\ setup' = setup
  BY <1>1, <1>2 DEF Inv, Types
<1> QED
  BY <1>2, <1>4, <1>6, <1>7, <1>8, <1>9, <1>10, FreshKeeps

-----------------------------------------------------------------------------
(* The walk: a step forth, and a step back. *)

(* A step goes where a waypoint leads, and so to a square of the board. *)
LEMMA ChoicesAreSquares ==
  ASSUME Inv, Pipe # <<>>, Event.player = game.cur
  PROVE  Choices \subseteq Squares
<1>1. game.pos[game.cur] \in Squares
  BY Board DEF Games
<1>2. setup.waypoints[game.pos[game.cur]]
        \in SUBSET [from : Squares \cup {None}, to : SUBSET Squares]
  BY <1>1, Board
<1> QED
  BY <1>2 DEF Choices, NextSquares

(* The cost of the first steps of a path, and of one step more. *)
LEMMA CostsSame ==
  ASSUME NEW n \in Nat, NEW f, NEW h, NEW kinds, \A i \in 1 .. n : h[i] = f[i]
  PROVE  Costs(kinds, h, n) = Costs(kinds, f, n)
<1>1. {i \in 1 .. n : kinds[h[i]] # "DOORWAY"} = {i \in 1 .. n : kinds[f[i]] # "DOORWAY"}
  OBVIOUS
<1> QED
  BY <1>1 DEF Costs

LEMMA OneMoreStep ==
  ASSUME NEW n \in Nat, NEW h, NEW kinds
  PROVE  /\ Costs(kinds, h, n) \in Nat
         /\ Costs(kinds, h, n + 1)
              = IF kinds[h[n + 1]] = "DOORWAY" THEN Costs(kinds, h, n)
                                               ELSE Costs(kinds, h, n) + 1
<1> DEFINE A == {i \in 1 .. n : kinds[h[i]] # "DOORWAY"}
           C == {i \in 1 .. n + 1 : kinds[h[i]] # "DOORWAY"}
<1>1. IsFiniteSet(A) /\ Cardinality(A) \in Nat /\ n + 1 \notin A
  <2>1. IsFiniteSet(1 .. n)
    <3>1. 1 \in Int /\ n \in Int
      OBVIOUS
    <3> QED  BY <3>1, FS_Interval, Zenon
  <2>2. A \subseteq 1 .. n
    OBVIOUS
  <2>3. IsFiniteSet(A)
    BY <2>1, <2>2, FS_Subset
  <2> HIDE DEF A
  <2>4. n + 1 \notin 1 .. n
    OBVIOUS
  <2> QED  BY <2>2, <2>3, <2>4, FS_CardinalityType
<1>2. C = IF kinds[h[n + 1]] = "DOORWAY" THEN A ELSE A \cup {n + 1}
  <2>1. \A i : i \in 1 .. n + 1 <=> i \in 1 .. n \/ i = n + 1
    OBVIOUS
  <2> QED  BY <2>1
<1> HIDE DEF A, C
<1>3. Cardinality(A \cup {n + 1}) = Cardinality(A) + 1
  BY <1>1, FS_AddElement
<1>4. Cardinality(C) = IF kinds[h[n + 1]] = "DOORWAY" THEN Cardinality(A)
                                                     ELSE Cardinality(A) + 1
  BY <1>2, <1>3
<1> QED
  BY <1>1, <1>4 DEF A, C, Costs

LEMMA ChoosePathKeeps ==
  ASSUME Inv, ChoosePath
  PROVE  Inv'
<1> DEFINE p == Event.player
<1>1. /\ Pipe # <<>> /\ Event.type = "WillMove"
      /\ \E to \in Choices :
           /\ path' = Append(path, to)
           /\ PutBack(StepEvents(p, to, Event.total, Event.remaining - StepCost(to)))
      /\ moves' = Append(moves, Snapshot(p, Event.remaining))
      /\ before' = Append(before, [game |-> game, event |-> Event])
      /\ UNCHANGED <<setup, game, gameOver, winner>>
  BY DEF ChoosePath, Handling, SameOutcome
<1>2. /\ p = game.cur /\ p \in Players /\ Tail(Pipe) = <<>> /\ ~game.bankrupt[p]
      /\ End(Pipe) = Event /\ Event \in Events
  <2>1. Pipe # <<>> /\ Event.type \in DOMAIN Ahead
    BY <1>1 DEF Ahead
  <2> QED  BY <1>1, <2>1, OnlyHead
<1>3. game \in Games /\ gameOver \in BOOLEAN /\ winner \in Players \cup {None}
  BY DEF Inv, Types
<1>4. /\ Event.total \in Int /\ Event.remaining \in Int
      /\ Event = WillMove(p, Event.total, Event.remaining)
  BY <1>1, <1>2, EventFields
<1>5. PICK to \in Squares :
        /\ path' = Append(path, to)
        /\ PutBack(StepEvents(p, to, Event.total, Event.remaining - StepCost(to)))
  BY <1>1, <1>2, ChoicesAreSquares
<1>6. PICK left \in Int : /\ left = Event.remaining - StepCost(to)
                          /\ left = Event.remaining
                                      - (IF game.kind[to] = "DOORWAY" THEN 0 ELSE 1)
  BY <1>4 DEF StepCost
<1>7. PICK move \in Events, pass \in Events, will \in Events :
        /\ move = Move(p, game.pos[p], to) /\ pass = At("PassAction", p, to)
        /\ will = WillMove(p, Event.total, left)
        /\ move.type = "Move" /\ move.player = p
        /\ pass.type = "PassAction" /\ pass.player = p
        /\ will.type = "WillMove" /\ will.player = p
        /\ will.total = Event.total /\ will.remaining = left
  <2>1. game.pos[p] \in Squares
    BY <1>2, <1>3 DEF Games
  <2>2. "PassAction" \in Squared
    BY DEF Squared
  <2>3. /\ Move(p, game.pos[p], to) \in Events /\ At("PassAction", p, to) \in Events
        /\ WillMove(p, Event.total, left) \in Events
    BY <1>2, <1>4, <2>1, <2>2, MadeEvents
  <2> QED  BY <2>3 DEF Move, At, WillMove
<1>8. PICK q \in Seq(Events) :
        q = <<move, pass, will>> /\ Len(q) = 3 /\ q[1] = move /\ q[2] = pass /\ q[3] = will
  <2>1. <<move, pass, will>> \in Seq(Events)
    OBVIOUS
  <2>2. /\ Len(<<move, pass, will>>) = 3 /\ <<move, pass, will>>[1] = move
        /\ <<move, pass, will>>[2] = pass /\ <<move, pass, will>>[3] = will
    OBVIOUS
  <2> QED  BY <2>1, <2>2, Zenon
<1>9. SetPipe(q) /\ q # <<>> /\ End(q) = will
  <2>1. StepEvents(p, to, Event.total, Event.remaining - StepCost(to)) = q
    BY <1>6, <1>7, <1>8 DEF StepEvents
  <2>2. <<>> \o q = q
    BY <1>8, ConcatEmptySeq
  <2>3. SetPipe(q)
    BY <1>2, <1>5, <2>1, <2>2 DEF PutBack
  <2> QED  BY <1>8, <2>3, EmptySeq DEF End
<1>10. Shaped(q) /\ Grounded(q, game') /\ StopsThere(q, game')
  <2>1. \A j \in 1 .. Len(q) : j = 1 \/ j = 2 \/ j = 3
    BY <1>8
  <2>2. Len(q) - 1 = 2 /\ q[Len(q) - 1].type = "PassAction"
    BY <1>7, <1>8
  <2>3. \A j \in 1 .. Len(q) - 1 : q[j].type \in {"Move", "PassAction"}
    <3>1. \A j \in 1 .. Len(q) - 1 : j = 1 \/ j = 2
      <4>1. Len(q) - 1 = 2
        BY <1>8
      <4>2. \A j \in 1 .. 2 : j = 1 \/ j = 2
        OBVIOUS
      <4> QED  BY <4>1, <4>2
    <3> QED  BY <1>7, <1>8, <3>1
  <2>4. /\ "WillMove" \in DOMAIN Ahead /\ "Move" \in Ahead["WillMove"]
        /\ "PassAction" \in Ahead["WillMove"] /\ "Move" \notin Late /\ "PassAction" \notin Late
    BY DEF Ahead, PassEffects, Late
  <2>5. Shaped(q)
    BY <1>7, <1>9, <2>3, <2>4 DEF Shaped
  <2>6. Grounded(q, game')
    BY <1>7, <1>8, <2>1 DEF Grounded
  <2> QED  BY <2>2, <2>5, <2>6 DEF StopsThere, StopWaits
<1>11. \A j \in 1 .. Len(q) : q[j].player = game'.cur
  <2>1. \A j \in 1 .. Len(q) : j = 1 \/ j = 2 \/ j = 3
    BY <1>8
  <2> QED  BY <1>1, <1>2, <1>7, <1>8, <2>1
<1>12. PICK snap \in Snapshots :
         /\ moves' = Append(moves, snap) /\ snap = SnapshotOf(game, snap.remaining)
         /\ snap.remaining = Event.remaining
  <2>1. Snapshot(p, Event.remaining) = SnapshotOf(game, Event.remaining)
    BY <1>2 DEF Snapshot, SnapshotOf
  <2>2. SnapshotOf(game, Event.remaining).remaining = Event.remaining
    BY DEF SnapshotOf
  <2>3. SnapshotOf(game, Event.remaining) \in Snapshots
    BY <1>2, <1>3, <1>4 DEF SnapshotOf, Snapshots, Games
  <2> QED  BY <1>1, <2>1, <2>2, <2>3
<1>13. PICK b \in Decisions : before' = Append(before, b) /\ b.game = game /\ b.event = Event
  <2>1. [game |-> game, event |-> Event] \in Decisions
    BY <1>2, <1>3 DEF Decisions
  <2> QED  BY <1>1, <2>1
<1>14. PICK n \in Nat : /\ n = Len(before) /\ n = Len(moves) /\ n = Len(path)
                        /\ before \in Seq(Decisions) /\ moves \in Seq(Snapshots)
                        /\ path \in Seq(Squares)
                        /\ Event.total - Event.remaining = CostTo(game, n)
                        /\ \A i \in 1 .. n : StepKept(i, Event.total)
  BY <1>1, <1>2, LenProperties DEF Inv, Types, Walks, Walking, WalkKept
<1>15. /\ before' \in Seq(Decisions) /\ Len(before') = n + 1 /\ before'[n + 1] = b
       /\ \A i \in 1 .. n : before'[i] = before[i]
  <2>1. before' = Append(before, b) /\ before \in Seq(Decisions) /\ Len(before) = n
    BY <1>13, <1>14
  <2> QED  BY <2>1, AppendProperties
<1>16. /\ moves' \in Seq(Snapshots) /\ Len(moves') = n + 1 /\ moves'[n + 1] = snap
       /\ \A i \in 1 .. n : moves'[i] = moves[i]
  <2>1. moves' = Append(moves, snap) /\ moves \in Seq(Snapshots) /\ Len(moves) = n
    BY <1>12, <1>14
  <2> QED  BY <2>1, AppendProperties
<1>17. /\ path' \in Seq(Squares) /\ Len(path') = n + 1 /\ path'[n + 1] = to
       /\ \A i \in 1 .. n : path'[i] = path[i]
  BY <1>5, <1>14, AppendProperties
<1>18. /\ setup' = setup /\ game' = game /\ Players' = Players
       /\ \A m : CostTo(game, m) = Costs(game.kind, path, m)
       /\ \A m : CostTo(game, m)' = Costs(game.kind, path', m)
  BY <1>1 DEF CostTo, Costs, Players
<1>19. /\ Costs(game.kind, path', n + 1)
            = Costs(game.kind, path, n) + (IF game.kind[to] = "DOORWAY" THEN 0 ELSE 1)
       /\ Costs(game.kind, path, n) \in Nat
       /\ \A m \in 0 .. n : Costs(game.kind, path', m) = Costs(game.kind, path, m)
  <2>1. ASSUME NEW m \in 0 .. n PROVE Costs(game.kind, path', m) = Costs(game.kind, path, m)
    <3>1. \A i \in 1 .. m : path'[i] = path[i]
      BY <1>17
    <3> QED  BY <3>1, CostsSame
  <2>2. PICK h, kinds : h = path' /\ kinds = game.kind
    OBVIOUS
  <2>3. /\ Costs(kinds, h, n) \in Nat
        /\ Costs(kinds, h, n + 1)
             = IF kinds[h[n + 1]] = "DOORWAY" THEN Costs(kinds, h, n)
                                              ELSE Costs(kinds, h, n) + 1
    BY OneMoreStep
  <2>4. h[n + 1] = to /\ n \in 0 .. n
    BY <1>17, <2>2
  <2>5. Costs(game.kind, path', n) = Costs(game.kind, path, n)
    BY <2>1, <2>4
  <2> QED  BY <2>1, <2>2, <2>3, <2>4, <2>5
<1>20. ASSUME Pipe' = q PROVE WalkKept'
  <2>1. End(Pipe)' = will
    BY <1>9, <1>20 DEF End
  <2>2. PICK total \in Int : total = Event.total
    BY <1>4
  <2>3. total - left = Costs(game.kind, path', n + 1)
    <3>1. Event.total - Event.remaining = Costs(game.kind, path, n)
      BY <1>14, <1>18
    <3>2. PICK c \in {0, 1} : c = IF game.kind[to] = "DOORWAY" THEN 0 ELSE 1
      OBVIOUS
    <3>3. PICK m \in Nat : m = Costs(game.kind, path, n)
      BY <1>19
    <3>4. Costs(game.kind, path', n + 1) = m + c /\ left = Event.remaining - c
      BY <1>6, <1>19, <3>2, <3>3
    <3> QED  BY <1>4, <2>2, <3>1, <3>3, <3>4
  <2>4. ASSUME NEW i \in 1 .. n PROVE StepKept(i, total)'
    <3>1. /\ Frame(before[i].game, game)
          /\ before[i].event = WillMove(game.cur, total, moves[i].remaining)
          /\ moves[i] = SnapshotOf(before[i].game, moves[i].remaining)
          /\ total - moves[i].remaining = Costs(game.kind, path, i - 1)
      BY <1>14, <1>18, <2>2 DEF StepKept
    <3>2. CostTo(game, i - 1)' = Costs(game.kind, path, i - 1)
      <4>1. i - 1 \in 0 .. n
        OBVIOUS
      <4> QED  BY <1>18, <1>19, <4>1
    <3>3. before'[i] = before[i] /\ moves'[i] = moves[i]
      BY <1>15, <1>16
    <3>4. Frame(before[i].game, game)'
      BY <1>18, <3>1, <3>3 DEF Frame
    <3> QED  BY <1>18, <3>1, <3>2, <3>3, <3>4 DEF StepKept
  <2>5. StepKept(n + 1, total)'
    <3>1. before'[n + 1].game = game /\ moves'[n + 1] = snap
      BY <1>13, <1>15, <1>16
    <3>2. Frame(before[n + 1].game, game)'
      BY <1>18, <3>1 DEF Frame
    <3>3. before'[n + 1].event = WillMove(game'.cur, total, moves'[n + 1].remaining)
      BY <1>2, <1>4, <1>12, <1>13, <1>15, <1>18, <2>2, <3>1
    <3>4. total - snap.remaining = CostTo(game, n + 1 - 1)'
      <4>1. n + 1 - 1 = n /\ n \in 0 .. n
        OBVIOUS
      <4> QED  BY <1>12, <1>14, <1>18, <1>19, <2>2, <4>1
    <3>5. moves'[n + 1] = SnapshotOf(before'[n + 1].game, moves'[n + 1].remaining)
      BY <1>12, <3>1
    <3> QED  BY <3>1, <3>2, <3>3, <3>4, <3>5 DEF StepKept
  <2>6. \A i \in 1 .. n + 1 : i \in 1 .. n \/ i = n + 1
    OBVIOUS
  <2>7. \A i \in 1 .. n + 1 : StepKept(i, total)'
    BY <2>4, <2>5, <2>6
  <2>8. CostTo(game, Len(path))' = total - left
    BY <1>17, <1>18, <2>3
  <2> QED  BY <1>7, <1>15, <1>16, <1>17, <2>1, <2>2, <2>7, <2>8 DEF WalkKept
<1> QED
  BY <1>1, <1>2, <1>3, <1>7, <1>9, <1>10, <1>11, <1>15, <1>16, <1>17, <1>20, FreshKeeps

(* Putting a snapshot back into the game it frames gives the game in which *)
(* it was taken.                                                           *)
LEMMA RestoredIs ==
  ASSUME game \in Games, NEW h \in Games, NEW rem, Frame(h, game)
  PROVE  Restored(game.cur, SnapshotOf(h, rem)) = h
<1> DEFINE p == game.cur
           snap == SnapshotOf(h, rem)
           r == Restored(p, snap)
<1>1. /\ game.cur = h.cur /\ game.bankrupt = h.bankrupt /\ game.kind = h.kind
      /\ game.owner = h.owner /\ p \in Players
      /\ \A q \in Players \ {p} :
           /\ game.pos[q] = h.pos[q] /\ game.from[q] = h.from[q] /\ game.suits[q] = h.suits[q]
           /\ game.level[q] = h.level[q] /\ game.stock[q] = h.stock[q]
  BY DEF Frame, Games
<1>2. /\ snap.pos = h.pos[p] /\ snap.from = h.from[p] /\ snap.suits = h.suits[p]
      /\ snap.level = h.level[p] /\ snap.stock = h.stock[p]
      /\ snap.cash = h.cash /\ snap.suit = h.suit /\ snap.toll = h.toll
      /\ snap.fluct = h.fluct /\ snap.pending = h.pending
  BY <1>1 DEF SnapshotOf
<1> HIDE DEF snap
<1>3. /\ [game.pos EXCEPT ![p] = snap.pos] = h.pos
      /\ [game.from EXCEPT ![p] = snap.from] = h.from
  BY <1>1, <1>2 DEF Games
<1>4. [game.suits EXCEPT ![p] = snap.suits] = h.suits
  BY <1>1, <1>2 DEF Games
<1>5. /\ [game.level EXCEPT ![p] = snap.level] = h.level
      /\ [game.stock EXCEPT ![p] = snap.stock] = h.stock
  BY <1>1, <1>2 DEF Games
<1>6. r = [game EXCEPT !.pos = h.pos, !.from = h.from, !.suits = h.suits, !.level = h.level,
                       !.stock = h.stock, !.cash = h.cash, !.suit = h.suit, !.toll = h.toll,
                       !.fluct = h.fluct, !.pending = h.pending]
  BY <1>2, <1>3, <1>4, <1>5 DEF Restored, Games
<1> HIDE DEF r
<1>7. r = h
  BY <1>1, <1>6 DEF Games
<1> QED
  BY <1>7 DEF r, snap

(* What an undone step gives back. *)
LEMMA UndoGives ==
  ASSUME Inv, UndoMove
  PROVE  /\ Pipe # <<>> /\ Event.type = "WillMove" /\ Len(Pipe) = 1 /\ before # <<>>
         /\ Len(before) \in Nat \ {0}
         /\ game' = before[Len(before)].game
         /\ SetPipe(<<before[Len(before)].event>>)
<1> DEFINE p == Event.player
<1>1. /\ Pipe # <<>> /\ Event.type = "WillMove" /\ moves # <<>>
      /\ game' = Restored(p, moves[Len(moves)])
      /\ SetPipe(<<WillMove(p, Event.total, moves[Len(moves)].remaining)>>)
  BY DEF UndoMove, Handling
<1>2. /\ p = game.cur /\ End(Pipe) = Event /\ Event \in Events /\ Len(Pipe) = 1
  <2>1. Pipe # <<>> /\ Event.type \in DOMAIN Ahead
    BY <1>1 DEF Ahead
  <2> QED  BY <1>1, <2>1, OnlyHead
<1>3. PICK n \in Nat : /\ n = Len(before) /\ n = Len(moves)
                       /\ before \in Seq(Decisions) /\ moves \in Seq(Snapshots)
                       /\ \A i \in 1 .. n : StepKept(i, Event.total)
  BY <1>1, <1>2, LenProperties DEF Inv, Types, Walks, Walking, WalkKept
<1>4. n # 0 /\ n \in 1 .. n /\ before # <<>>
  <2>1. n # 0
    BY <1>1, <1>3, EmptySeq
  <2>2. n \in 1 .. n
    BY <2>1
  <2>3. before # <<>>
    BY <1>3, <2>1
  <2> QED  BY <2>1, <2>2, <2>3
<1>5. /\ Frame(before[n].game, game)
      /\ before[n].event = WillMove(game.cur, Event.total, moves[n].remaining)
      /\ moves[n] = SnapshotOf(before[n].game, moves[n].remaining)
  BY <1>3, <1>4 DEF StepKept
<1>6. before[n].game \in Games /\ game \in Games
  <2>1. before[n] \in Decisions
    BY <1>3, <1>4, ElementOfSeq
  <2>2. before[n].game \in Games
    BY <2>1 DEF Decisions
  <2> QED  BY <2>2 DEF Inv, Types
<1>7. Restored(game.cur, SnapshotOf(before[n].game, moves[n].remaining)) = before[n].game
  BY <1>5, <1>6, RestoredIs
<1> QED
  BY <1>1, <1>2, <1>3, <1>4, <1>5, <1>7

LEMMA UndoMoveKeeps ==
  ASSUME Inv, UndoMove
  PROVE  Inv'
<1>1. /\ Pipe # <<>> /\ Event.type = "WillMove" /\ before # <<>>
      /\ game' = before[Len(before)].game
      /\ SetPipe(<<before[Len(before)].event>>)
  BY UndoGives
<1>2. /\ moves # <<>> /\ moves' = SubSeq(moves, 1, Len(moves) - 1)
      /\ path' = IF path = <<>> THEN path ELSE SubSeq(path, 1, Len(path) - 1)
      /\ before' = IF before = <<>> THEN before ELSE SubSeq(before, 1, Len(before) - 1)
      /\ UNCHANGED <<setup, gameOver, winner>>
  BY DEF UndoMove, SameOutcome
<1>3. /\ Event.player = game.cur /\ game.cur \in Players /\ End(Pipe) = Event
      /\ Event \in Events /\ ~game.bankrupt[game.cur]
  <2>1. Pipe # <<>> /\ Event.type \in DOMAIN Ahead
    BY <1>1 DEF Ahead
  <2> QED  BY <1>1, <2>1, OnlyHead
<1>4. PICK total \in Int : total = Event.total
  BY <1>1, <1>3, EventFields
<1>5. PICK n \in Nat : /\ n = Len(before) /\ n = Len(moves) /\ n = Len(path)
                       /\ before \in Seq(Decisions) /\ moves \in Seq(Snapshots)
                       /\ path \in Seq(Squares)
                       /\ \A i \in 1 .. n : StepKept(i, total)
  BY <1>1, <1>3, <1>4, LenProperties DEF Inv, Types, Walks, Walking, WalkKept
<1>6. n # 0 /\ n \in 1 .. n /\ n - 1 \in Nat /\ path # <<>>
  <2>1. n # 0
    BY <1>2, <1>5, EmptySeq
  <2> QED  BY <1>5, <2>1, EmptySeq
<1>7. /\ before' \in Seq(Decisions) /\ Len(before') = n - 1
      /\ \A i \in 1 .. n - 1 : before'[i] = before[i]
  <2>1. before' = SubSeq(before, 1, Len(before) - 1)
    BY <1>1, <1>2
  <2> QED  BY <1>1, <1>5, <2>1, Shortened
<1>8. /\ moves' \in Seq(Snapshots) /\ Len(moves') = n - 1
      /\ \A i \in 1 .. n - 1 : moves'[i] = moves[i]
  BY <1>2, <1>5, Shortened
<1>9. /\ path' \in Seq(Squares) /\ Len(path') = n - 1
      /\ \A i \in 1 .. n - 1 : path'[i] = path[i]
  <2>1. path' = SubSeq(path, 1, Len(path) - 1)
    BY <1>2, <1>6
  <2> QED  BY <1>5, <1>6, <2>1, Shortened
<1>10. PICK b \in Decisions : /\ b = before[n] /\ game' = b.game /\ SetPipe(<<b.event>>)
                              /\ b.event \in Events /\ b.game \in Games
  <2>1. PICK b \in Decisions : b = before[n]
    BY <1>5, <1>6, ElementOfSeq
  <2>2. b.event \in Events /\ b.game \in Games
    BY <2>1 DEF Decisions
  <2> QED  BY <1>1, <1>5, <2>1, <2>2
<1>11. /\ Frame(b.game, game)
       /\ b.event = WillMove(game.cur, total, moves[n].remaining)
       /\ total - moves[n].remaining = Costs(game.kind, path, n - 1)
  BY <1>5, <1>6, <1>10 DEF StepKept, CostTo
<1>12. /\ game'.cur = game.cur /\ game'.bankrupt = game.bankrupt /\ game'.kind = game.kind
       /\ game' \in Games
  BY <1>10, <1>11 DEF Frame
<1>13. PICK e \in Events : /\ e = b.event /\ e.type = "WillMove" /\ e.player = game.cur
                           /\ e.total = total /\ e.remaining = moves[n].remaining
  BY <1>10, <1>11 DEF WillMove
<1>14. PICK q \in Seq(Events) :
         /\ q = <<e>> /\ q # <<>> /\ End(q) = e /\ Shaped(q) /\ Grounded(q, game')
         /\ StopsThere(q, game') /\ \A j \in 1 .. Len(q) : q[j] = e
  <2>1. e.type \in DOMAIN Ahead
    BY <1>13 DEF Ahead
  <2> QED  BY <2>1, Single
<1>15. \A m \in 0 .. n - 1 : CostTo(game, m)' = Costs(game.kind, path, m)
  <2> SUFFICES ASSUME NEW m \in 0 .. n - 1
               PROVE  CostTo(game, m)' = Costs(game.kind, path, m)
    OBVIOUS
  <2>1. \A i \in 1 .. m : path'[i] = path[i]
    BY <1>9
  <2>2. Costs(game.kind, path', m) = Costs(game.kind, path, m)
    BY <2>1, CostsSame
  <2>3. CostTo(game, m)' = Costs(game.kind, path', m)
    BY <1>12 DEF CostTo, Costs
  <2> QED  BY <2>2, <2>3
<1>16. ASSUME Pipe' = q PROVE WalkKept'
  <2>1. End(Pipe)' = e
    BY <1>14, <1>16 DEF End
  <2>2. ASSUME NEW i \in 1 .. n - 1 PROVE StepKept(i, total)'
    <3>1. i \in 1 .. n /\ i - 1 \in 0 .. n - 1
      BY <1>6
    <3>2. /\ Frame(before[i].game, game)
          /\ before[i].event = WillMove(game.cur, total, moves[i].remaining)
          /\ moves[i] = SnapshotOf(before[i].game, moves[i].remaining)
          /\ total - moves[i].remaining = Costs(game.kind, path, i - 1)
      BY <1>5, <3>1 DEF StepKept, CostTo
    <3>3. before'[i] = before[i] /\ moves'[i] = moves[i]
      BY <1>7, <1>8
    <3>4. Frame(before[i].game, game)'
      <4>1. Players' = Players
        BY <1>2 DEF Players
      <4> QED  BY <1>10, <1>11, <3>2, <3>3, <4>1 DEF Frame
    <3>5. CostTo(game, i - 1)' = Costs(game.kind, path, i - 1)
      BY <1>15, <3>1
    <3> QED  BY <1>12, <3>2, <3>3, <3>4, <3>5 DEF StepKept
  <2>3. CostTo(game, Len(path))' = Costs(game.kind, path, n - 1)
    <3>1. n - 1 \in 0 .. n - 1
      BY <1>6
    <3> QED  BY <1>9, <1>15, <3>1
  <2> QED  BY <1>7, <1>8, <1>9, <1>11, <1>13, <2>1, <2>2, <2>3 DEF WalkKept
<1>17. gameOver' \in BOOLEAN /\ winner' \in Players \cup {None} /\ setup' = setup
  BY <1>2 DEF Inv, Types
<1>18. /\ End(q).type = "WillMove" /\ SetPipe(q)
       /\ \A j \in 1 .. Len(q) : q[j].player = game'.cur
  BY <1>10, <1>12, <1>13, <1>14
<1> QED
  BY <1>3, <1>7, <1>8, <1>9, <1>12, <1>14, <1>16, <1>17, <1>18, FreshKeeps

-----------------------------------------------------------------------------
(* Init establishes the invariant, and every step keeps it. *)

LEMMA InitInv == Init => Inv
<1> SUFFICES ASSUME Init PROVE Inv
  OBVIOUS
<1>1. /\ setup \in Setups /\ pipes = << <<Turn(0)>> >>
      /\ moves = <<>> /\ path = <<>> /\ before = <<>> /\ gameOver = FALSE /\ winner = None
  BY DEF Init
<1>2. WellFormed(setup)
  BY <1>1, SetupsAssumption
<1>3. 0 \in Players /\ 0 \in Squares
  BY <1>2 DEF WellFormed, Players, Squares
<1>4. /\ setup.kind \in [Squares -> SquareType] /\ setup.suit \in [Squares -> Suits \cup {None}]
      /\ setup.cash \in Int
  BY <1>2 DEF WellFormed, Squares, Suits
<1>5. game \in Games /\ game.cur = 0 /\ game.bankrupt = [p \in Players |-> FALSE]
  <2>1. PICK zero \in Nat, one \in Nat : zero = 0 /\ one = 1
    OBVIOUS
  <2>2. PICK h \in Held : h = [s \in Suits \cup {Wild} |-> zero]
    BY DEF Held
  <2>3. game = [cur |-> 0, bankrupt |-> [p \in Players |-> FALSE],
                pos |-> [p \in Players |-> 0], from |-> [p \in Players |-> None],
                cash |-> [p \in Players |-> setup.cash], level |-> [p \in Players |-> one],
                suits |-> [p \in Players |-> h],
                stock |-> [p \in Players |-> zero], kind |-> setup.kind,
                suit |-> setup.suit, toll |-> [s \in Squares |-> zero],
                owner |-> [s \in Squares |-> None], fluct |-> zero, pending |-> zero]
    BY <2>1, <2>2 DEF Init
  <2>4. zero \in Int
    OBVIOUS
  <2> QED  BY <1>3, <1>4, <2>2, <2>3, <2>4 DEF Games
<1>6. PICK e \in Events : e = Turn(0) /\ e.type = "Turn" /\ e.player = 0
  <2>1. "Turn" \in Bare
    BY DEF Bare, EventTypes, Squared, Traded
  <2>2. Turn(0) \in Events
    BY <1>3, <2>1 DEF Turn, Events
  <2> QED  BY <2>2 DEF Turn
<1>7. PICK q \in Seq(Events) :
        /\ q = <<e>> /\ q # <<>> /\ Len(q) = 1 /\ End(q) = e /\ Shaped(q) /\ Grounded(q, game)
        /\ StopsThere(q, game) /\ \A j \in 1 .. Len(q) : q[j] = e
  <2>1. e.type \in DOMAIN Ahead
    BY <1>6 DEF Ahead
  <2> QED  BY <2>1, Single
<1>8. pipes \in Seq(Seq(Events)) /\ Len(pipes) = 1 /\ pipes[1] = q
  <2>1. pipes = <<q>>
    BY <1>1, <1>6, <1>7
  <2>2. <<q>> \in Seq(Seq(Events)) /\ Len(<<q>>) = 1 /\ <<q>>[1] = q
    OBVIOUS
  <2> QED  BY <2>1, <2>2
<1>9. pipes # <<>> /\ Pipe = q
  <2>1. pipes # <<>>
    <3> SUFFICES ASSUME pipes = <<>> PROVE FALSE
      OBVIOUS
    <3>1. Len(pipes) = Len(<<>>) /\ Len(<<>>) = 0
      OBVIOUS
    <3> QED  BY <1>8, <3>1
  <2> QED  BY <1>8, <2>1 DEF Pipe
<1>10. Types
  BY <1>1, <1>5, <1>8, <1>9, EmptySeq DEF Types
<1>11. Mine /\ Nested
  <2>1. \A i \in 1 .. Len(pipes) : pipes[i] = q
    BY <1>8
  <2>2. Mine
    BY <1>5, <1>6, <1>7, <2>1 DEF Mine
  <2>3. Nested
    BY <1>8 DEF Nested
  <2> QED  BY <2>2, <2>3
<1>12. TurnGoesOn
  BY <1>3, <1>5, <1>6, <1>7, <1>9 DEF TurnGoesOn
<1>13. Walks
  BY <1>1, <1>6, <1>7, <1>9 DEF Walks, Walking
<1> QED
  BY <1>7, <1>9, <1>10, <1>11, <1>12, <1>13 DEF Inv

LEMMA StutterInv == Inv /\ UNCHANGED vars => Inv'
<1> SUFFICES ASSUME Inv, UNCHANGED vars PROVE Inv'
  OBVIOUS
<1>1. /\ setup' = setup /\ game' = game /\ pipes' = pipes /\ moves' = moves /\ path' = path
      /\ gameOver' = gameOver /\ winner' = winner /\ before' = before
  BY DEF vars
<1>2. Pipe' = Pipe /\ Players' = Players
  BY <1>1 DEF Pipe, Players
<1>3. Types'
  BY <1>1, SameSetup DEF Inv, Types
<1>4. Mine' /\ Nested'
  BY <1>1, <1>2 DEF Inv, Mine, Nested
<1>5. TurnGoesOn'
  BY <1>1, <1>2 DEF Inv, TurnGoesOn, Active
<1>6. Walks'
  BY <1>1, <1>2 DEF Inv, Walks, Walking, WalkKept, StepKept, Frame, CostTo
<1> QED
  BY <1>1, <1>2, <1>3, <1>4, <1>5, <1>6 DEF Inv

LEMMA NextInv == Inv /\ [Next]_vars => Inv'
<1> SUFFICES ASSUME Inv, [Next]_vars PROVE Inv'
  OBVIOUS
<1>1. CASE UNCHANGED vars
  BY <1>1, StutterInv
<1>2. CASE PreRoll
  BY <1>2, TurnKeeps, PreRollKeeps DEF PreRoll
<1>3. CASE Walk
  BY <1>3, RollKeeps, ChoosePathKeeps, UndoMoveKeeps, UndoNothingKeeps, StopMovingKeeps,
     SuitEffectKeeps, PassKeeps, StopKeeps DEF Walk
<1>4. CASE Effect
  BY <1>4, SuitEffectKeeps, MoneyEffectKeeps, OfferKeeps, CannonKeeps, CardKeeps,
     BonusRollKeeps, LeaveExtraRollKeeps, RollAgainKeeps DEF Effect
<1>5. CASE EndOfTurn
  BY <1>5, EndTurnKeeps, ClosingKeeps, AdvanceTurnKeeps DEF EndOfTurn
<1> QED
  BY <1>1, <1>2, <1>3, <1>4, <1>5 DEF Next

(* The invariant from which every theorem below follows. *)
LEMMA Invariance == Spec => []Inv
<1> QED  BY InitInv, NextInv, PTL DEF Spec

-----------------------------------------------------------------------------
(* The events in front of the one that carries the turn on do not. *)
LEMMA OnlyTheEnd ==
  ASSUME NEW q \in Seq(Events), q # <<>>, Shaped(q)
  PROVE  /\ Len(q) \in Nat \ {0} /\ DOMAIN q = 1 .. Len(q)
         /\ \A j \in DOMAIN q : CarriesOn(q[j]) <=> j = Len(q)
         /\ \A j \in DOMAIN q : q[j].type = "StopAction" => End(q).type = "EndTurn"
<1>1. PICK n \in Nat \ {0} : n = Len(q) /\ DOMAIN q = 1 .. n
  BY EmptySeq, LenProperties
<1>2. End(q).type \in DOMAIN Ahead /\ End(q) = q[n]
  BY <1>1 DEF Shaped, End
<1>3. \A j \in 1 .. n - 1 : q[j].type \in Ahead[End(q).type]
  BY <1>1 DEF Shaped
<1>4. \A e : CarriesOn(e) <=> e.type \in DOMAIN Ahead
  BY DEF CarriesOn, Ahead
<1>5. /\ \A t \in DOMAIN Ahead : Ahead[t] \cap DOMAIN Ahead = {}
      /\ \A t \in DOMAIN Ahead : "StopAction" \in Ahead[t] => t = "EndTurn"
      /\ "StopAction" \notin DOMAIN Ahead
  BY DEF Ahead, PassEffects, StopEffects
<1>6. \A j \in 1 .. n : j = n \/ j \in 1 .. n - 1
  OBVIOUS
<1>7. \A j \in 1 .. n - 1 : j # n
  OBVIOUS
<1>8. ASSUME NEW j \in 1 .. n
      PROVE  /\ CarriesOn(q[j]) <=> j = n
             /\ q[j].type = "StopAction" => End(q).type = "EndTurn"
  <2>1. CASE j = n
    BY <1>2, <1>4, <1>5, <2>1
  <2>2. CASE j \in 1 .. n - 1
    BY <1>2, <1>3, <1>4, <1>5, <1>7, <2>2
  <2> QED  BY <1>6, <2>1, <2>2
<1> QED
  BY <1>1, <1>8

(* The pipelines that a bonus roll interrupts are shaped like the others. *)
LEMMA PipesShaped ==
  ASSUME Inv, NEW i \in DOMAIN pipes
  PROVE  /\ pipes[i] \in Seq(Events) /\ Shaped(pipes[i])
         /\ i \in 1 .. Len(pipes) /\ Len(pipes) \in Nat \ {0}
         /\ i = Len(pipes) => pipes[i] = Pipe
         /\ i # Len(pipes) => /\ pipes[i] # <<>> /\ ~game.bankrupt[game.cur]
<1>1. PICK n \in Nat \ {0} : /\ n = Len(pipes) /\ DOMAIN pipes = 1 .. n
                             /\ pipes \in Seq(Seq(Events)) /\ game.cur \in Players
  BY EmptySeq, LenProperties DEF Inv, Types, Games
<1>2. i \in 1 .. n /\ pipes[i] \in Seq(Events)
  BY <1>1, ElementOfSeq
<1>3. CASE i = n
  BY <1>1, <1>2, <1>3 DEF Inv, Pipe
<1>4. CASE i # n
  <2>1. i \in 1 .. n - 1 /\ n > 1
    BY <1>2, <1>4
  <2>2. pipes[i] = <<Of("EndTurn", game.cur)>> /\ ~game.bankrupt[game.cur]
    BY <1>1, <2>1 DEF Inv, Nested
  <2>3. PICK e \in Events : e = Of("EndTurn", game.cur) /\ e.type \in DOMAIN Ahead
    <3>1. "EndTurn" \in Bare
      BY DEF Bare, EventTypes, Squared, Traded
    <3>2. Of("EndTurn", game.cur) \in Events /\ Of("EndTurn", game.cur).type = "EndTurn"
      BY <1>1, <3>1 DEF Of, Events
    <3> QED  BY <3>2 DEF Ahead
  <2>4. Shaped(<<e>>) /\ <<e>> # <<>>
    BY <2>3, Single
  <2> QED  BY <1>1, <1>2, <1>4, <2>2, <2>3, <2>4
<1> QED
  BY <1>3, <1>4

-----------------------------------------------------------------------------
(* The events in the pipelines and the fields of the game, of its players  *)
(* and of its squares are what the handlers expect, on every board.        *)
THEOREM TypesHold == Spec => []TypeOK
<1>1. Inv => TypeOK
  <2> SUFFICES ASSUME Inv PROVE TypeOK
    OBVIOUS
  <2>1. /\ game.cur \in Players /\ game.bankrupt \in [Players -> BOOLEAN]
        /\ game.pos \in [Players -> Squares] /\ game.from \in [Players -> Squares \cup {None}]
        /\ game.cash \in [Players -> Int] /\ game.stock \in [Players -> Nat]
        /\ game.owner \in [Squares -> Players \cup {None}] /\ game.toll \in [Squares -> Nat]
        /\ game.suits \in [Players -> [Suits \cup {Wild} -> Nat]]
    BY DEF Inv, Types, Games, Held
  <2>2. ASSUME NEW i \in DOMAIN pipes, NEW j \in DOMAIN pipes[i]
        PROVE  pipes[i][j].type \in EventTypes /\ pipes[i][j].player \in Players
    <3>1. pipes[i] \in Seq(Events)
      BY PipesShaped
    <3>2. pipes[i][j] \in Events
      BY <3>1, ElementOfSeq, LenProperties
    <3> QED  BY <3>2, EventFields
  <2> QED  BY <2>1, <2>2 DEF TypeOK, Inv, Types
<1> QED
  BY <1>1, Invariance, PTL

(* The turn is neither lost nor doubled: each pipeline, also one that a    *)
(* bonus roll interrupts, holds exactly one event that carries it on.      *)
THEOREM OneContinuationHolds == Spec => []OneContinuation
<1>1. Inv /\ TypeOK => OneContinuation
  <2> SUFFICES ASSUME Inv, TypeOK, ~setup.staleUndo, NEW i \in DOMAIN pipes
               PROVE  Cardinality({j \in DOMAIN pipes[i] : CarriesOn(pipes[i][j])}) = 1
    BY DEF OneContinuation
  <2>1. PICK q \in Seq(Events) : q = pipes[i] /\ Shaped(q) /\ q # <<>>
    BY PipesShaped DEF Inv, TurnGoesOn
  <2>2. /\ Len(q) \in DOMAIN q
        /\ \A j \in DOMAIN q : CarriesOn(q[j]) <=> j = Len(q)
    BY <2>1, OnlyTheEnd
  <2>3. {j \in DOMAIN q : CarriesOn(q[j])} = {Len(q)}
    BY <2>2
  <2>4. Cardinality({Len(q)}) = 1
    BY FS_Singleton
  <2> QED  BY <2>1, <2>3, <2>4
<1> QED
  BY <1>1, TypesHold, Invariance, PTL

(* No event is left of a finished turn, and a bankrupt player gets none    *)
(* but those that close the turn in which he failed.                       *)
THEOREM OnlyCurrentPlayerActsHolds == Spec => []OnlyCurrentPlayerActs
<1>1. Inv => OnlyCurrentPlayerActs
  <2> SUFFICES ASSUME Inv, NEW i \in DOMAIN pipes, NEW j \in DOMAIN pipes[i]
               PROVE  /\ pipes[i][j].player = game.cur
                      /\ \/ pipes[i][j].type
                              \notin {"Turn", "Roll", "WillMove", "StopAction", "EndTurn"}
                         \/ ~game.bankrupt[pipes[i][j].player]
    BY DEF OnlyCurrentPlayerActs
  <2>1. PICK q \in Seq(Events) :
          /\ q = pipes[i] /\ Shaped(q) /\ i \in 1 .. Len(pipes)
          /\ i = Len(pipes) => q = Pipe
          /\ i # Len(pipes) => ~game.bankrupt[game.cur]
    BY PipesShaped
  <2>2. j \in 1 .. Len(q) /\ q # <<>>
    BY <2>1, LenProperties, EmptySeq
  <2>3. q[j].player = game.cur
    BY <2>1, <2>2 DEF Inv, Mine
  <2>4. ASSUME q = Pipe,
               q[j].type \in {"Turn", "Roll", "WillMove", "StopAction", "EndTurn"}
        PROVE  ~game.bankrupt[game.cur]
    <3>1. /\ CarriesOn(q[j]) => j = Len(q)
          /\ q[j].type = "StopAction" => End(q).type = "EndTurn"
      BY <2>1, <2>2, OnlyTheEnd
    <3>2. End(q).type # "AdvanceTurn"
      BY <2>4, <3>1 DEF CarriesOn, End
    <3> QED  BY <2>2, <2>4, <3>2 DEF Inv, TurnGoesOn
  <2> QED  BY <2>1, <2>3, <2>4
<1> QED
  BY <1>1, Invariance, PTL

(* The effects of a stop are those of the square the player stands on,     *)
(* whatever he was carried over on the way: warps, cannons and cards.      *)
THEOREM StopsWhereHeStandsHolds == Spec => []StopsWhereHeStands
<1>1. Inv => StopsWhereHeStands
  <2> SUFFICES ASSUME Inv, Pipe # <<>>, Event.type = "StopAction"
               PROVE  \/ game.kind[Event.square] = "DOORWAY"
                      \/ Event.square = game.pos[Event.player]
    BY DEF StopsWhereHeStands
  <2>1. Event.type \notin DOMAIN Ahead /\ Event.type \in Late
    BY DEF Ahead, Late
  <2>2. Len(Pipe) = 2 /\ Event = Pipe[1] /\ Event.player = game.cur
    BY <2>1, HeadPlace
  <2>3. Pipe[Len(Pipe) - 1] = Event
    <3>1. Len(Pipe) - 1 = 1
      BY <2>2
    <3> QED  BY <2>2, <3>1
  <2>4. StopWaits(Pipe)
    BY <2>2, <2>3 DEF StopWaits
  <2> QED  BY <2>2, <2>3, <2>4 DEF Inv, StopsThere
<1> QED
  BY <1>1, Invariance, PTL

(* A player walks as far as he rolled, neither more nor less, whatever he  *)
(* undoes and however many doorways he crosses.                            *)
THEOREM StepsAccountedHolds == Spec => []StepsAccounted
<1>1. Inv => StepsAccounted
  <2> SUFFICES ASSUME Inv, Pipe # <<>>, Event.type = "WillMove"
               PROVE  Event.total - Event.remaining
                        = Cardinality({i \in DOMAIN path : game.kind[path[i]] # "DOORWAY"})
    BY DEF StepsAccounted
  <2>1. End(Pipe) = Event
    <3>1. Event.type \in DOMAIN Ahead
      BY DEF Ahead
    <3> QED  BY <3>1, OnlyHead
  <2>2. Event.total - Event.remaining = CostTo(game, Len(path))
    BY <2>1 DEF Inv, Walks, Walking, WalkKept
  <2>3. DOMAIN path = 1 .. Len(path)
    BY LenProperties DEF Inv, Types
  <2> QED  BY <2>2, <2>3 DEF CostTo, Costs
<1> QED
  BY <1>1, Invariance, PTL

(* An undone step leaves no trace in the game, whatever passing did: only  *)
(* _undo_move shortens the stack of snapshots, it puts the last one back,  *)
(* and that is the game, and the decision, from before the step.           *)
THEOREM UndoRestoresHolds == Spec => UndoRestores
<1>1. ASSUME Inv, [Next]_vars, IsUndo
      PROVE  /\ before # <<>>
             /\ game' = before[Len(before)].game
             /\ pipes'[Len(pipes')] = <<before[Len(before)].event>>
             /\ Len(Pipe) = 1
  <2>1. Pipe # <<>> /\ Event.type = "WillMove" /\ Len(moves') < Len(moves)
    BY <1>1 DEF IsUndo
  <2>2. Len(moves) \in Nat
    BY <1>1, LenProperties DEF Inv, Types
  <2>3. moves' # moves
    BY <2>1, <2>2
  <2>4. UndoMove
    <3>1. \A t : Handling(t) => t = "WillMove"
      BY <2>1 DEF Handling
    <3>2. ~PreRoll
      BY <3>1 DEF PreRoll, HandleTurn, HandleInitDeal, HandleInitSellStock, HandleSellStock
    <3>3. ~EndOfTurn
      BY <3>1 DEF EndOfTurn, HandleEndTurn, HandleLiquidation, HandleBankruptcyCheck,
         HandleBankruptcy, HandleStockFluctuation, HandleTickStatuses, HandleGameOverCheck,
         HandleAdvanceTurn
    <3>4. ~Effect
      BY <2>3, <3>1 DEF Effect, HandleCollectSuit, HandleRotateSuit, HandlePromotion,
         HandleInitBuyStock, HandleBuyStock, HandleRaiseToll, HandlePayToll, HandleWarp,
         HandleClearDirectionLock, HandleInitBuyVacantPlot, HandleBuyVacantPlot,
         HandleInitCannon, HandleVentureCard, LeaveExtraRoll, HandleRollAgain,
         HandleVictory, Leaf, SameMoves
    <3>5. ~(HandleRoll \/ UndoNothing \/ StopMoving \/ HandleMove \/ HandlePass \/ HandleStop)
      BY <2>3, <3>1 DEF HandleRoll, UndoNothing, StopMoving, HandleMove, HandlePass,
         HandleStop, Leaf, SameMoves
    <3>6. ~ChoosePath
      <4> SUFFICES ASSUME ChoosePath PROVE FALSE
        OBVIOUS
      <4>1. moves' = Append(moves, Snapshot(Event.player, Event.remaining))
        BY DEF ChoosePath
      <4>2. Len(moves') = Len(moves) + 1
        BY <1>1, <4>1, AppendProperties DEF Inv, Types
      <4> QED  BY <2>1, <2>2, <4>2
    <3>7. ~UNCHANGED vars
      BY <2>3 DEF vars
    <3> QED  BY <1>1, <3>2, <3>3, <3>4, <3>5, <3>6, <3>7 DEF Next, Walk
  <2>5. /\ Len(Pipe) = 1 /\ before # <<>> /\ Len(before) \in Nat \ {0}
        /\ game' = before[Len(before)].game
        /\ SetPipe(<<before[Len(before)].event>>)
    BY <1>1, <2>4, UndoGives
  <2>6. PICK b \in Decisions : b = before[Len(before)] /\ b.event \in Events
    <3>1. Len(before) \in 1 .. Len(before) /\ before \in Seq(Decisions)
      BY <1>1, <2>5 DEF Inv, Types
    <3>2. before[Len(before)] \in Decisions
      BY <3>1, ElementOfSeq
    <3> QED  BY <3>2 DEF Decisions
  <2>7. pipes'[Len(pipes')] = <<b.event>>
    <3>1. pipes \in Seq(Seq(Events)) /\ pipes # <<>>
      BY <1>1 DEF Inv, Types
    <3>2. <<b.event>> \in Seq(Events) /\ SetPipe(<<b.event>>)
      BY <2>5, <2>6
    <3> QED  BY <3>1, <3>2, PipeSet
  <2> QED  BY <2>5, <2>6, <2>7
<1>2. Inv /\ [Next]_vars =>
        [IsUndo => /\ before # <<>>
                   /\ game' = before[Len(before)].game
                   /\ pipes'[Len(pipes')] = <<before[Len(before)].event>>
                   /\ Len(Pipe) = 1]_vars
  BY <1>1
<1> QED
  BY <1>2, Invariance, PTL DEF Spec, UndoRestores

-----------------------------------------------------------------------------
(***************************************************************************)
(* The turns of the game are those of module Rounds.  The stage of a turn  *)
(* can be read off the end of the running pipeline, for only the event     *)
(* that carries the turn on tells it; so a handler that enqueues in front  *)
(* of that event changes no stage, and the handlers of that event itself   *)
(* are few.                                                                *)
(***************************************************************************)
Closes(q) == q # <<>> /\ End(q).type = "AdvanceTurn"

StageRead ==
  /\ Stage = IF Closes(Pipe) THEN IF Len(Pipe) > 1 THEN "closing" ELSE "judged" ELSE "play"
  /\ Closes(Pipe) => Len(pipes) = 1

LEMMA StageIsRead == Inv => StageRead
<1> SUFFICES ASSUME Inv PROVE StageRead
  OBVIOUS
<1>1. PICK n \in Nat \ {0} : n = Len(pipes) /\ 1 \in DOMAIN pipes
  BY EmptySeq, LenProperties DEF Inv, Types
<1>2. PICK q : q = pipes[1] /\ q \in Seq(Events) /\ Shaped(q)
  BY <1>1, PipesShaped
<1>3. \A t : Pending(t) <=> \E j \in DOMAIN q : q[j].type = t
  BY <1>2 DEF Pending
<1>4. ASSUME q # <<>>
      PROVE  /\ Len(q) \in Nat \ {0} /\ DOMAIN q = 1 .. Len(q)
             /\ Pending("AdvanceTurn") <=> End(q).type = "AdvanceTurn"
             /\ End(q).type = "AdvanceTurn" => (Pending("GameOverCheck") <=> Len(q) > 1)
  <2>1. PICK k \in Nat \ {0} :
          /\ k = Len(q) /\ DOMAIN q = 1 .. k
          /\ \A j \in DOMAIN q : CarriesOn(q[j]) <=> j = k
    BY <1>2, <1>4, OnlyTheEnd
  <2>2. k \in DOMAIN q /\ End(q) = q[k]
    BY <2>1 DEF End
  <2>3. Pending("AdvanceTurn") <=> End(q).type = "AdvanceTurn"
    BY <1>3, <2>1, <2>2 DEF CarriesOn
  <2>4. ASSUME End(q).type = "AdvanceTurn" PROVE Pending("GameOverCheck") <=> k > 1
    <3>1. CASE k > 1
      <4>1. k - 1 \in DOMAIN q /\ q[k - 1].type = "GameOverCheck"
        BY <1>2, <1>4, <2>1, <2>4, <3>1 DEF Shaped
      <4> QED  BY <1>3, <3>1, <4>1
    <3>2. CASE ~(k > 1)
      <4>1. \A j \in DOMAIN q : q[j] = End(q)
        BY <2>1, <2>2, <3>2
      <4> QED  BY <1>3, <2>4, <3>2, <4>1
    <3> QED  BY <3>1, <3>2
  <2> QED  BY <2>1, <2>3, <2>4
<1>5. CASE n = 1
  <2>1. q = Pipe
    BY <1>1, <1>2, <1>5 DEF Pipe
  <2>2. CASE q = <<>>
    <3>1. ~Pending("AdvanceTurn")
      BY <1>3, <2>2
    <3> QED  BY <2>1, <2>2, <3>1 DEF StageRead, Stage, Closes
  <2>3. CASE q # <<>>
    BY <1>1, <1>4, <1>5, <2>1, <2>3 DEF StageRead, Stage, Closes
  <2> QED  BY <2>2, <2>3
<1>6. CASE n # 1
  <2>1. n > 1 /\ 1 \in 1 .. n - 1
    BY <1>6
  <2>2. q = <<Of("EndTurn", game.cur)>>
    BY <1>1, <1>2, <2>1 DEF Inv, Nested
  <2>3. q # <<>> /\ End(q).type = "EndTurn"
    BY <2>2 DEF End, Of
  <2>4. ~Pending("AdvanceTurn")
    BY <1>4, <2>3
  <2>5. ~Closes(Pipe)
    BY <1>1, <2>1 DEF Inv, Nested, Closes
  <2> QED  BY <2>4, <2>5 DEF StageRead, Stage
<1> QED
  BY <1>5, <1>6

LEMMA StageIsReadNext == Inv' => StageRead'
<1> QED  BY StageIsRead, PTL

(* The running pipeline is set to a sequence of any things at all. *)
LEMMA PipeBecomes ==
  ASSUME Inv, NEW S, NEW q \in Seq(S), SetPipe(q)
  PROVE  Pipe' = q /\ Len(pipes') = Len(pipes)
<1> DEFINE T == S \cup Events
<1>1. q \in Seq(T) /\ pipes \in Seq(Seq(T)) /\ pipes # <<>>
  <2>1. Seq(S) \subseteq Seq(T) /\ Seq(Events) \subseteq Seq(T)
    BY SeqMonotonic
  <2>2. Seq(Seq(Events)) \subseteq Seq(Seq(T))
    BY <2>1, SeqMonotonic
  <2> QED  BY <2>1, <2>2 DEF Inv, Types
<1> HIDE DEF T
<1> QED
  BY <1>1, PipeSet DEF Pipe

LEMMA FrontStays ==
  ASSUME Inv, Pipe # <<>>, Event.type \notin DOMAIN Ahead, NEW S, NEW es \in Seq(S),
         PutFront(es)
  PROVE  /\ Pipe' # <<>> /\ End(Pipe') = End(Pipe)
         /\ Len(Pipe') = Len(es) + Len(Pipe) - 1 /\ Len(es) \in Nat /\ Len(Pipe) \in Nat
<1> DEFINE T == S \cup Events
           q == es \o Tail(Pipe)
<1>1. es \in Seq(T) /\ Pipe \in Seq(T) /\ Len(Pipe) > 1
  BY HeadPlace, SeqMonotonic
<1> HIDE DEF T
<1>2. /\ q \in Seq(T) /\ q # <<>> /\ End(q) = End(Pipe)
      /\ Len(q) = Len(es) + Len(Pipe) - 1 /\ Len(es) \in Nat /\ Len(Pipe) \in Nat
  BY <1>1, FrontOf
<1>3. Pipe' = q
  BY <1>2, PipeBecomes DEF PutFront
<1> QED
  BY <1>2, <1>3

(* What module Rounds sees of the game, but the stage, stays as it is. *)
SameTable ==
  /\ setup' = setup /\ game'.cur = game.cur /\ game'.bankrupt = game.bankrupt
  /\ gameOver' = gameOver /\ winner' = winner

Started == Ahead.Turn \cup Ahead.WillMove \cup Ahead.EndTurn

(* A handler that puts something, or nothing, in front. *)
Fronts == \E S : \E es \in Seq(S) : PutFront(es)

LEMMA FrontsOne ==
  ASSUME NEW e, PutFront(<<e>>)
  PROVE  Fronts
<1>1. <<e>> \in Seq({e})
  OBVIOUS
<1> QED  BY <1>1 DEF Fronts

LEMMA FrontsNone ==
  ASSUME Consume
  PROVE  Fronts
<1>1. <<>> \in Seq({})
  BY EmptySeq
<1> QED  BY <1>1 DEF Fronts, Consume

LEMMA FrontsPlay ==
  ASSUME Inv, Inv', Pipe # <<>>, Event.type \in Started, Fronts
  PROVE  Stage = "play" /\ Stage' = "play"
<1>1. Event.type \notin DOMAIN Ahead /\ Event.type \notin Ahead.AdvanceTurn
  BY DEF Started, Ahead, StopEffects, PassEffects
<1>2. End(Pipe).type # "AdvanceTurn"
  <2>1. Event.type \in Ahead[End(Pipe).type]
    BY <1>1, HeadPlace
  <2>2. Ahead["AdvanceTurn"] = Ahead.AdvanceTurn
    OBVIOUS
  <2> QED  BY <1>1, <2>1, <2>2
<1>3. Pipe' # <<>> /\ End(Pipe') = End(Pipe)
  BY <1>1, FrontStays DEF Fronts
<1>4. ~Closes(Pipe) /\ ~Closes(Pipe')
  BY <1>2, <1>3 DEF Closes
<1> QED
  BY <1>4, StageIsRead, StageIsReadNext DEF StageRead

(* The questions and the effects that change the purse or the board alone. *)
LEMMA EffectsAreQuiet ==
  ASSUME Inv, \/ HandleInitDeal \/ HandleInitSellStock \/ HandleSellStock \/ HandleMove
              \/ HandleCollectSuit \/ HandleRotateSuit \/ HandlePromotion
              \/ HandleInitBuyStock \/ HandleBuyStock \/ HandleRaiseToll
              \/ HandlePayToll \/ HandleClearDirectionLock
              \/ HandleInitBuyVacantPlot \/ HandleBuyVacantPlot
  PROVE  Pipe # <<>> /\ Event.type \in Started /\ Fronts /\ SameTable
<1> DEFINE p == Event.player
<1>1. game \in Games
  BY DEF Inv, Types
<1>2. CASE HandleInitDeal
  BY <1>2, FrontsNone DEF HandleInitDeal, Handling, Leaf, SameOutcome, SameTable, Started, Ahead
<1>3. CASE HandleInitSellStock
  BY <1>3, FrontsNone, FrontsOne
     DEF HandleInitSellStock, Handling, Leaf, SameOutcome, SameTable, Started, Ahead
<1>4. CASE HandleSellStock
  BY <1>1, <1>4, FrontsNone
     DEF HandleSellStock, Handling, Leaf, SameOutcome, SameTable, Started, Ahead, Games
<1>5. CASE HandleMove
  BY <1>1, <1>5, FrontsNone
     DEF HandleMove, Handling, Leaf, SameOutcome, SameTable, Started, Ahead, Games
<1>6. CASE HandleCollectSuit
  BY <1>1, <1>6, FrontsNone DEF HandleCollectSuit, Handling, Leaf, SameOutcome, SameTable,
     Started, Ahead, PassEffects, Games
<1>7. CASE HandleRotateSuit
  BY <1>1, <1>7, FrontsNone DEF HandleRotateSuit, Handling, Leaf, SameOutcome, SameTable,
     Started, Ahead, PassEffects, Games
<1>8. CASE HandlePromotion
  BY <1>1, <1>8, FrontsNone DEF HandlePromotion, Handling, Leaf, SameOutcome, SameTable,
     Started, Ahead, PassEffects, Games
<1>9. CASE HandleInitBuyStock
  BY <1>9, FrontsNone, FrontsOne DEF HandleInitBuyStock, Handling, Leaf, SameOutcome,
     SameTable, Started, Ahead, PassEffects
<1>10. CASE HandleBuyStock
  BY <1>1, <1>10, FrontsNone DEF HandleBuyStock, Handling, Leaf, SameOutcome, SameTable,
     Started, Ahead, PassEffects, Games
<1>11. CASE HandleRaiseToll
  BY <1>1, <1>11, FrontsNone DEF HandleRaiseToll, Handling, Leaf, SameOutcome, SameTable,
     Started, Ahead, PassEffects, Games
<1>12. CASE HandlePayToll
  BY <1>1, <1>12, FrontsNone DEF HandlePayToll, Handling, Leaf, SameOutcome, SameTable,
     Started, Ahead, PassEffects, Games
<1>13. CASE HandleClearDirectionLock
  BY <1>1, <1>13, FrontsNone DEF HandleClearDirectionLock, Handling, Leaf, SameOutcome,
     SameTable, Started, Ahead, StopEffects, Games
<1>14. CASE HandleInitBuyVacantPlot
  BY <1>14, FrontsNone, FrontsOne DEF HandleInitBuyVacantPlot, Handling, Leaf, SameOutcome,
     SameTable, Started, Ahead, StopEffects
<1>15. CASE HandleBuyVacantPlot
  BY <1>1, <1>15, FrontsNone DEF HandleBuyVacantPlot, Handling, Leaf, SameOutcome,
     SameTable, Started, Ahead, StopEffects, Games
<1> QED
  BY <1>2, <1>3, <1>4, <1>5, <1>6, <1>7, <1>8, <1>9, <1>10, <1>11, <1>12, <1>13, <1>14, <1>15

(* Those that carry the player elsewhere, and those of passing and landing. *)
LEMMA LandingIsQuiet ==
  ASSUME Inv, HandleWarp \/ HandleInitCannon \/ HandlePass \/ HandleStop
              \/ (HandleVentureCard /\ ~BonusRoll)
  PROVE  Pipe # <<>> /\ Event.type \in Started /\ Fronts /\ SameTable
<1> DEFINE p == Event.player
<1>1. game \in Games
  BY DEF Inv, Types
<1>2. \A e, f : PutFront(<<e, f>>) => Fronts
  <2> TAKE e, f
  <2>1. <<e, f>> \in Seq({e, f})
    OBVIOUS
  <2> QED  BY <2>1 DEF Fronts
<1>3. Pipe # <<>> => p \in Players /\ Event \in Events
  BY HeadPlace
<1>4. CASE HandleWarp
  <2>1. /\ Pipe # <<>> /\ Event.type = "Warp"
        /\ game' = [game EXCEPT !.from[p] = None, !.pos[p] = Event.square]
        /\ UNCHANGED <<setup, gameOver, winner>>
        /\ PutFront(If(Event.voluntary, <<At("PassAction", p, Event.square),
                                          At("StopAction", p, Event.square)>>))
    BY <1>4 DEF HandleWarp, Handling, Leaf, SameOutcome
  <2>2. Fronts
    <3>1. CASE Event.voluntary
      BY <1>2, <2>1, <3>1 DEF If
    <3>2. CASE ~Event.voluntary
      BY <2>1, <3>2, FrontsNone DEF If, Consume
    <3> QED  BY <3>1, <3>2
  <2>3. SameTable
    BY <1>1, <2>1 DEF SameTable, Games
  <2> QED  BY <2>1, <2>2, <2>3 DEF Started, Ahead, PassEffects
<1>5. CASE HandleInitCannon
  <2>1. Pipe # <<>> /\ Event.type = "InitCannon" /\ UNCHANGED <<setup, game, gameOver, winner>>
    BY <1>5 DEF HandleInitCannon, Handling, Leaf, SameOutcome
  <2>2. CASE Consume
    BY <2>1, <2>2, FrontsNone DEF SameTable, Started, Ahead, StopEffects
  <2>3. CASE ~Consume
    <3>1. PICK e1, e2, e3, e4, c2, c3, c4 :
            PutFront(<<e1>> \o If(c2, <<e2>>) \o If(c3, <<e3>>) \o If(c4, <<e4>>))
      BY <1>5, <2>3 DEF HandleInitCannon
    <3> DEFINE S == {e1, e2, e3, e4}
               es == <<e1>> \o If(c2, <<e2>>) \o If(c3, <<e3>>) \o If(c4, <<e4>>)
    <3>2. <<e1>> \in Seq(S) /\ <<e2>> \in Seq(S) /\ <<e3>> \in Seq(S) /\ <<e4>> \in Seq(S)
      OBVIOUS
    <3> HIDE DEF S
    <3>3. If(c2, <<e2>>) \in Seq(S) /\ If(c3, <<e3>>) \in Seq(S) /\ If(c4, <<e4>>) \in Seq(S)
      BY <3>2, IfSeq
    <3>4. <<e1>> \o If(c2, <<e2>>) \in Seq(S)
      BY <3>2, <3>3, ConcatSeq
    <3>5. <<e1>> \o If(c2, <<e2>>) \o If(c3, <<e3>>) \in Seq(S)
      BY <3>3, <3>4, ConcatSeq
    <3>6. es \in Seq(S)
      BY <3>3, <3>5, ConcatSeq
    <3> QED  BY <2>1, <3>1, <3>6 DEF Fronts, SameTable, Started, Ahead, StopEffects
  <2> QED  BY <2>2, <2>3
<1>6. CASE HandlePass
  <2>1. /\ Pipe # <<>> /\ Event.type = "PassAction" /\ UNCHANGED <<setup, game, gameOver, winner>>
        /\ PutFront(PassEvents(p, Event.square))
    BY <1>6 DEF HandlePass, Handling, Leaf, SameOutcome
  <2>2. p \in Players /\ Event.square \in Squares
    BY <1>3, <2>1, EventFields DEF Squared
  <2>3. Fronts
    BY <2>1, <2>2, PassEventsGood DEF Fronts
  <2> QED  BY <2>1, <2>3 DEF SameTable, Started, Ahead, PassEffects
<1>7. CASE HandleStop
  <2>1. /\ Pipe # <<>> /\ Event.type = "StopAction" /\ UNCHANGED <<setup, game, gameOver, winner>>
        /\ PutFront(StopEvents(p, Event.square))
    BY <1>7 DEF HandleStop, Handling, SameOutcome
  <2>2. p \in Players /\ Event.square \in Squares
    BY <1>3, <2>1, EventFields DEF Squared
  <2>3. PICK es \in Seq(StopEarly(p)), fs \in Seq(StopGood(p)) :
          StopEvents(p, Event.square) = es \o fs
    BY <2>2, StopEventsGood
  <2>4. Fronts
    <3> DEFINE S == StopEarly(p) \cup StopGood(p)
    <3>1. es \in Seq(S) /\ fs \in Seq(S)
      BY SeqMonotonic
    <3> HIDE DEF S
    <3>2. StopEvents(p, Event.square) \in Seq(S)
      BY <2>3, <3>1, ConcatSeq
    <3> QED  BY <2>1, <3>2 DEF Fronts
  <2> QED  BY <2>1, <2>4 DEF SameTable, Started, Ahead, StopEffects
<1>8. CASE HandleVentureCard /\ ~BonusRoll
  <2>1. /\ Pipe # <<>> /\ Event.type = "VentureCard" /\ UNCHANGED <<setup, gameOver, winner>>
        /\ \/ Consume /\ game' = [game EXCEPT !.from[p] = None]
           \/ \E s \in Squares :
                /\ game' = [game EXCEPT !.from[p] = None, !.pos[p] = s]
                /\ PutFront(<<At("PassAction", p, s), At("StopAction", p, s)>>)
           \/ Consume /\ \E roll \in 1 .. setup.maxRoll :
                           game' = [game EXCEPT !.cash[p] = @ + 40 * roll]
           \/ Consume /\ game' = [game EXCEPT !.suits[p] = Collected(@, Wild)]
    BY <1>8 DEF HandleVentureCard, BonusRoll, Handling
  <2>2. Fronts
    BY <1>2, <2>1, FrontsNone
  <2>3. game'.cur = game.cur /\ game'.bankrupt = game.bankrupt
    BY <1>1, <2>1 DEF Games
  <2> QED  BY <2>1, <2>2, <2>3 DEF SameTable, Started, Ahead, StopEffects
<1> QED
  BY <1>4, <1>5, <1>6, <1>7, <1>8

(* Of the events that carry the turn on, those that go on playing. *)
LEMMA SetPlays ==
  ASSUME Inv, Inv', ~Closes(Pipe), NEW S, NEW q \in Seq(S), SetPipe(q), ~Closes(q)
  PROVE  Stage = "play" /\ Stage' = "play"
<1>1. Pipe' = q
  BY PipeBecomes
<1> QED  BY <1>1, StageIsRead, StageIsReadNext DEF StageRead

LEMMA TwoPlay ==
  ASSUME NEW e, NEW f, f.type # "AdvanceTurn"
  PROVE  ~Closes(<<f>>) /\ ~Closes(<<e, f>>) /\ <<f>> \in Seq({e, f}) /\ <<e, f>> \in Seq({e, f})
BY DEF Closes, End

LEMMA CarryingPlays ==
  ASSUME Inv, Inv', HandleTurn \/ HandleRoll \/ ChoosePath \/ UndoMove \/ UndoNothing
                    \/ StopMoving
  PROVE  SameTable /\ Stage = "play" /\ Stage' = "play"
<1> DEFINE p == Event.player
<1>1. Pipe # <<>> /\ Event.type \in {"Turn", "Roll", "WillMove"}
  BY DEF HandleTurn, HandleRoll, ChoosePath, UndoMove, UndoNothing, StopMoving, Handling
<1>2. Tail(Pipe) = <<>> /\ p = game.cur /\ ~Closes(Pipe) /\ End(Pipe) = Event
  BY <1>1, OnlyHead DEF Ahead, Closes
<1>3. game \in Games
  BY DEF Inv, Types
<1>4. ASSUME NEW q, Closes(q) PROVE End(q).type = "AdvanceTurn"
  BY <1>4 DEF Closes
<1>5. CASE HandleTurn
  <2>1. /\ game' = [game EXCEPT !.cur = p] /\ UNCHANGED <<setup, gameOver, winner>>
        /\ \/ PutBack(<<Roll(p)>>)
           \/ PutBack(<<Of("InitSellStock", p), Turn(p)>>)
           \/ PutBack(<<Of("InitDeal", p), Turn(p)>>)
    BY <1>5 DEF HandleTurn, SameOutcome
  <2>2. SameTable
    BY <1>2, <1>3, <2>1 DEF SameTable, Games
  <2>3. \E e, f : /\ f.type # "AdvanceTurn"
                  /\ SetPipe(<<f>>) \/ SetPipe(<<e, f>>)
    <3>1. Roll(p).type # "AdvanceTurn" /\ Turn(p).type # "AdvanceTurn"
      BY DEF Roll, Turn
    <3>2. \A e, f : <<>> \o <<f>> = <<f>> /\ <<>> \o <<e, f>> = <<e, f>>
      OBVIOUS
    <3> QED  BY <1>2, <2>1, <3>1, <3>2 DEF PutBack
  <2> QED  BY <1>2, <2>2, <2>3, TwoPlay, SetPlays
<1>6. CASE HandleRoll
  <2>1. UNCHANGED <<setup, game, gameOver, winner>>
    BY <1>6 DEF HandleRoll
  <2>2. PICK f : PutFront(<<f>>) /\ f.type # "AdvanceTurn"
    BY <1>6 DEF HandleRoll, WillMove
  <2>3. SetPipe(<<f>>)
    <3>1. <<f>> \o <<>> = <<f>>
      OBVIOUS
    <3> QED  BY <1>2, <2>2, <3>1 DEF PutFront
  <2> QED  BY <1>2, <2>1, <2>2, <2>3, TwoPlay, SetPlays DEF SameTable
<1>7. CASE ChoosePath
  <2>1. UNCHANGED <<setup, game, gameOver, winner>>
    BY <1>7 DEF ChoosePath, SameOutcome
  <2>2. PICK to \in Choices :
          PutBack(StepEvents(p, to, Event.total, Event.remaining - StepCost(to)))
    BY <1>7 DEF ChoosePath
  <2> DEFINE d == Move(p, game.pos[p], to)
             e == At("PassAction", p, to)
             f == WillMove(p, Event.total, Event.remaining - StepCost(to))
  <2>3. PutBack(<<d, e, f>>) /\ f.type # "AdvanceTurn"
    BY <2>2 DEF StepEvents, WillMove
  <2> HIDE DEF d, e, f
  <2>4. SetPipe(<<d, e, f>>)
    <3>1. <<>> \o <<d, e, f>> = <<d, e, f>>
      OBVIOUS
    <3> QED  BY <1>2, <2>3, <3>1 DEF PutBack
  <2>5. <<d, e, f>> \in Seq({d, e, f}) /\ ~Closes(<<d, e, f>>)
    BY <2>3 DEF Closes, End
  <2> QED  BY <1>2, <2>1, <2>4, <2>5, SetPlays DEF SameTable
<1>8. CASE UndoMove
  <2>1. PICK f : SetPipe(<<f>>) /\ f.type # "AdvanceTurn"
    BY <1>8 DEF UndoMove, WillMove
  <2>2. /\ UNCHANGED <<setup, gameOver, winner>> /\ moves # <<>>
        /\ game' = Restored(p, moves[Len(moves)])
    BY <1>8 DEF UndoMove, SameOutcome
  <2>3. game'.cur = game.cur /\ game'.bankrupt = game.bankrupt
    BY <1>3, <2>2 DEF Restored, Games
  <2> QED  BY <1>2, <2>1, <2>2, <2>3, TwoPlay, SetPlays DEF SameTable
<1>9. CASE UndoNothing
  <2>1. Consume /\ UNCHANGED <<setup, game, gameOver, winner>>
    BY <1>9 DEF UndoNothing, Leaf, SameOutcome
  <2>2. SetPipe(<<>>) /\ <<>> \in Seq({}) /\ ~Closes(<<>>)
    <3>1. <<>> \o <<>> = <<>>
      OBVIOUS
    <3> QED  BY <1>2, <2>1, <3>1, EmptySeq DEF Consume, PutFront, Closes
  <2> QED  BY <1>2, <2>1, <2>2, SetPlays DEF SameTable
<1>10. CASE StopMoving
  <2>1. UNCHANGED <<setup, game, gameOver, winner>>
    BY <1>10 DEF StopMoving, Leaf, SameOutcome
  <2> DEFINE e == At("StopAction", p, game.pos[p])
             f == Of("EndTurn", p)
  <2>2. PutBack(<<e, f>>) /\ f.type # "AdvanceTurn"
    BY <1>10 DEF StopMoving, Of
  <2> HIDE DEF e, f
  <2>3. SetPipe(<<e, f>>)
    <3>1. <<>> \o <<e, f>> = <<e, f>>
      OBVIOUS
    <3> QED  BY <1>2, <2>2, <3>1 DEF PutBack
  <2> QED  BY <1>2, <2>1, <2>2, <2>3, TwoPlay, SetPlays DEF SameTable
<1> QED
  BY <1>5, <1>6, <1>7, <1>8, <1>9, <1>10

(* A bonus roll, and the return from one: the pipelines that wait hold the *)
(* end of a turn still to be closed.                                       *)
LEMMA BonusPlays ==
  ASSUME Inv, Inv', HandleRollAgain \/ (HandleVentureCard /\ BonusRoll) \/ LeaveExtraRoll
  PROVE  SameTable /\ Stage = "play" /\ Stage' = "play"
<1>1. PICK n \in Nat \ {0} : n = Len(pipes) /\ pipes \in Seq(Seq(Events)) /\ pipes # <<>>
  BY EmptySeq DEF Inv, Types
<1>2. SameTable
  BY DEF HandleRollAgain, HandleVentureCard, BonusRoll, LeaveExtraRoll, Leaf, NoUndo,
     SameOutcome, SameTable
<1>3. CASE LeaveExtraRoll
  <2>1. n > 1 /\ pipes' = SubSeq(pipes, 1, Len(pipes) - 1)
    BY <1>1, <1>3 DEF LeaveExtraRoll
  <2>2. pipes'[1] = pipes[1]
    <3>1. 1 \in 1 .. n - 1
      BY <2>1
    <3> QED  BY <1>1, <2>1, <3>1, Shortened
  <2>3. Stage' = Stage
    BY <2>2 DEF Stage, Pending
  <2>4. Stage = "play"
    <3>1. Len(pipes) # 1
      <4>1. n # 1
        BY <2>1
      <4> QED  BY <1>1, <4>1, Zenon
    <3>2. ~Closes(Pipe)
      BY <3>1, StageIsRead DEF StageRead
    <3> QED  BY <3>2, StageIsRead DEF StageRead
  <2> QED  BY <1>2, <2>3, <2>4
<1>4. CASE HandleRollAgain \/ (HandleVentureCard /\ BonusRoll)
  <2>1. Pipe # <<>> /\ Event.type \in {"VentureCard", "RollAgain"}
    BY <1>4 DEF HandleRollAgain, HandleVentureCard, Handling
  <2>2. ~Closes(Pipe)
    <3>1. Event.type \notin DOMAIN Ahead /\ Event.type \in StopEffects \ PassEffects
      BY <2>1 DEF Ahead, StopEffects, PassEffects
    <3> QED  BY <2>1, <3>1, EndPlace DEF Closes
  <2>3. Pipe' # <<>> => End(Pipe').type # "AdvanceTurn"
    <3>1. CASE HandleRollAgain
      <4> DEFINE Kept(e) == e.type \notin {"EndTurn", "Turn"}
      <4>1. SetPipe(<<Roll(Event.player)>> \o Picked(Tail(Pipe), Kept))
        BY <3>1 DEF HandleRollAgain
      <4>2. Picked(Tail(Pipe), Kept) = <<>>
        <5> DEFINE at == {i \in DOMAIN Tail(Pipe) : Kept(Tail(Pipe)[i])}
                   chosen(k) == Tail(Pipe)[CHOOSE i \in at : Cardinality({j \in at : j <= i}) = k]
        <5>1. at = {}
          BY <2>1, LastEffect
        <5>2. Cardinality(at) = 0
          BY <5>1, FS_EmptySet
        <5>3. Picked(Tail(Pipe), Kept) = [k \in 1 .. Cardinality(at) |-> chosen(k)]
          BY DEF Picked
        <5> HIDE DEF at, chosen
        <5>4. [k \in 1 .. 0 |-> chosen(k)] = <<>>
          OBVIOUS
        <5> QED  BY <5>2, <5>3, <5>4
      <4> DEFINE f == Roll(Event.player)
      <4>3. f.type # "AdvanceTurn"
        BY DEF Roll
      <4> HIDE DEF f
      <4>4. <<f>> \o <<>> = <<f>>
        OBVIOUS
      <4>5. SetPipe(<<f>>)
        BY <4>1, <4>2, <4>4 DEF f
      <4>6. Pipe' = <<f>>
        BY <4>3, <4>5, TwoPlay, PipeBecomes
      <4> QED  BY <4>3, <4>6 DEF End
    <3>2. CASE HandleVentureCard /\ BonusRoll
      <4>1. \E w : pipes' = Append(w, <<Roll(Event.player)>>)
                   /\ w = [pipes EXCEPT ![Len(pipes)] = Tail(@)]
        BY <3>2 DEF BonusRoll
      <4>2. PICK t \in Seq(Events) : t = Tail(Pipe)
        BY <2>1, LastEffect
      <4>3. PICK w \in Seq(Seq(Events)) :
              w = [pipes EXCEPT ![Len(pipes)] = Tail(Pipe)] /\ Len(w) = n
        <5>1. n \in 1 .. Len(pipes)
          BY <1>1
        <5>2. [pipes EXCEPT ![n] = t] \in Seq(Seq(Events)) /\ Len([pipes EXCEPT ![n] = t]) = n
          BY <1>1, <4>2, <5>1, ExceptSeq
        <5> QED  BY <1>1, <4>2, <5>2
      <4>4. w = [pipes EXCEPT ![Len(pipes)] = Tail(@)]
        BY <1>1, <4>3 DEF Pipe
      <4> DEFINE f == Roll(Event.player)
      <4>5. f.type # "AdvanceTurn"
        BY DEF Roll
      <4> HIDE DEF f
      <4>6. pipes' = Append(w, <<f>>)
        BY <4>1, <4>4 DEF f
      <4>7. pipes' [n + 1] = <<f>> /\ Len(pipes') = n + 1
        <5> DEFINE T == Events \cup {f}
        <5>1. w \in Seq(Seq(T)) /\ <<f>> \in Seq(T)
          BY SeqMonotonic
        <5> HIDE DEF T
        <5> QED  BY <4>3, <4>6, <5>1, AppendProperties
      <4>8. Pipe' = <<f>>
        BY <4>7 DEF Pipe
      <4> QED  BY <4>5, <4>8 DEF End
    <3> QED  BY <1>4, <3>1, <3>2
  <2>4. ~Closes(Pipe')
    BY <2>3 DEF Closes
  <2> QED  BY <1>2, <2>2, <2>4, StageIsRead, StageIsReadNext DEF StageRead
<1> QED
  BY <1>3, <1>4

(***************************************************************************)
(* The steps of the table.                                                 *)
(***************************************************************************)
LEMMA SameSeats ==
  ASSUME setup' = setup
  PROVE  /\ Players' = Players
         /\ game'.bankrupt = game.bankrupt =>
              Active' = Active /\ (Players \ Active)' = Players \ Active
BY DEF Players, Active

LEMMA StillTable ==
  ASSUME SameTable, Stage' = Stage
  PROVE  UNCHANGED Table!vars
BY SameSeats DEF SameTable, Table!vars

LEMMA InIsActive ==
  Table!Seats = Players /\ Table!In = Active
BY DEF Table!Seats, Table!In, Players, Active

(* Closing events wait in the one pipeline there is, and the game goes on. *)
LEMMA ClosingIsOn ==
  ASSUME Inv, Pipe # <<>>, Event.type \in Ahead.AdvanceTurn \cup {"AdvanceTurn"},
         NEW t, Handling(t)
  PROVE  /\ Closes(Pipe) /\ ~gameOver /\ Event.player = game.cur /\ Len(Pipe) \in Nat
         /\ Event.type \in Ahead.AdvanceTurn =>
              Event.type \notin DOMAIN Ahead /\ Len(Pipe) > 1 /\ Stage = "closing"
         /\ Event.type = "AdvanceTurn" => Stage = "judged"
<1>1. Event.player = game.cur /\ Len(Pipe) \in Nat \ {0}
  BY HeadPlace
<1>2. /\ Event.type \in Ahead.AdvanceTurn => Event.type \notin DOMAIN Ahead
      /\ Event.type = "AdvanceTurn" => Event.type \in DOMAIN Ahead
  BY DEF Ahead, StopEffects, PassEffects
<1>3. Closes(Pipe)
  <2>1. CASE Event.type \in Ahead.AdvanceTurn
    BY <1>2, <2>1, EndPlace DEF Closes
  <2>2. CASE Event.type = "AdvanceTurn"
    BY <1>2, <2>2, OnlyHead DEF Closes
  <2> QED  BY <2>1, <2>2
<1>4. Len(pipes) = 1
  BY <1>3, StageIsRead DEF StageRead
<1>5. ~gameOver
  BY <1>4 DEF Handling
<1>6. Event.type \in Ahead.AdvanceTurn => Len(Pipe) > 1
  BY <1>2, HeadPlace
<1>7. Event.type = "AdvanceTurn" => Len(Pipe) = 1
  BY <1>2, HeadPlace
<1>8. Event.type = "AdvanceTurn" => ~(Len(Pipe) > 1)
  <2>1. ~(1 > 1)
    OBVIOUS
  <2> QED  BY <1>7, <2>1
<1> QED
  BY <1>1, <1>2, <1>3, <1>5, <1>6, <1>8, StageIsRead DEF StageRead

LEMMA ClosingWaits ==
  ASSUME Inv, Inv', Pipe # <<>>, Event.type \in Ahead.AdvanceTurn \ {"GameOverCheck"},
         NEW t, Handling(t), Fronts
  PROVE  Stage = "closing" /\ Stage' = "closing" /\ ~gameOver /\ Event.player = game.cur
<1>1. /\ Closes(Pipe) /\ ~gameOver /\ Event.player = game.cur /\ Len(Pipe) \in Nat
      /\ Event.type \notin DOMAIN Ahead /\ Len(Pipe) > 1 /\ Stage = "closing"
  BY ClosingIsOn
<1>2. Len(Pipe) # 2
  BY <1>1, EndPlace DEF Closes
<1>3. PICK S : \E es \in Seq(S) : PutFront(es)
  BY DEF Fronts
<1>4. PICK es \in Seq(S) : PutFront(es)
  BY <1>3
<1>5. /\ Pipe' # <<>> /\ End(Pipe') = End(Pipe) /\ Len(es) \in Nat
      /\ Len(Pipe') = Len(es) + Len(Pipe) - 1
  BY <1>1, <1>4, FrontStays
<1>6. Len(Pipe') > 1
  <2>1. PICK k \in Nat : k = Len(Pipe)
    BY <1>1
  <2>2. PICK m \in Nat : m = Len(es)
    BY <1>5
  <2>3. k > 1 /\ k # 2 /\ Len(Pipe') = m + k - 1
    BY <1>1, <1>2, <1>5, <2>1, <2>2
  <2>4. m + k - 1 > 1
    BY <2>3
  <2> QED  BY <2>3, <2>4
<1>7. Closes(Pipe')
  BY <1>1, <1>5 DEF Closes
<1> QED
  BY <1>1, <1>6, <1>7, StageIsReadNext DEF StageRead

LEMMA ClosingSteps ==
  ASSUME Inv, Inv', \/ HandleLiquidation \/ HandleBankruptcyCheck \/ HandleBankruptcy
                    \/ HandleStockFluctuation \/ HandleTickStatuses
  PROVE  [Table!Ruin]_(Table!vars)
<1> DEFINE p == Event.player
<1>1. game \in Games
  BY DEF Inv, Types
<1>2. ASSUME NEW t \in Ahead.AdvanceTurn \ {"GameOverCheck"}, Handling(t), Fronts
      PROVE  Stage = "closing" /\ Stage' = "closing" /\ ~gameOver /\ p = game.cur
  <2>1. Pipe # <<>> /\ Event.type = t
    BY <1>2 DEF Handling
  <2> QED  BY <1>2, <2>1, ClosingWaits
<1>3. CASE ~HandleBankruptcy
  <2>1. PICK t \in Ahead.AdvanceTurn \ {"GameOverCheck"} : Handling(t)
    BY <1>3 DEF HandleLiquidation, HandleBankruptcyCheck, HandleStockFluctuation,
       HandleTickStatuses, Ahead
  <2>2. Fronts
    <3>1. CASE ~HandleBankruptcyCheck
      BY <1>3, <3>1, FrontsNone DEF HandleLiquidation, HandleStockFluctuation, HandleTickStatuses
    <3>2. CASE HandleBankruptcyCheck
      <4>1. PutFront(If(NetWorth(p) < 0, <<Of("Bankruptcy", p)>>))
        BY <3>2 DEF HandleBankruptcyCheck
      <4>2. CASE NetWorth(p) < 0
        BY <4>1, <4>2, FrontsOne DEF If
      <4>3. CASE ~(NetWorth(p) < 0)
        BY <4>1, <4>3, FrontsNone DEF If, Consume
      <4> QED  BY <4>2, <4>3
    <3> QED  BY <3>1, <3>2
  <2>3. SameTable
    BY <1>1, <1>3 DEF HandleLiquidation, HandleBankruptcyCheck, HandleStockFluctuation,
       HandleTickStatuses, Leaf, SameOutcome, SameTable, Games
  <2>4. Stage' = Stage
    BY <1>2, <2>1, <2>2
  <2> QED  BY <2>3, <2>4, StillTable
<1>4. CASE HandleBankruptcy
  <2>1. /\ Handling("Bankruptcy") /\ Consume /\ UNCHANGED <<setup, gameOver, winner>>
        /\ game' = [game EXCEPT
                      !.bankrupt[p] = TRUE, !.cash[p] = @ + game.stock[p] * Price,
                      !.stock[p] = 0,
                      !.owner = [s \in Squares |-> IF @[s] = p THEN None ELSE @[s]]]
    BY <1>4 DEF HandleBankruptcy, Leaf, SameOutcome
  <2>2. Stage = "closing" /\ Stage' = "closing" /\ ~gameOver /\ p = game.cur
    <3>1. "Bankruptcy" \in Ahead.AdvanceTurn \ {"GameOverCheck"}
      BY DEF Ahead
    <3> QED  BY <1>2, <2>1, <3>1, FrontsNone
  <2>3. game'.cur = game.cur /\ game'.bankrupt = [game.bankrupt EXCEPT ![p] = TRUE]
    BY <1>1, <2>1 DEF Games
  <2>4. p \in Players /\ game.bankrupt \in [Players -> BOOLEAN]
    BY <1>1, <2>2 DEF Games
  <2>5. CASE game.bankrupt[p]
    <3>1. game'.bankrupt = game.bankrupt
      BY <2>3, <2>4, <2>5
    <3> QED  BY <2>1, <2>2, <2>3, <3>1, StillTable DEF SameTable
  <2>6. CASE ~game.bankrupt[p]
    <3>1. p \in Active /\ (Players \ Active)' = (Players \ Active) \cup {p}
      BY <2>1, <2>3, <2>4, <2>6, SameSeats DEF Active
    <3> QED  BY <2>1, <2>2, <2>3, <3>1, InIsActive
             DEF Table!Ruin, Table!SameRules, Table!SameOutcome
  <2> QED  BY <2>5, <2>6
<1> QED
  BY <1>3, <1>4

(* The end of a turn begins: five events are in front of the last one.     *)
LEMMA EndTurnCloses ==
  ASSUME Inv, Inv', HandleEndTurn
  PROVE  Table!Close
<1> DEFINE p == Event.player
           es == ClosingEvents(p)
<1>1. /\ Pipe # <<>> /\ Event.type = "EndTurn" /\ Len(pipes) = 1 /\ ~gameOver
      /\ PutFront(es) /\ UNCHANGED <<setup, game, gameOver, winner>>
  BY DEF HandleEndTurn, Handling, Leaf, SameOutcome
<1>2. Tail(Pipe) = <<>> /\ ~Closes(Pipe)
  BY <1>1, OnlyHead DEF Ahead, Closes
<1> DEFINE S == {Of("LiquidationPhase", p), Of("BankruptcyCheck", p), Of("StockFluctuation", p),
                 Of("TickStatuses", p), Of("GameOverCheck", p), Of("AdvanceTurn", p)}
<1>3. es \in Seq(S) /\ Len(es) = 6 /\ es # <<>> /\ es[6].type = "AdvanceTurn"
  BY DEF ClosingEvents, Of
<1> HIDE DEF S, es
<1>4. es \o <<>> = es
  BY <1>3, ConcatEmptySeq
<1>5. Pipe' = es
  BY <1>1, <1>2, <1>3, <1>4, PipeBecomes DEF PutFront
<1>6. Closes(Pipe') /\ Len(Pipe') > 1
  <2>1. End(es).type = "AdvanceTurn"
    BY <1>3 DEF End
  <2>2. 6 > 1
    OBVIOUS
  <2> QED  BY <1>3, <1>5, <2>1, <2>2 DEF Closes
<1>7. Stage = "play" /\ Stage' = "closing"
  BY <1>2, <1>6, StageIsRead, StageIsReadNext DEF StageRead
<1> QED
  BY <1>1, <1>7, SameSeats DEF Table!Close, Table!SameRules, Table!SameOutcome

(* The outcome is judged: too many are out, or the turn may pass.          *)
LEMMA GameOverCheckJudges ==
  ASSUME Inv, Inv', HandleGameOverCheck, ~gameOver => winner = None
  PROVE  Table!Judge
<1>1. /\ Pipe # <<>> /\ Event.type = "GameOverCheck" /\ Handling("GameOverCheck") /\ Consume
      /\ UNCHANGED <<setup, game>>
  BY DEF HandleGameOverCheck, Handling
<1>2. /\ Closes(Pipe) /\ ~gameOver /\ Stage = "closing" /\ Event.type \notin DOMAIN Ahead
  <2>1. "GameOverCheck" \in Ahead.AdvanceTurn
    BY DEF Ahead
  <2> QED  BY <1>1, <2>1, ClosingIsOn
<1>3. Len(Pipe) = 2
  BY <1>1, <1>2, EndPlace DEF Late
<1>4. Pipe' # <<>> /\ End(Pipe') = End(Pipe) /\ Len(Pipe') = Len(<<>>) + Len(Pipe) - 1
  <2>1. <<>> \in Seq({})
    BY EmptySeq
  <2> QED  BY <1>1, <1>2, <2>1, FrontStays DEF Consume
<1>5. Closes(Pipe') /\ ~(Len(Pipe') > 1)
  <2>1. Len(<<>>) = 0
    BY EmptySeq
  <2>2. Len(Pipe') = 1
    <3>1. 0 + 2 - 1 = 1
      OBVIOUS
    <3> QED  BY <1>3, <1>4, <2>1, <3>1, Zenon
  <2>3. ~(1 > 1)
    OBVIOUS
  <2> QED  BY <1>2, <1>4, <2>2, <2>3 DEF Closes
<1>6. Stage' = "judged"
  BY <1>5, StageIsReadNext DEF StageRead
<1> DEFINE c == Cardinality(Players \ Active)
           l == setup.maxBankruptcies
<1>7. c \in Nat /\ l \in Int
  <2>1. setup.players \in Nat \ {0} /\ l \in Int
    BY Board
  <2>2. IsFiniteSet(Players)
    <3>1. 0 \in Int /\ setup.players - 1 \in Int
      BY <2>1
    <3> QED  BY <3>1, FS_Interval, Zenon DEF Players
  <2>3. IsFiniteSet(Players \ Active)
    BY <2>2, FS_Subset
  <2> QED  BY <2>1, <2>3, FS_CardinalityType
<1>8. /\ c < l => UNCHANGED <<gameOver, winner>>
      /\ ~(c < l) => gameOver' = TRUE /\ winner' \in IF Active = {} THEN {None} ELSE Active
  BY DEF HandleGameOverCheck
<1> HIDE DEF c, l
<1>9. gameOver' = (c >= l)
  <2>1. c < l \/ c >= l
    BY <1>7
  <2>2. ~(c < l /\ c >= l)
    BY <1>7
  <2>3. gameOver = FALSE
    BY <1>2 DEF Inv, Types
  <2>4. CASE c < l
    <3>1. gameOver' = FALSE
      BY <1>8, <2>3, <2>4
    <3>2. (c >= l) = FALSE
      BY <2>2, <2>4
    <3> QED  BY <3>1, <3>2
  <2>5. CASE ~(c < l)
    <3>1. gameOver' = TRUE /\ (c >= l) = TRUE
      BY <1>8, <2>1, <2>5, Zenon
    <3> QED  BY <3>1
  <2> QED  BY <2>4, <2>5
<1>10. winner' \in IF gameOver' /\ Active # {} THEN Active ELSE {None}
  <2>1. CASE c < l
    BY <1>2, <1>8, <2>1
  <2>2. CASE ~(c < l)
    BY <1>8, <2>2
  <2> QED  BY <2>1, <2>2
<1>11. Table!SameRules /\ UNCHANGED <<game.cur, Players \ Active>>
  BY <1>1, SameSeats DEF Table!SameRules
<1>12. gameOver' = (Cardinality(Players \ Active) >= setup.maxBankruptcies)
  BY <1>9 DEF c, l
<1>13. Table!Cardinality(Players \ Active) = Cardinality(Players \ Active)
  BY DEF Table!Cardinality, Cardinality
<1> QED
  BY <1>2, <1>6, <1>10, <1>11, <1>12, <1>13, InIsActive DEF Table!Judge

(* Round the table: the k-th seat after p is k seats away.                 *)
LEMMA RoundIs ==
  ASSUME Inv, NEW p \in Players
  PROVE  /\ \A q \in Players : /\ Table!Round(p, q) \in 1 .. setup.players
                               /\ (p + Table!Round(p, q)) % setup.players = q
         /\ \A k \in 1 .. setup.players : Table!Round(p, (p + k) % setup.players) = k
<1>1. PICK n \in Nat \ {0} : n = setup.players
  BY Board
<1>2. Players = 0 .. n - 1 /\ p \in 0 .. n - 1
  BY <1>1 DEF Players
<1>3. \A q : Table!Round(p, q) = IF q > p THEN q - p ELSE q - p + n
  BY <1>1 DEF Table!Round
<1>4. ASSUME NEW q \in 0 .. n - 1
      PROVE  Table!Round(p, q) \in 1 .. n /\ (p + Table!Round(p, q)) % n = q
  <2>1. CASE q > p
    <3>1. Table!Round(p, q) = q - p /\ p + (q - p) = q /\ q - p \in 1 .. n
      BY <1>2, <1>3, <1>4, <2>1
    <3> QED  BY <1>4, <3>1, Modulo
  <2>2. CASE ~(q > p)
    <3>1. Table!Round(p, q) = q - p + n /\ p + (q - p + n) = q + n /\ q - p + n \in 1 .. n
      BY <1>2, <1>3, <1>4, <2>2
    <3> QED  BY <1>4, <3>1, Modulo
  <2> QED  BY <2>1, <2>2
<1>5. ASSUME NEW k \in 1 .. n PROVE Table!Round(p, (p + k) % n) = k
  <2>1. CASE p + k < n
    <3>1. p + k \in 0 .. n - 1 /\ p + k > p /\ (p + k) - p = k
      BY <1>2, <2>1
    <3>2. (p + k) % n = p + k
      BY <3>1, Modulo
    <3> QED  BY <1>3, <3>1, <3>2
  <2>2. CASE ~(p + k < n)
    <3> DEFINE x == p + k - n
    <3>1. x \in 0 .. n - 1 /\ ~(x > p) /\ x - p + n = k /\ x + n = p + k
      BY <1>2, <2>2
    <3>2. (x + n) % n = x
      BY <3>1, Modulo
    <3> QED  BY <1>3, <3>1, <3>2
  <2> QED  BY <2>1, <2>2
<1> QED
  BY <1>1, <1>2, <1>4, <1>5

(* The turn passes to the first one still in.                              *)
LEMMA AdvanceTurnPasses ==
  ASSUME Inv, Inv', HandleAdvanceTurn
  PROVE  Table!Pass
<1> DEFINE p == game.cur
           q == NextActive(p)
<1>1. /\ Pipe # <<>> /\ Event.type = "AdvanceTurn" /\ Handling("AdvanceTurn")
      /\ game' = [game EXCEPT !.cur = q] /\ PutFront(<<Turn(q)>>)
      /\ UNCHANGED <<setup, gameOver, winner>>
  BY DEF HandleAdvanceTurn, Handling, Leaf, SameOutcome
<1>2. Closes(Pipe) /\ ~gameOver /\ Stage = "judged"
  BY <1>1, ClosingIsOn
<1>3. Tail(Pipe) = <<>> /\ Len(Pipe) = 1 /\ p \in Players
  BY <1>1, OnlyHead DEF Ahead
<1>4. Active # {}
  BY <1>2, <1>3 DEF Closes, Inv, TurnGoesOn
<1>5. PICK k \in 1 .. setup.players :
        /\ q = (p + k) % setup.players /\ q \in Active
        /\ \A j \in 1 .. setup.players : (p + j) % setup.players \in Active => k <= j
  BY <1>3, <1>4, NextIsFirst
<1> HIDE DEF q
<1>6. \A r \in Active : Table!Round(p, q) <= Table!Round(p, r)
  <2> TAKE r \in Active
  <2>1. r \in Players
    BY DEF Active
  <2>2. Table!Round(p, r) \in 1 .. setup.players
        /\ (p + Table!Round(p, r)) % setup.players = r /\ Table!Round(p, q) = k
    BY <1>3, <1>5, <2>1, RoundIs
  <2> QED  BY <1>5, <2>2
<1>7. game'.cur = q /\ game'.bankrupt = game.bankrupt
  BY <1>1 DEF Inv, Types, Games
<1>8. Stage' = "play"
  <2> DEFINE f == Turn(q)
  <2>1. f.type # "AdvanceTurn"
    BY DEF Turn
  <2> HIDE DEF f
  <2>2. <<f>> \o <<>> = <<f>>
    OBVIOUS
  <2>3. SetPipe(<<f>>)
    BY <1>1, <1>3, <2>2 DEF PutFront, f
  <2>4. Pipe' = <<f>> /\ ~Closes(<<f>>)
    BY <2>1, <2>3, TwoPlay, PipeBecomes
  <2> QED  BY <2>4, StageIsReadNext DEF StageRead
<1> QED
  BY <1>1, <1>2, <1>5, <1>6, <1>7, <1>8, SameSeats, InIsActive
     DEF Table!Pass, Table!SameRules, Table!SameOutcome

(* While a game that is over is played on, in a bonus roll, its winner is  *)
(* the player of that turn.                                                *)
Decided ==
  /\ ~gameOver => winner = None
  /\ gameOver /\ Stage = "play" => winner = game.cur

LEMMA VictoryWins ==
  ASSUME Inv, Inv', Decided, HandleVictory
  PROVE  [Table!Win]_(Table!vars) /\ Decided'
<1>1. /\ Pipe # <<>> /\ Event.type = "Victory" /\ Consume
      /\ gameOver' = TRUE /\ winner' = Event.player /\ UNCHANGED <<setup, game>>
  BY DEF HandleVictory, Handling
<1>2. Stage = "play" /\ Stage' = "play"
  <2>1. Event.type \in Started
    BY <1>1 DEF Started, Ahead, StopEffects
  <2> QED  BY <1>1, <2>1, FrontsNone, FrontsPlay
<1>3. game.cur \in Players /\ Event.player = game.cur
  BY <1>1, HeadPlace
<1>4. game.cur \in Active
  <2>1. End(Pipe).type = "EndTurn"
    <3>1. Event.type \notin DOMAIN Ahead /\ Event.type \in StopEffects \ PassEffects
      BY <1>1 DEF Ahead, StopEffects, PassEffects
    <3> QED  BY <1>1, <3>1, EndPlace
  <2> QED  BY <1>1, <1>3, <2>1 DEF Inv, TurnGoesOn, Active
<1>5. CASE gameOver
  <2>1. gameOver' = gameOver /\ winner' = winner
    BY <1>1, <1>2, <1>3, <1>5 DEF Decided, Inv, Types
  <2>2. SameTable
    BY <1>1, <2>1 DEF SameTable
  <2> QED  BY <1>1, <1>2, <1>3, <2>2, StillTable DEF Decided
<1>6. CASE ~gameOver
  <2>1. Table!Win
    BY <1>1, <1>2, <1>3, <1>4, <1>6, SameSeats, InIsActive DEF Table!Win, Table!SameRules
  <2> QED  BY <1>1, <1>2, <1>3, <2>1 DEF Decided
<1> QED
  BY <1>5, <1>6

LEMMA TableSteps ==
  ASSUME Inv, Inv', Decided, [Next]_vars
  PROVE  [Table!Next]_(Table!vars) /\ Decided'
<1>1. ASSUME UNCHANGED Table!vars PROVE Decided'
  BY <1>1 DEF Decided, Table!vars
<1>2. ASSUME SameTable, Stage = "play", Stage' = "play"
      PROVE  [Table!Next]_(Table!vars) /\ Decided'
  BY <1>1, <1>2, StillTable
<1>3. ASSUME Pipe # <<>> /\ Event.type \in Started /\ Fronts /\ SameTable
      PROVE  [Table!Next]_(Table!vars) /\ Decided'
  BY <1>2, <1>3, FrontsPlay
<1>4. CASE UNCHANGED vars
  <2>1. SameTable /\ Stage' = Stage
    BY <1>4 DEF vars, SameTable, Stage, Pending
  <2> QED  BY <1>1, <2>1, StillTable
<1>5. CASE PreRoll
  BY <1>2, <1>3, <1>5, CarryingPlays, EffectsAreQuiet DEF PreRoll
<1>6. CASE Walk
  BY <1>2, <1>3, <1>6, CarryingPlays, EffectsAreQuiet, LandingIsQuiet DEF Walk
<1>7. CASE Effect /\ ~HandleVictory
  <2>1. CASE HandleVentureCard
    BY <1>2, <1>3, <2>1, LandingIsQuiet, BonusPlays
  <2>2. CASE HandleRollAgain \/ LeaveExtraRoll
    BY <1>2, <2>2, BonusPlays
  <2>3. CASE HandleWarp \/ HandleInitCannon
    BY <1>3, <2>3, LandingIsQuiet
  <2>4. CASE ~HandleVentureCard /\ ~(HandleRollAgain \/ LeaveExtraRoll)
             /\ ~(HandleWarp \/ HandleInitCannon)
    BY <1>3, <1>7, <2>4, EffectsAreQuiet DEF Effect
  <2> QED  BY <2>1, <2>2, <2>3, <2>4
<1>8. CASE HandleVictory
  BY <1>8, VictoryWins DEF Table!Next
<1>9. CASE HandleEndTurn
  <2>1. Table!Close
    BY <1>9, EndTurnCloses
  <2>2. Decided'
    BY <2>1 DEF Table!Close, Table!SameOutcome, Decided
  <2> QED  BY <2>1, <2>2 DEF Table!Next
<1>10. CASE HandleGameOverCheck
  <2>1. Table!Judge
    BY <1>10, GameOverCheckJudges DEF Decided
  <2>2. Decided'
    BY <2>1 DEF Table!Judge, Decided
  <2> QED  BY <2>1, <2>2 DEF Table!Next
<1>11. CASE HandleAdvanceTurn
  <2>1. Table!Pass
    BY <1>11, AdvanceTurnPasses
  <2>2. Decided'
    BY <2>1 DEF Table!Pass, Table!SameOutcome, Decided
  <2> QED  BY <2>1, <2>2 DEF Table!Next
<1>12. CASE EndOfTurn /\ ~HandleEndTurn /\ ~HandleGameOverCheck /\ ~HandleAdvanceTurn
  <2>1. [Table!Ruin]_(Table!vars)
    BY <1>12, ClosingSteps DEF EndOfTurn
  <2>2. Table!Ruin => Decided'
    BY DEF Table!Ruin, Table!SameOutcome, Decided
  <2> QED  BY <1>1, <2>1, <2>2 DEF Table!Next
<1> QED
  BY <1>4, <1>5, <1>6, <1>7, <1>8, <1>9, <1>10, <1>11, <1>12 DEF Next, EndOfTurn

LEMMA TableInit ==
  ASSUME Init
  PROVE  Table!Init /\ Decided
<1>1. Inv
  BY InitInv
<1>2. /\ game.cur = 0 /\ game.bankrupt = [p \in Players |-> FALSE]
      /\ pipes = << <<Turn(0)>> >> /\ gameOver = FALSE /\ winner = None
  BY DEF Init
<1>3. Active = Players
  BY <1>2 DEF Active
<1>4. Stage = "play"
  <2> DEFINE f == Turn(0)
  <2>1. f.type # "AdvanceTurn"
    BY DEF Turn
  <2> HIDE DEF f
  <2>2. Pipe = <<f>>
    BY <1>2 DEF Pipe, f
  <2>3. ~Closes(Pipe)
    BY <2>1, <2>2, TwoPlay
  <2> QED  BY <1>1, <2>3, StageIsRead DEF StageRead
<1>5. game.cur \in Players /\ setup.players \in Nat \ {0} /\ setup.maxBankruptcies \in Int
  BY <1>1, Board
<1> QED
  BY <1>2, <1>3, <1>4, <1>5, InIsActive DEF Table!Init, Decided

(* The turns of the game are those of module Rounds, for any number of     *)
(* players on any board: each turn is closed once, its player ruined only  *)
(* while it closes and the outcome judged before it passes, and it passes  *)
(* to the first player still in on the way round the table.                *)
THEOREM RoundsKept == Spec => KeepsRounds
<1>1. Init => Table!Init /\ Decided
  BY TableInit
<1>2. Inv /\ Inv' /\ Decided /\ [Next]_vars => [Table!Next]_(Table!vars) /\ Decided'
  BY TableSteps
<1> QED
  BY <1>1, <1>2, Invariance, PTL DEF Spec, KeepsRounds, Table!Spec
=============================================================================
