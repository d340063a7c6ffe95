-------------------------------- MODULE Deals --------------------------------
(***************************************************************************)
(* Property: what players buy, build, rent, invest in, force out of one    *)
(* another's hands, auction, negotiate and trade.                          *)
(*                                                                         *)
(* Ownership is kept twice in the game state: the square names its owner,  *)
(* and the player's list owned_properties names the square.  The list is   *)
(* modelled by how often each square occurs in it, since append and remove *)
(* are the only operations used.  The mutation events assert what their    *)
(* handlers checked; a failed assertion ends the game thread.              *)
(*                                                                         *)
(* A deal starts when the pipeline holds no event of another deal.  Its    *)
(* questions are steps, and the events it enqueues wait in `pending`.  A   *)
(* turn ends with forced liquidation, the auctions of what was sold, and   *)
(* the bankruptcy check.                                                   *)
(*                                                                         *)
(* A definition whose name is that of the next one, an underscore and a    *)
(* remark is a faulty variant, which no action uses: put in the place of   *)
(* the definition, it makes a property fail.                               *)
(***************************************************************************)
EXTENDS Integers, Sequences, FiniteSets, FiniteSetsExt

CONSTANTS
  NumPlayers,
  Squares,       \* the squares that are property
  None,
  Plots,         \* those that start as vacant plots
  Base,          \* [Squares -> base value]
  CapOf,         \* [Squares -> [0 .. Cardinality(Squares) -> the value a property
                 \*   may reach, by the shops its owner has in the one district]]
  StockWorth,    \* [0 .. NumPlayers - 1 -> what the player's stock would fetch]
  StartCash,
  Amounts,       \* prices, bids, gold and investments that may be named
  Rents,         \* rents a shop may have, before any status
  Percents,      \* what discounts and price hikes together add to a rent, in percent
  Bonuses,       \* dividends and commissions the bank may pay: [Players -> Nat]
  Owners,        \* the possible ownerships at the start (a loaded game)
  MaxBankruptcies,
  CleanTrades,   \* TRUE: a trade proposal names no square twice
  MaxList,       \* bound: squares each side of a trade may name
  MaxDeals       \* bound: deals begun

Players == 0 .. NumPlayers - 1

ASSUME NoneAssumption ==
  None \notin Players /\ None \notin Squares /\ None \notin Seq(Squares)
ASSUME PlayersAssumption == NumPlayers \in Nat \ {0}
ASSUME SquaresAssumption ==
  /\ IsFiniteSet(Squares) /\ Plots \subseteq Squares
  /\ Base \in [Squares -> Nat]
  /\ CapOf \in [Squares -> [0 .. Cardinality(Squares) -> Nat]]
  /\ StockWorth \in [Players -> Nat] /\ StartCash \in Int
  /\ Amounts \subseteq Int /\ Rents \subseteq Nat
  /\ Percents \subseteq {n \in Int : n >= -100}
  /\ Bonuses \subseteq [Players -> Nat]
  /\ Owners \subseteq [Squares -> Players \cup {None}]
ASSUME BoundsAssumption ==
  CleanTrades \in BOOLEAN /\ {MaxBankruptcies, MaxList, MaxDeals} \subseteq Nat

VARIABLES
  owner,      \* square.property_owner
  held,       \* [Players -> [Squares -> occurrences in owned_properties]]
  value,      \* square.shop_current_value
  cash,       \* player.ready_cash
  stock,      \* what the player's stock would fetch
  bankrupt,   \* player.bankrupt
  turn,       \* the current player
  rolled,     \* he has rolled the dice
  built,      \* plots whose type is no longer VACANT_PLOT
  pending,    \* the events this deal has put in front of the pipeline
  closing,    \* at the end of a turn, the squares sold to the bank; else None
  auction,    \* a running auction, or None
  offer,      \* a negotiation or trade on the table, or None
  agreed,     \* history: the terms each player last named or accepted
  surcharge,  \* history: what a price hike has put on the rent of this deal
  crashed,    \* an assertion failed: the game thread is dead
  deals       \* deals begun (bounded by MaxDeals)

vars == <<owner, held, value, cash, stock, bankrupt, turn, built, pending, closing,
          auction, offer, agreed, crashed, rolled, deals, surcharge>>

Active == {p \in Players : ~bankrupt[p]}
Over == Cardinality(Players \ Active) >= MaxBankruptcies
Idle == pending = <<>> /\ auction = None /\ offer = None /\ ~crashed /\ ~Over
Holds(p, s) == held[p][s] > 0

(* max_capital, by the shops the owner has in the district. *)
Room(s) ==
  CapOf[s][Cardinality({t \in Squares \ Plots : owner[t] = owner[s]})] - value[s]

NetWorth(p) ==
  cash[p] + stock[p] + MapThenSumSet(LAMBDA s : held[p][s] * value[s], Squares)

(* can_cover_with_cash_and_stock *)
CanCover(p, amount) == cash[p] + stock[p] >= amount

(* An event: property s and an amount of gold, from whom and to whom. *)
Event(type, from, to, s, amount) ==
  [type |-> type, from |-> from, to |-> to, square |-> s, amount |-> amount]

Enqueue(es) == pending' = es
SameTurn == UNCHANGED <<bankrupt, turn, closing>>
SamePlay == UNCHANGED <<owner, held, value, cash, stock, built, crashed>> /\ SameTurn
NoTalk == UNCHANGED <<auction, offer, agreed>>

(* Deals are made from the pre-roll menu, landings follow the roll. *)
Begin == /\ Idle /\ closing = None
         /\ deals < MaxDeals /\ deals' = deals + 1 /\ surcharge' = 0
Landing == Begin /\ rolled' = TRUE
Dealing == Begin /\ ~rolled /\ UNCHANGED rolled

-----------------------------------------------------------------------------
(* Landing on a property. *)

(* An unowned shop the player can cover, bought if he accepts. *)
LandUnownedShop(p, s) ==
  /\ Landing /\ s \notin Plots /\ owner[s] = None /\ CanCover(p, Base[s])
  /\ Enqueue(<<Event("BuyShop", None, p, s, Base[s])>>)
  /\ SamePlay /\ NoTalk

(* A vacant plot asks for the cash itself. *)
LandVacantPlot(p, s) ==
  /\ Landing /\ s \in Plots \ built /\ owner[s] = None /\ cash[p] >= Base[s]
  /\ Enqueue(<<Event("BuyVacantPlot", None, p, s, Base[s])>>)
  /\ SamePlay /\ NoTalk

(* One's own shop: any of one's shops may be invested in.                  *)
LandOwnShop(p, s) ==
  /\ Landing /\ owner[s] = p
  /\ \E t \in Squares, amount \in Amounts :
       /\ Holds(p, t) /\ amount > 0 /\ amount <= Room(t)
       /\ CanCover(p, amount)
       /\ Enqueue(<<Event("InvestInShop", p, None, t, amount)>>)
  /\ SamePlay /\ NoTalk

(* One's own built plot: it may be renovated. *)
LandOwnPlot(p, s) ==
  /\ Landing /\ owner[s] = p /\ s \in built
  /\ Enqueue(<<Event("RenovateProperty", p, None, s, Base[s])>>)
  /\ SamePlay /\ NoTalk

LandOthersShop_BeforeRent(p, s) ==
  /\ Landing /\ s \notin Plots /\ owner[s] \in Players \ {p}
  /\ \E rent \in Rents :
       Enqueue(<<Event("PayRent", p, owner[s], s, rent)>>
               \o IF cash[p] >= 5 * value[s]
                  THEN <<Event("InitForcedBuyout", None, p, s, 5 * value[s])>>
                  ELSE <<>>)
  /\ SamePlay /\ NoTalk

(* Another's shop: rent, and then the forced buyout if the cash left after *)
(* the rent covers five times the value.  It is the rent of the shop       *)
(* without its statuses, which only the payment looks at.                  *)
LandOthersShop(p, s) ==
  /\ Landing /\ s \notin Plots /\ owner[s] \in Players \ {p}
  /\ \E rent \in Rents :
       Enqueue(<<Event("PayRent", p, owner[s], s, rent)>>
               \o IF cash[p] - rent >= 5 * value[s]
                  THEN <<Event("InitForcedBuyout", None, p, s, 5 * value[s])>>
                  ELSE <<>>)
  /\ SamePlay /\ NoTalk

-----------------------------------------------------------------------------
(* The auction of the pre-roll menu: the other active players bid in turn. *)

Auction_SellerBids(p, s) == [seller |-> p, square |-> s, left |-> Active,
                             bidder |-> None, bid |-> 0]

Auction(p, s) == [seller |-> p, square |-> s, left |-> Active \ {p},
                  bidder |-> None, bid |-> 0]

StartAuction(p, s) ==
  /\ Dealing /\ Holds(p, s)
  /\ auction' = Auction(p, s)
  /\ SamePlay /\ UNCHANGED <<pending, offer, agreed>>

(* The next bidder declines, bids too little or beyond his means, or leads. *)
Bid ==
  /\ auction # None
  /\ \E p \in auction.left :
       /\ \A q \in auction.left : p <= q
       /\ \/ auction' = [auction EXCEPT !.left = @ \ {p}]
          \/ \E bid \in Amounts :
               /\ bid > auction.bid /\ bid <= cash[p]
               /\ auction' = [auction EXCEPT !.left = @ \ {p}, !.bidder = p, !.bid = bid]
  /\ SamePlay /\ UNCHANGED <<pending, offer, agreed, rolled, deals, surcharge>>

EndAuction ==
  /\ auction # None /\ auction.left = {} /\ closing = None
  /\ Enqueue(<<Event("AuctionSell", auction.seller, auction.bidder,
                     auction.square, auction.bid)>>)
  /\ auction' = None
  /\ SamePlay /\ UNCHANGED <<offer, agreed, rolled, deals, surcharge>>

-----------------------------------------------------------------------------
(* Negotiations.  Terms say what the proposer gives (squares), what he     *)
(* gets, and the gold he adds, which is negative when he asks for gold.    *)

Terms(give, get, gold) == [give |-> give, get |-> get, gold |-> gold]
NoTerms == Terms(<<>>, <<>>, 0)
Propose(kind, p, q, terms) ==
  /\ offer' = [kind |-> kind, proposer |-> p, target |-> q, terms |-> terms,
               countered |-> FALSE]
  /\ agreed' = [r \in Players |-> IF r = p THEN terms ELSE NoTerms]

(* Player p offers price for square s of player q. *)
OfferToBuy(p, q, s, price) ==
  /\ Dealing /\ q # p /\ owner[s] = q /\ price > 0
  /\ Propose("shop", p, q, Terms(<<>>, <<s>>, price))
  /\ SamePlay /\ UNCHANGED <<pending, auction>>

(* Player p offers square s to player q; q is any other player. *)
OfferToSell(p, q, s, price) ==
  /\ Dealing /\ q # p /\ owner[s] = p /\ price > 0
  /\ Propose("shop", p, q, Terms(<<s>>, <<>>, -price))
  /\ SamePlay /\ UNCHANGED <<pending, auction>>

Distinct(list) == \A i, j \in DOMAIN list : list[i] = list[j] => i = j
Lists == UNION {[1 .. n -> Squares] : n \in 0 .. MaxList}

ProposeTrade_AnySquares(p, q, give, get, gold) ==
  /\ Dealing /\ q # p
  /\ \A i \in DOMAIN give : Holds(p, give[i])
  /\ CleanTrades => Distinct(give) /\ Distinct(get)
  /\ Propose("trade", p, q, Terms(give, get, gold))
  /\ SamePlay /\ UNCHANGED <<pending, auction>>

ProposeTrade(p, q, give, get, gold) ==
  /\ Dealing /\ q # p
  /\ \A i \in DOMAIN give : Holds(p, give[i])
  /\ \A i \in DOMAIN get : Holds(q, get[i])
  /\ CleanTrades => Distinct(give) /\ Distinct(get)
  /\ Propose("trade", p, q, Terms(give, get, gold))
  /\ SamePlay /\ UNCHANGED <<pending, auction>>

(* The events of an accepted offer.  A buy or sell is one transfer at a    *)
(* price; a trade is a free transfer of each square, then the gold.        *)
Transfers(from, to, list) ==
  [i \in DOMAIN list |-> Event("TransferProperty", from, to, list[i], 0)]

Gold_OneWay(from, to, amount) ==
  IF amount = 0 THEN <<>>
  ELSE <<Event("TransferCash", from, to, None, IF amount > 0 THEN amount ELSE -amount)>>

Gold(from, to, amount) ==
  IF amount > 0 THEN <<Event("TransferCash", from, to, None, amount)>>
  ELSE IF amount < 0 THEN <<Event("TransferCash", to, from, None, -amount)>>
  ELSE <<>>

Settlement(o) ==
  LET p == o.proposer  q == o.target  t == o.terms IN
  IF o.kind = "trade"
  THEN Transfers(p, q, t.give) \o Transfers(q, p, t.get) \o Gold(p, q, t.gold)
  ELSE IF t.give = <<>>
  THEN <<Event("TransferProperty", q, p, t.get[1], t.gold)>>
  ELSE <<Event("TransferProperty", p, q, t.give[1], -t.gold)>>

(* Who is asked: the target, and after a counter-offer the proposer. *)
Asked == IF offer.countered THEN offer.proposer ELSE offer.target

Accept ==
  /\ offer # None
  /\ Enqueue(Settlement(offer))
  /\ agreed' = [agreed EXCEPT ![Asked] = offer.terms]
  /\ offer' = None
  /\ SamePlay /\ UNCHANGED <<auction, rolled, deals, surcharge>>

(* The target may only change the gold; the price named is not checked. *)
Counter ==
  /\ offer # None /\ ~offer.countered
  /\ \E gold \in Amounts \cup {-a : a \in Amounts} :
       LET terms == [offer.terms EXCEPT !.gold = gold] IN
       /\ offer' = [offer EXCEPT !.terms = terms, !.countered = TRUE]
       /\ agreed' = [agreed EXCEPT ![offer.target] = terms]
  /\ SamePlay /\ UNCHANGED <<pending, auction, rolled, deals, surcharge>>

Reject ==
  /\ offer # None /\ offer' = None
  /\ SamePlay /\ UNCHANGED <<pending, auction, agreed, rolled, deals, surcharge>>

-----------------------------------------------------------------------------
(* The mutation events, taken off the front of the pipeline. *)

Next1 == Head(pending)
Handling(type) == pending # <<>> /\ ~crashed /\ Next1.type = type
Handled == /\ pending' = Tail(pending)
           /\ SameTurn
           /\ UNCHANGED <<stock, auction, offer, agreed, crashed, rolled, deals>>
Done == Handled /\ UNCHANGED surcharge

(* A failed assertion leaves the state as it is and stops everything. *)
Crash ==
  /\ crashed' = TRUE
  /\ SameTurn /\ UNCHANGED <<owner, held, value, cash, stock, built, pending, auction,
                             offer, agreed, rolled, deals, surcharge>>

(* Square s leaves player p's list and joins player q's. *)
Moved_NotRemoved(p, q, s) ==
  [r \in Players |-> [held[r] EXCEPT ![s] = @ + (IF r = q THEN 1 ELSE 0)]]

Moved(p, q, s) ==
  [r \in Players |->
     [held[r] EXCEPT ![s] = @ - (IF r = p THEN 1 ELSE 0) + (IF r = q THEN 1 ELSE 0)]]
Paid(p, q, amount) ==
  [r \in Players |->
     cash[r] - (IF r = p THEN amount ELSE 0) + (IF r = q THEN amount ELSE 0)]

(* BuyShopEvent and BuyVacantPlotEvent *)
Buy ==
  /\ Handling("BuyShop") \/ Handling("BuyVacantPlot")
  /\ LET s == Next1.square IN
     IF owner[s] # None THEN Crash
     ELSE /\ owner' = [owner EXCEPT ![s] = Next1.to]
          /\ held' = Moved(None, Next1.to, s)
          /\ cash' = Paid(Next1.to, None, Base[s])
          /\ built' = IF s \in Plots THEN built \cup {s} ELSE built
          /\ Done /\ UNCHANGED value

(* A closed shop charges nothing; discounts and price hikes change the     *)
(* rent by percentages that add up, and the result is rounded down.        *)
Charged(rent, closed, percent) ==
  IF closed THEN 0 ELSE (rent * (100 + percent)) \div 100

(* A rent that is charged may earn others bonuses. *)
PayRent ==
  /\ Handling("PayRent")
  /\ \E closed \in BOOLEAN, percent \in Percents, bonus \in Bonuses :
       LET charge == Charged(Next1.amount, closed, percent)
           paid == Paid(Next1.from, Next1.to, charge) IN
       /\ cash' = [p \in Players |-> paid[p] + IF charge > 0 THEN bonus[p] ELSE 0]
       /\ surcharge' = IF charge > Next1.amount THEN charge - Next1.amount ELSE 0
  /\ Handled /\ UNCHANGED <<owner, held, value, built>>

InvestInShop ==
  /\ Handling("InvestInShop")
  /\ LET s == Next1.square  p == Next1.from
         least == IF Next1.amount < Room(s) THEN Next1.amount ELSE Room(s)
         spent == IF least < cash[p] + stock[p] THEN least ELSE cash[p] + stock[p] IN
     IF owner[s] # p THEN Crash
     ELSE /\ cash' = Paid(p, None, IF spent > 0 THEN spent ELSE 0)
          /\ value' = [value EXCEPT ![s] = @ + (IF spent > 0 THEN spent ELSE 0)]
          /\ Done /\ UNCHANGED <<owner, held, built>>

(* 75% of the value back, the base value to be paid, which it is then worth. *)
RenovateProperty ==
  /\ Handling("RenovateProperty")
  /\ LET s == Next1.square  p == Next1.from IN
     IF owner[s] # p THEN Crash
     ELSE /\ cash' = Paid(None, p, (3 * value[s]) \div 4 - Base[s])
          /\ value' = [value EXCEPT ![s] = Base[s]]
          /\ Done /\ UNCHANGED <<owner, held, built>>

(* The player is asked, and the cash is not looked at again. *)
InitForcedBuyout ==
  /\ Handling("InitForcedBuyout")
  /\ \/ pending' = Tail(pending)
     \/ pending' = <<Event("ForcedBuyout", None, Next1.to, Next1.square, 0)>>
                   \o Tail(pending)
  /\ SamePlay /\ UNCHANGED <<auction, offer, agreed, rolled, deals, surcharge>>

(* Five times the value is paid; the owner gets three of them. *)
ForcedBuyout ==
  /\ Handling("ForcedBuyout")
  /\ LET s == Next1.square  p == Next1.to  q == owner[s] IN
     IF q = None \/ q = p \/ ~Holds(q, s) THEN Crash
     ELSE /\ cash' = [cash EXCEPT ![p] = @ - 5 * value[s], ![q] = @ + 3 * value[s]]
          /\ owner' = [owner EXCEPT ![s] = p]
          /\ held' = Moved(q, p, s)
          /\ Done /\ UNCHANGED <<value, built>>

TransferProperty ==
  /\ Handling("TransferProperty")
  /\ LET s == Next1.square  p == Next1.from  q == Next1.to IN
     IF owner[s] # p \/ ~Holds(p, s) THEN Crash
     ELSE /\ cash' = Paid(q, p, Next1.amount)
          /\ owner' = [owner EXCEPT ![s] = q]
          /\ held' = Moved(p, q, s)
          /\ Done /\ UNCHANGED <<value, built>>

TransferCash ==
  /\ Handling("TransferCash")
  /\ cash' = Paid(Next1.from, Next1.to, Next1.amount)
  /\ Done /\ UNCHANGED <<owner, held, value, built>>

(* With no bid the seller gets the base value and the square is unowned. *)
AuctionSell ==
  /\ Handling("AuctionSell")
  /\ LET s == Next1.square  p == Next1.from  q == Next1.to IN
     IF owner[s] # p \/ ~Holds(p, s) THEN Crash
     ELSE /\ cash' = IF q = None THEN Paid(None, p, Base[s])
                     ELSE Paid(q, p, Next1.amount)
          /\ owner' = [owner EXCEPT ![s] = q]
          /\ held' = Moved(p, q, s)
          /\ Done /\ UNCHANGED <<value, built>>

-----------------------------------------------------------------------------
(* The end of a turn. *)

EndTurn ==
  /\ Idle /\ closing = None /\ closing' = <<>>
  /\ UNCHANGED <<owner, held, value, cash, stock, bankrupt, turn, built, pending,
                 crashed, rolled, deals, surcharge>> /\ NoTalk

Selling_StockOnly ==
  closing # None /\ auction = None /\ ~crashed /\ cash[turn] < 0 /\ stock[turn] # 0

(* Liquidation goes on while the cash is negative and something is left. *)
Selling ==
  /\ closing # None /\ auction = None /\ ~crashed /\ cash[turn] < 0
  /\ stock[turn] # 0 \/ \E s \in Squares : Holds(turn, s)
SameDeal ==
  UNCHANGED <<value, bankrupt, turn, built, pending, rolled, deals, surcharge>> /\ NoTalk

(* 75% of the value, and the square waits for its auction. *)
SellShopToBank ==
  /\ Selling
  /\ \E s \in Squares :
       /\ Holds(turn, s)
       /\ IF owner[s] # turn THEN Crash
          ELSE /\ cash' = Paid(None, turn, (3 * value[s]) \div 4)
               /\ owner' = [owner EXCEPT ![s] = None]
               /\ held' = Moved(turn, None, s)
               /\ closing' = Append(closing, s)
               /\ UNCHANGED <<stock, crashed>> /\ SameDeal

SellStock ==
  /\ Selling
  /\ \E worth \in 1 .. stock[turn] :
       /\ cash' = Paid(None, turn, worth)
       /\ stock' = [stock EXCEPT ![turn] = @ - worth]
  /\ UNCHANGED <<owner, held, closing, crashed>> /\ SameDeal

(* Then each square sold is auctioned, in the order of the sales. *)
AuctionSold ==
  /\ closing \notin {None, <<>>} /\ auction = None /\ ~Selling /\ ~crashed
  /\ auction' = Auction(turn, Head(closing)) /\ closing' = Tail(closing)
  /\ UNCHANGED <<owner, held, value, cash, stock, bankrupt, turn, built, pending,
                 offer, agreed, crashed, rolled, deals, surcharge>>

(* The winner pays the bank; with no bid the square stays unowned. *)
LiquidationAuctionSell ==
  /\ closing # None /\ auction # None /\ auction.left = {}
  /\ LET s == auction.square  q == auction.bidder IN
     IF owner[s] # None THEN Crash
     ELSE /\ cash' = Paid(q, None, auction.bid)
          /\ owner' = [owner EXCEPT ![s] = q]
          /\ held' = Moved(None, q, s)
          /\ auction' = None
          /\ UNCHANGED <<value, stock, bankrupt, turn, built, pending, closing, offer,
                         agreed, crashed, rolled, deals, surcharge>>

(* advance_turn: the next player in the order who is not out. *)
AdvanceTurn(out) ==
  LET Seat(k) == (turn + k) % NumPlayers IN
  \/ \E k \in 1 .. NumPlayers :
       /\ turn' = Seat(k) /\ Seat(k) \notin out
       /\ \A j \in 1 .. k - 1 : Seat(j) \in out
  \/ Players \subseteq out /\ UNCHANGED turn

(* BankruptcyCheckEvent, BankruptcyEvent and AdvanceTurnEvent: a player    *)
(* whose net worth is negative sells his stock, and what he owns becomes   *)
(* unowned.                                                                *)
CloseTurn ==
  /\ closing = <<>> /\ auction = None /\ ~Selling /\ ~crashed
  /\ closing' = None
  /\ IF NetWorth(turn) < 0
     THEN /\ bankrupt' = [bankrupt EXCEPT ![turn] = TRUE]
          /\ cash' = [cash EXCEPT ![turn] = @ + stock[turn]]
          /\ stock' = [stock EXCEPT ![turn] = 0]
          /\ owner' = [s \in Squares |-> IF Holds(turn, s) THEN None ELSE owner[s]]
          /\ held' = [held EXCEPT ![turn] = [s \in Squares |-> 0]]
     ELSE UNCHANGED <<bankrupt, cash, stock, owner, held>>
  /\ AdvanceTurn({p \in Players : bankrupt'[p]}) /\ rolled' = FALSE
  /\ UNCHANGED <<value, built, pending, crashed, deals, surcharge>> /\ NoTalk

-----------------------------------------------------------------------------
Init ==
  /\ owner \in Owners
  /\ held = [p \in Players |-> [s \in Squares |-> IF owner[s] = p THEN 1 ELSE 0]]
  /\ value = Base
  /\ cash = [p \in Players |-> StartCash]
  /\ stock = StockWorth
  /\ bankrupt = [p \in Players |-> FALSE] /\ turn = 0 /\ rolled = FALSE
  /\ closing = None
  /\ built = {s \in Plots : owner[s] # None}
  /\ pending = <<>> /\ auction = None /\ offer = None
  /\ agreed = [p \in Players |-> NoTerms]
  /\ crashed = FALSE /\ deals = 0 /\ surcharge = 0

Land(p, s) == LandUnownedShop(p, s) \/ LandVacantPlot(p, s) \/ LandOwnShop(p, s)
              \/ LandOwnPlot(p, s) \/ LandOthersShop(p, s)

Negotiate(p, q) ==
  /\ Dealing
  /\ \/ \E s \in Squares, price \in Amounts :
          OfferToBuy(p, q, s, price) \/ OfferToSell(p, q, s, price)
     \/ \E give, get \in Lists, gold \in Amounts \cup {-a : a \in Amounts} :
          ProposeTrade(p, q, give, get, gold)

Start ==
  \/ \E s \in Squares : Land(turn, s) \/ StartAuction(turn, s)
  \/ \E q \in Players : Negotiate(turn, q)

Talk == Bid \/ EndAuction \/ Accept \/ Counter \/ Reject

Finish == EndTurn \/ SellShopToBank \/ SellStock \/ AuctionSold
          \/ LiquidationAuctionSell \/ CloseTurn

Mutate == Buy \/ PayRent \/ InvestInShop \/ RenovateProperty \/ InitForcedBuyout
          \/ ForcedBuyout \/ TransferProperty \/ TransferCash \/ AuctionSell

Next == Start \/ Talk \/ Mutate \/ Finish

Spec == Init /\ [][Next]_vars
-----------------------------------------------------------------------------
(***************************************************************************)
(* Properties.                                                             *)
(***************************************************************************)

Event_ ==
  [type : {"BuyShop", "BuyVacantPlot", "InvestInShop", "RenovateProperty",
           "PayRent", "InitForcedBuyout", "ForcedBuyout", "TransferProperty",
           "TransferCash", "AuctionSell"},
   from : Players \cup {None}, to : Players \cup {None},
   square : Squares \cup {None}, amount : Int]

(* The one type invariant. *)
TypeOK ==
  /\ owner \in [Squares -> Players \cup {None}]
  /\ held \in [Players -> [Squares -> Int]]
  /\ value \in [Squares -> Int] /\ cash \in [Players -> Int]
  /\ stock \in [Players -> Nat]
  /\ bankrupt \in [Players -> BOOLEAN] /\ turn \in Players /\ built \subseteq Plots
  /\ closing \in {None} \cup Seq(Squares)
  /\ pending \in Seq(Event_)
  /\ crashed \in BOOLEAN /\ rolled \in BOOLEAN /\ deals \in Nat /\ surcharge \in Nat

(* The two records of ownership agree: a square is in the list of the      *)
(* player it names, once, and in no other; through every buyout, auction,  *)
(* negotiation, trade and bankruptcy.                                      *)
OneRecord ==
  \A p \in Players, s \in Squares : held[p][s] = IF owner[s] = p THEN 1 ELSE 0
Consistent == TypeOK /\ OneRecord

(* No mutation event meets a state its handler did not prepare for: an     *)
(* assertion or a list.remove that fails ends the game thread.             *)
NoAssertionFails == ~crashed

(* The gold that the settlement of an offer moves from p to q. *)
NetGold(p, q, es) ==
  MapThenSumSet(
    LAMBDA i :
      LET e == es[i]  paidByTo == e.type = "TransferProperty" IN
      IF e.from = p THEN (IF paidByTo THEN -e.amount ELSE e.amount)
      ELSE (IF paidByTo THEN e.amount ELSE -e.amount),
    DOMAIN es)

Passed(p, es) ==
  {es[i].square : i \in {j \in DOMAIN es :
     es[j].type = "TransferProperty" /\ es[j].from = p}}
Range_(list) == {list[i] : i \in DOMAIN list}

(* What is carried out is what both last named or accepted: the squares    *)
(* and the gold of the original offer, or of the counter-offer that the    *)
(* proposer accepted.                                                      *)
DealAsAgreed ==
  [][offer # None /\ offer' = None /\ pending' # <<>> =>
       LET p == offer.proposer  q == offer.target IN
       /\ agreed'[p] = agreed'[q]
       /\ NetGold(p, q, pending') = agreed'[p].gold
       /\ Passed(p, pending') = Range_(agreed'[p].give)
       /\ Passed(q, pending') = Range_(agreed'[p].get)]_vars

(* A forced buyout takes the buyer no further below zero than a price hike *)
(* raised the rent he paid just before, and without one not at all:        *)
(* although the price was compared with his cash before the rent was paid, *)
(* and is not looked at again when he accepts.                             *)
BuyoutAffordable ==
  [][pending # <<>> /\ Head(pending).type = "ForcedBuyout" /\ ~crashed' =>
       cash'[Head(pending).to] >= -surcharge]_vars

(* The winner of an auction is another active player who has the cash he   *)
(* bid at the moment he pays; with no bid there is no winner.              *)
AuctionSound ==
  pending # <<>> /\ Head(pending).type = "AuctionSell" =>
    LET e == Head(pending) IN
    /\ (e.to = None) <=> (e.amount = 0)
    /\ e.to # None => /\ e.to \in Active \ {e.from}
                      /\ e.amount <= cash[e.to]

(* Nobody's turn ends in debt: forced liquidation brings the player's cash *)
(* back to zero or more, or it has sold everything and he is out.          *)
SolventOrOut == [][closing # None /\ closing' = None =>
                     cash'[turn] >= 0 \/ bankrupt'[turn]]_vars

(* What players own, taken from their lists, follows the promise of module *)
(* Ownership: estates stay disjoint and change one square at a time.       *)
Promise == INSTANCE Ownership WITH
             estate <- [p \in Players |-> {s \in Squares : Holds(p, s)}]
KeepsPromise == Promise!Spec
=============================================================================
