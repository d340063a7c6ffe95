----------------------------- MODULE DealsProofs -----------------------------
(***************************************************************************)
(* Proofs about module Deals, for any number of players and squares.       *)
(*                                                                         *)
(* Safe is inductive by itself: the parties of every pending event, of a   *)
(* running auction and of an offer on the table are the players they       *)
(* should be, and the two records of ownership agree.  From it follows     *)
(* that module Ownership is implemented.                                   *)
(***************************************************************************)
EXTENDS Deals, FiniteSetTheorems, SequenceTheorems, WellFoundedInduction, TLAPS

(* The parties an event of each type needs. *)
WellFormed(e) ==
  /\ e.type \in {"BuyShop", "BuyVacantPlot", "InitForcedBuyout", "ForcedBuyout"} =>
       e.to \in Players /\ e.square \in Squares
  /\ e.type \in {"InvestInShop", "RenovateProperty"} =>
       e.from \in Players /\ e.square \in Squares
  /\ e.type = "TransferProperty" =>
       e.from \in Players /\ e.to \in Players \ {e.from} /\ e.square \in Squares
  /\ e.type = "AuctionSell" =>
       /\ e.from \in Players /\ e.to \in (Players \cup {None}) \ {e.from}
       /\ e.square \in Squares

GoodEvents == {e \in Event_ : WellFormed(e)}
Deliveries == {e \in GoodEvents : e.type \in {"TransferProperty", "TransferCash"}}

AuctionType ==
  [seller : Players, square : Squares, left : SUBSET Players,
   bidder : Players \cup {None}, bid : Int]

AuctionShape ==
  auction # None =>
    /\ auction \in AuctionType
    /\ auction.seller \notin auction.left \cup {auction.bidder}

TermsType == [give : Seq(Squares), get : Seq(Squares), gold : Int]
OfferType ==
  [kind : {"shop", "trade"}, proposer : Players, target : Players,
   terms : TermsType, countered : BOOLEAN]

OfferShape ==
  offer # None =>
    /\ offer \in OfferType
    /\ offer.proposer # offer.target
    /\ offer.kind = "shop" =>
         Len(offer.terms.give) + Len(offer.terms.get) = 1

Safe == TypeOK /\ pending \in Seq(GoodEvents) /\ AuctionShape /\ OfferShape /\ OneRecord

-----------------------------------------------------------------------------
(* Lemmas about the operators of the model. *)

(* The room of a property is a number: max_capital is defined for every    *)
(* count of shops.                                                         *)
LEMMA RoomIsNumber ==
  ASSUME TypeOK, NEW s \in Squares
  PROVE  Room(s) \in Int
<1> DEFINE Same == {t \in Squares \ Plots : owner[t] = owner[s]}
<1>1. IsFiniteSet(Same) /\ Cardinality(Same) <= Cardinality(Squares)
  BY FS_Subset, SquaresAssumption
<1>2. Cardinality(Same) \in Nat /\ Cardinality(Squares) \in Nat
  BY <1>1, FS_CardinalityType, SquaresAssumption
<1>3. Cardinality(Same) \in 0 .. Cardinality(Squares)
  BY <1>1, <1>2
<1>4. CapOf[s][Cardinality(Same)] \in Nat
  <2>1. CapOf[s] \in [0 .. Cardinality(Squares) -> Nat]
    BY SquaresAssumption
  <2> QED BY <1>3, <2>1
<1>5. value[s] \in Int
  BY DEF TypeOK
<1> QED BY <1>4, <1>5 DEF Room

(* What is charged for a rent is a number, whatever the statuses.          *)
LEMMA ChargedIsGold ==
  ASSUME NEW rent \in Int, NEW closed \in BOOLEAN, NEW percent \in Percents
  PROVE  Charged(rent, closed, percent) \in Int
<1>1. rent * (100 + percent) \in Int
  BY SquaresAssumption
<1>. QED BY <1>1 DEF Charged

(* Paying an amount keeps cash a number for each player. *)
LEMMA PaidIsCash ==
  ASSUME TypeOK, NEW p, NEW q, NEW amount \in Int
  PROVE  Paid(p, q, amount) \in [Players -> Int]
BY DEF TypeOK, Paid

(* Moving a square from one list to another keeps the lists typed. *)
LEMMA MovedIsHeld ==
  ASSUME TypeOK, NEW p, NEW q, NEW s \in Squares
  PROVE  Moved(p, q, s) \in [Players -> [Squares -> Int]]
BY DEF TypeOK, Moved

(* The handover of a square that is consistent before is consistent after: *)
(* p had it, or nobody if p is None, and q, or nobody, has it.             *)
LEMMA MovedIsConsistent ==
  ASSUME TypeOK, OneRecord, NEW s \in Squares,
         NEW p \in Players \cup {None}, NEW q \in Players \cup {None},
         p # q, owner[s] = p,
         owner' = [owner EXCEPT ![s] = q], held' = Moved(p, q, s)
  PROVE  owner' \in [Squares -> Players \cup {None}] /\ OneRecord'
<1>1. owner' \in [Squares -> Players \cup {None}]
  BY DEF TypeOK
<1>2. ASSUME NEW r \in Players, NEW t \in Squares
      PROVE  held'[r][t] = IF owner'[t] = r THEN 1 ELSE 0
  <2>1. held[r][t] = IF owner[t] = r THEN 1 ELSE 0
    BY DEF OneRecord
  <2>2. CASE t = s
    <3>1. held'[r][s] = held[r][s] - (IF r = p THEN 1 ELSE 0) + (IF r = q THEN 1 ELSE 0)
      BY DEF Moved, TypeOK
    <3>2. owner'[s] = q
      BY DEF TypeOK
    <3> QED BY <2>1, <2>2, <3>1, <3>2
  <2>3. CASE t # s
    <3>1. held'[r][t] = held[r][t] /\ owner'[t] = owner[t]
      BY <2>3 DEF Moved, TypeOK
    <3> QED BY <2>1, <3>1
  <2> QED BY <2>2, <2>3
<1> QED BY <1>1, <1>2 DEF OneRecord

(* Nothing that concerns ownership has changed. *)
LEMMA SameIsConsistent ==
  ASSUME OneRecord, UNCHANGED <<owner, held>>
  PROVE  OneRecord'
BY DEF OneRecord

(* The settlement of an offer transfers property and gold between the two  *)
(* parties of the offer.                                                   *)
LEMMA SettlementDelivers ==
  ASSUME NEW o \in OfferType, o.proposer # o.target,
         o.kind = "shop" => Len(o.terms.give) + Len(o.terms.get) = 1
  PROVE  Settlement(o) \in Seq(Deliveries)
<1> DEFINE p == o.proposer  q == o.target  t == o.terms
<1>1. /\ p \in Players /\ q \in Players /\ p # q /\ t.gold \in Int
      /\ t.give \in Seq(Squares) /\ t.get \in Seq(Squares)
  BY DEF OfferType, TermsType
<1>2. ASSUME NEW from \in Players, NEW to \in Players, from # to,
             NEW s \in Squares, NEW n \in Int
      PROVE  Event("TransferProperty", from, to, s, n) \in Deliveries
  BY <1>2 DEF Deliveries, GoodEvents, Event_, Event, WellFormed
<1>3. ASSUME NEW from \in Players, NEW to \in Players, from # to,
             NEW list \in Seq(Squares)
      PROVE  Transfers(from, to, list) \in Seq(Deliveries)
  <2>1. \A i \in 1 .. Len(list) : list[i] \in Squares
    BY ElementOfSeq
  <2>2. \A i \in 1 .. Len(list) :
          Event("TransferProperty", from, to, list[i], 0) \in Deliveries
    BY <1>2, <1>3, <2>1
  <2>3. DOMAIN list = 1 .. Len(list) /\ Len(list) \in Nat
    OBVIOUS
  <2> QED BY <2>2, <2>3, IsASeq DEF Transfers
<1>4. Gold(p, q, t.gold) \in Seq(Deliveries)
  <2>1. ASSUME NEW from \in Players, NEW to \in Players, NEW n \in Int
        PROVE  Event("TransferCash", from, to, None, n) \in Deliveries
    BY <2>1 DEF Deliveries, GoodEvents, Event_, Event, WellFormed
  <2>2. Event("TransferCash", p, q, None, t.gold) \in Deliveries
    BY <1>1, <2>1
  <2>3. Event("TransferCash", q, p, None, -t.gold) \in Deliveries
    BY <1>1, <2>1
  <2> HIDE DEF p, q, t
  <2> QED BY <1>1, <2>2, <2>3 DEF Gold
<1>5. CASE o.kind = "trade"
  <2>1. Transfers(p, q, t.give) \in Seq(Deliveries) /\ Transfers(q, p, t.get) \in Seq(Deliveries)
    BY <1>1, <1>3
  <2> QED BY <1>4, <1>5, <2>1 DEF Settlement
<1>6. CASE o.kind = "shop" /\ t.give = <<>>
  <2>1. t.get[1] \in Squares
    BY <1>1, <1>6
  <2>2. Event("TransferProperty", q, p, t.get[1], t.gold) \in Deliveries
    BY <1>1, <1>2, <2>1
  <2> QED BY <1>6, <2>2 DEF Settlement
<1>7. CASE o.kind = "shop" /\ t.give # <<>>
  <2>1. t.give[1] \in Squares
    BY <1>1, <1>7
  <2>2. Event("TransferProperty", p, q, t.give[1], -t.gold) \in Deliveries
    BY <1>1, <1>2, <2>1
  <2> QED BY <1>7, <2>2 DEF Settlement
<1> QED BY <1>5, <1>6, <1>7 DEF OfferType

LEMMA SettlementIsGood ==
  ASSUME NEW o \in OfferType, o.proposer # o.target,
         o.kind = "shop" => Len(o.terms.give) + Len(o.terms.get) = 1
  PROVE  Settlement(o) \in Seq(GoodEvents)
BY SettlementDelivers, SeqMonotonic DEF Deliveries

(* An event that is one of a kind, with the parties its kind needs. *)
LEMMA GoodIsEvent == Seq(GoodEvents) \subseteq Seq(Event_)
BY SeqMonotonic DEF GoodEvents

-----------------------------------------------------------------------------
(* The invariant Safe, from the initial states through every action. *)

LEMMA SafeInit == Init => Safe
<1> SUFFICES ASSUME Init PROVE Safe
  OBVIOUS
<1>1. owner \in [Squares -> Players \cup {None}] /\ OneRecord
  BY SquaresAssumption DEF Init, OneRecord
<1>2. 0 \in Players
  BY PlayersAssumption DEF Players
<1>3. held \in [Players -> [Squares -> Int]]
  BY DEF Init
<1>4. value \in [Squares -> Int] /\ cash \in [Players -> Int] /\ stock \in [Players -> Nat]
  BY SquaresAssumption DEF Init
<1>5. pending \in Seq(GoodEvents) /\ pending \in Seq(Event_)
  BY DEF Init
<1>6. /\ bankrupt \in [Players -> BOOLEAN] /\ built \subseteq Plots /\ turn \in Players
      /\ closing \in {None} \cup Seq(Squares) /\ crashed \in BOOLEAN
      /\ rolled \in BOOLEAN /\ deals \in Nat /\ surcharge \in Nat
  BY <1>2 DEF Init
<1>7. TypeOK
  BY <1>1, <1>3, <1>4, <1>5, <1>6 DEF TypeOK
<1> QED BY <1>1, <1>5, <1>7 DEF Init, Safe, AuctionShape, OfferShape

(* Steps that touch neither players nor squares. *)
LEMMA SamePlayIsSafe ==
  ASSUME Safe, SamePlay, rolled' \in BOOLEAN, deals' \in Nat, surcharge' \in Nat,
         pending' \in Seq(GoodEvents), AuctionShape', OfferShape'
  PROVE  Safe'
<1>1. TypeOK'
  BY GoodIsEvent DEF Safe, TypeOK, SamePlay, SameTurn
<1>2. OneRecord'
  BY SameIsConsistent DEF Safe, SamePlay
<1> QED BY <1>1, <1>2 DEF Safe

LEMMA NoTalkIsSafe ==
  ASSUME Safe, UNCHANGED <<auction, offer>>
  PROVE  AuctionShape' /\ OfferShape'
BY DEF Safe, AuctionShape, OfferShape

LEMMA LandIsSafe ==
  ASSUME Safe, NEW s \in Squares, Land(turn, s)
  PROVE  Safe'
<1>1. turn \in Players /\ owner \in [Squares -> Players \cup {None}] /\ deals \in Nat
  BY DEF Safe, TypeOK
<1>2. Base \in [Squares -> Nat] /\ Amounts \subseteq Int /\ Rents \subseteq Nat
  BY SquaresAssumption
<1>3. value \in [Squares -> Int]
  BY DEF Safe, TypeOK
<1>4. /\ SamePlay /\ UNCHANGED <<auction, offer>>
      /\ rolled' \in BOOLEAN /\ deals' \in Nat /\ surcharge' \in Nat
  <2>1. SamePlay /\ NoTalk /\ Landing
    BY DEF Land, LandUnownedShop, LandVacantPlot, LandOwnShop, LandOwnPlot, LandOthersShop
  <2> QED BY <1>1, <2>1 DEF Landing, Begin, NoTalk
<1>5. ASSUME NEW type \in {"BuyShop", "BuyVacantPlot", "InitForcedBuyout"}, NEW n \in Int
      PROVE  Event(type, None, turn, s, n) \in GoodEvents
  BY <1>1 DEF Event, GoodEvents, Event_, WellFormed
<1>6. ASSUME NEW type \in {"InvestInShop", "RenovateProperty"}, NEW n \in Int,
             NEW t \in Squares
      PROVE  Event(type, turn, None, t, n) \in GoodEvents
  BY <1>1 DEF Event, GoodEvents, Event_, WellFormed
<1>7. pending' \in Seq(GoodEvents)
  <2>1. CASE LandUnownedShop(turn, s) \/ LandVacantPlot(turn, s)
    BY <1>2, <1>5, <2>1 DEF LandUnownedShop, LandVacantPlot, Enqueue
  <2>2. CASE LandOwnShop(turn, s)
    <3>1. PICK t \in Squares, n \in Amounts :
            pending' = <<Event("InvestInShop", turn, None, t, n)>>
      BY <2>2 DEF LandOwnShop, Enqueue
    <3>2. Event("InvestInShop", turn, None, t, n) \in GoodEvents
      BY <1>2, <1>6
    <3> QED BY <3>1, <3>2
  <2>4. CASE LandOwnPlot(turn, s)
    <3>1. Event("RenovateProperty", turn, None, s, Base[s]) \in GoodEvents
      BY <1>2, <1>6
    <3> QED BY <2>4, <3>1 DEF LandOwnPlot, Enqueue
  <2>3. CASE LandOthersShop(turn, s)
    <3>1. PICK rent \in Rents :
            pending' = <<Event("PayRent", turn, owner[s], s, rent)>>
                       \o IF cash[turn] - rent >= 5 * value[s]
                          THEN <<Event("InitForcedBuyout", None, turn, s, 5 * value[s])>>
                          ELSE <<>>
      BY <2>3 DEF LandOthersShop, Enqueue
    <3>2. Event("PayRent", turn, owner[s], s, rent) \in GoodEvents
      BY <1>1, <1>2 DEF Event, GoodEvents, Event_, WellFormed
    <3>3. Event("InitForcedBuyout", None, turn, s, 5 * value[s]) \in GoodEvents
      BY <1>3, <1>5
    <3> QED BY <3>1, <3>2, <3>3
  <2> QED BY <2>1, <2>2, <2>3, <2>4 DEF Land
<1> QED BY <1>4, <1>7, NoTalkIsSafe, SamePlayIsSafe

(* Auctions and negotiations: the seller never bids, and the two sides of  *)
(* an offer are two players.                                               *)
LEMMA TalkIsSafe ==
  ASSUME Safe,
         \/ \E s \in Squares : StartAuction(turn, s)
         \/ \E q \in Players : Negotiate(turn, q)
         \/ Talk
  PROVE  Safe'
<1>1. /\ turn \in Players /\ owner \in [Squares -> Players \cup {None}]
      /\ deals \in Nat /\ surcharge \in Nat /\ rolled \in BOOLEAN /\ pending \in Seq(GoodEvents)
      /\ AuctionShape /\ OfferShape
  BY DEF Safe, TypeOK
<1>2. Amounts \subseteq Int
  BY SquaresAssumption
<1>3. CASE \E s \in Squares : StartAuction(turn, s)
  <2>1. PICK s \in Squares : StartAuction(turn, s)
    BY <1>3
  <2>2. /\ SamePlay /\ rolled' \in BOOLEAN /\ deals' \in Nat /\ surcharge' \in Nat
        /\ UNCHANGED <<pending, offer>>
    BY <1>1, <2>1 DEF StartAuction, Dealing, Begin
  <2>3. AuctionShape'
    BY <1>1, <2>1, NoneAssumption DEF StartAuction, Auction, AuctionShape, AuctionType,
       Active
  <2>4. OfferShape'
    BY <1>1, <2>2 DEF OfferShape
  <2> QED BY <1>1, <2>2, <2>3, <2>4, SamePlayIsSafe
<1>4. CASE \E q \in Players : Negotiate(turn, q)
  <2>1. PICK q \in Players : Negotiate(turn, q)
    BY <1>4
  <2>2. ASSUME NEW list \in Lists PROVE list \in Seq(Squares)
    BY BoundsAssumption DEF Lists
  <2>3. /\ Dealing /\ q # turn /\ SamePlay /\ UNCHANGED <<pending, auction>>
        /\ \E kind \in {"shop", "trade"}, terms \in TermsType :
             /\ Propose(kind, turn, q, terms)
             /\ kind = "shop" => Len(terms.give) + Len(terms.get) = 1
    <3>1. CASE \E s \in Squares, price \in Amounts : OfferToBuy(turn, q, s, price)
      <4>1. PICK s \in Squares, price \in Amounts : OfferToBuy(turn, q, s, price)
        BY <3>1
      <4> DEFINE terms == Terms(<<>>, <<s>>, price)
      <4>2. terms \in TermsType /\ Len(terms.give) + Len(terms.get) = 1
        BY <1>2 DEF Terms, TermsType
      <4> QED BY <4>1, <4>2 DEF OfferToBuy
    <3>2. CASE \E s \in Squares, price \in Amounts : OfferToSell(turn, q, s, price)
      <4>1. PICK s \in Squares, price \in Amounts : OfferToSell(turn, q, s, price)
        BY <3>2
      <4> DEFINE terms == Terms(<<s>>, <<>>, -price)
      <4>2. terms \in TermsType /\ Len(terms.give) + Len(terms.get) = 1
        BY <1>2 DEF Terms, TermsType
      <4> QED BY <4>1, <4>2 DEF OfferToSell
    <3>3. CASE \E give, get \in Lists, gold \in Amounts \cup {-a : a \in Amounts} :
                 ProposeTrade(turn, q, give, get, gold)
      <4>1. PICK give \in Lists, get \in Lists, gold \in Amounts \cup {-a : a \in Amounts} :
              ProposeTrade(turn, q, give, get, gold)
        BY <3>3
      <4> DEFINE terms == Terms(give, get, gold)
      <4>2. gold \in Int /\ give \in Seq(Squares) /\ get \in Seq(Squares)
        <5>1. gold \in Int
          <6>1. \A a \in Amounts : a \in Int /\ -a \in Int
            BY <1>2
          <6> QED BY <6>1
        <5> QED BY <5>1, <2>2
      <4>3. terms \in TermsType
        BY <4>2 DEF Terms, TermsType
      <4> QED BY <4>1, <4>3 DEF ProposeTrade
    <3> QED BY <2>1, <3>1, <3>2, <3>3 DEF Negotiate
  <2>4. rolled' \in BOOLEAN /\ deals' \in Nat /\ surcharge' \in Nat
    BY <1>1, <2>3 DEF Dealing, Begin
  <2>5. AuctionShape'
    BY <1>1, <2>3 DEF AuctionShape
  <2>6. OfferShape'
    <3>1. PICK kind \in {"shop", "trade"}, terms \in TermsType :
            /\ Propose(kind, turn, q, terms)
            /\ kind = "shop" => Len(terms.give) + Len(terms.get) = 1
      BY <2>3
    <3>2. offer' = [kind |-> kind, proposer |-> turn, target |-> q, terms |-> terms,
                    countered |-> FALSE]
      BY <3>1 DEF Propose
    <3>3. offer' \in OfferType
      BY <1>1, <3>2 DEF OfferType
    <3> QED BY <2>3, <3>1, <3>2, <3>3 DEF OfferShape
  <2> QED BY <1>1, <2>3, <2>4, <2>5, <2>6, SamePlayIsSafe
<1>5. CASE Bid
  <2>1. /\ SamePlay /\ rolled' \in BOOLEAN /\ deals' \in Nat /\ surcharge' \in Nat
        /\ UNCHANGED <<pending, offer>> /\ auction # None
    BY <1>1, <1>5 DEF Bid
  <2>2. PICK p \in auction.left :
          \/ auction' = [auction EXCEPT !.left = @ \ {p}]
          \/ \E bid \in Amounts :
               auction' = [auction EXCEPT !.left = @ \ {p}, !.bidder = p, !.bid = bid]
    BY <1>5 DEF Bid
  <2>3. auction \in AuctionType /\ auction.seller \notin auction.left \cup {auction.bidder}
    BY <1>1, <2>1 DEF AuctionShape
  <2>4. AuctionShape'
    <3>1. CASE auction' = [auction EXCEPT !.left = @ \ {p}]
      BY <2>3, <3>1 DEF AuctionShape, AuctionType
    <3>2. CASE \E bid \in Amounts :
                 auction' = [auction EXCEPT !.left = @ \ {p}, !.bidder = p, !.bid = bid]
      BY <1>2, <2>2, <2>3, <3>2 DEF AuctionShape, AuctionType
    <3> QED BY <2>2, <3>1, <3>2
  <2>5. OfferShape'
    BY <1>1, <2>1 DEF OfferShape
  <2> QED BY <1>1, <2>1, <2>4, <2>5, SamePlayIsSafe
<1>6. CASE EndAuction
  <2>1. /\ SamePlay /\ rolled' \in BOOLEAN /\ deals' \in Nat /\ surcharge' \in Nat
        /\ UNCHANGED offer /\ auction # None /\ auction' = None
    BY <1>1, <1>6 DEF EndAuction
  <2>2. auction \in AuctionType /\ auction.seller # auction.bidder
    BY <1>1, <2>1 DEF AuctionShape
  <2> DEFINE e == Event("AuctionSell", auction.seller, auction.bidder,
                        auction.square, auction.bid)
  <2>3. e \in GoodEvents
    BY <2>2 DEF AuctionType, Event, GoodEvents, Event_, WellFormed
  <2>4. pending' = <<e>>
    BY <1>6 DEF EndAuction, Enqueue
  <2>5. AuctionShape' /\ OfferShape'
    BY <1>1, <2>1 DEF AuctionShape, OfferShape
  <2> HIDE DEF e
  <2> QED BY <2>1, <2>3, <2>4, <2>5, SamePlayIsSafe
<1>7. CASE Accept \/ Counter \/ Reject
  <2>1. /\ SamePlay /\ rolled' \in BOOLEAN /\ deals' \in Nat /\ surcharge' \in Nat
        /\ UNCHANGED auction /\ offer # None
    BY <1>1, <1>7 DEF Accept, Counter, Reject
  <2>2. /\ offer \in OfferType /\ offer.proposer # offer.target
        /\ offer.kind = "shop" => Len(offer.terms.give) + Len(offer.terms.get) = 1
    BY <1>1, <2>1 DEF OfferShape
  <2>3. AuctionShape'
    BY <1>1, <2>1 DEF AuctionShape
  <2>4. pending' \in Seq(GoodEvents)
    BY <1>1, <1>7, <2>2, SettlementIsGood DEF Accept, Counter, Reject, Enqueue
  <2>5. OfferShape'
    <3>1. CASE offer' = None
      BY <3>1 DEF OfferShape
    <3>2. CASE Counter
      <4>1. PICK gold \in Amounts \cup {-a : a \in Amounts} :
              offer' = [offer EXCEPT !.terms = [offer.terms EXCEPT !.gold = gold],
                                     !.countered = TRUE]
        BY <3>2 DEF Counter
      <4>2. gold \in Int
        BY <1>2
      <4>3. [offer.terms EXCEPT !.gold = gold] \in TermsType
        BY <2>2, <4>2 DEF OfferType, TermsType
      <4>4. /\ [offer.terms EXCEPT !.gold = gold].give = offer.terms.give
            /\ [offer.terms EXCEPT !.gold = gold].get = offer.terms.get
        BY <2>2 DEF OfferType, TermsType
      <4> QED BY <2>2, <4>1, <4>3, <4>4 DEF OfferShape, OfferType
    <3> QED BY <1>7, <3>1, <3>2 DEF Accept, Reject
  <2> QED BY <2>1, <2>3, <2>4, <2>5, SamePlayIsSafe
<1> QED BY <1>3, <1>4, <1>5, <1>6, <1>7 DEF Talk

(* A failed assertion leaves the state as it was. *)
LEMMA CrashIsSafe ==
  ASSUME Safe, Crash
  PROVE  Safe'
<1>1. TypeOK'
  BY DEF Safe, TypeOK, Crash, SameTurn
<1>2. OneRecord' /\ AuctionShape' /\ OfferShape' /\ pending' \in Seq(GoodEvents)
  BY SameIsConsistent DEF Safe, Crash, AuctionShape, OfferShape
<1> QED BY <1>1, <1>2 DEF Safe

(* A mutation event that is done keeps the invariant if what it writes is  *)
(* typed and the two records of ownership agree afterwards.                *)
LEMMA DoneIsSafe ==
  ASSUME Safe, Done \/ (Handled /\ surcharge' \in Nat), pending # <<>>,
         held' \in [Players -> [Squares -> Int]],
         owner' \in [Squares -> Players \cup {None}], OneRecord',
         value' \in [Squares -> Int], cash' \in [Players -> Int], built' \subseteq Plots
  PROVE  Safe'
<1>0. Handled /\ surcharge' \in Nat
  BY DEF Safe, TypeOK, Done
<1>1. pending' \in Seq(GoodEvents)
  BY <1>0, HeadTailProperties DEF Safe, Handled
<1>2. TypeOK'
  BY <1>0, <1>1, GoodIsEvent DEF Safe, TypeOK, Handled, SameTurn
<1>3. AuctionShape' /\ OfferShape'
  BY <1>0, NoTalkIsSafe DEF Handled
<1> QED BY <1>1, <1>2, <1>3 DEF Safe

LEMMA MutateIsSafe ==
  ASSUME Safe, Mutate
  PROVE  Safe'
<1> DEFINE e == Head(pending)
<1>1. pending # <<>> /\ pending \in Seq(GoodEvents)
  BY DEF Safe, Mutate, Buy, PayRent, InvestInShop, RenovateProperty, InitForcedBuyout,
     ForcedBuyout, TransferProperty, TransferCash, AuctionSell, Handling
<1>2. e \in GoodEvents /\ Tail(pending) \in Seq(GoodEvents)
  BY <1>1, HeadTailProperties
<1>3. e \in Event_ /\ WellFormed(e)
  BY <1>2 DEF GoodEvents
<1>4. /\ TypeOK /\ OneRecord
      /\ owner \in [Squares -> Players \cup {None}]
      /\ held \in [Players -> [Squares -> Int]]
      /\ value \in [Squares -> Int] /\ cash \in [Players -> Int]
      /\ stock \in [Players -> Nat] /\ built \subseteq Plots
  BY DEF Safe, TypeOK
<1>5. Base \in [Squares -> Nat] /\ Bonuses \subseteq [Players -> Nat]
  BY SquaresAssumption
<1> HIDE DEF e
<1>6. CASE Buy
  <2>1. e.to \in Players /\ e.square \in Squares
    BY <1>3, <1>6 DEF Buy, Handling, Next1, e, WellFormed
  <2>2. CASE owner[e.square] # None
    BY <1>6, <2>2, CrashIsSafe DEF Buy, Next1, e
  <2>3. CASE owner[e.square] = None
    <3>1. /\ owner' = [owner EXCEPT ![e.square] = e.to]
          /\ held' = Moved(None, e.to, e.square)
          /\ cash' = Paid(e.to, None, Base[e.square])
          /\ built' = IF e.square \in Plots THEN built \cup {e.square} ELSE built
          /\ Done /\ UNCHANGED value
      BY <1>6, <2>3 DEF Buy, Next1, e
    <3>2. owner' \in [Squares -> Players \cup {None}] /\ OneRecord'
      BY <1>4, <2>1, <2>3, <3>1, NoneAssumption, MovedIsConsistent
    <3>3. held' \in [Players -> [Squares -> Int]] /\ cash' \in [Players -> Int]
      BY <1>4, <1>5, <2>1, <3>1, MovedIsHeld, PaidIsCash
    <3>4. built' \subseteq Plots
      BY <1>4, <3>1
    <3> QED BY <1>1, <1>4, <3>1, <3>2, <3>3, <3>4, DoneIsSafe
  <2> QED BY <2>2, <2>3
<1>7. CASE PayRent
  <2>1. e.amount \in Int
    BY <1>3 DEF Event_
  <2>2. PICK closed \in BOOLEAN, percent \in Percents, bonus \in Bonuses :
          LET charge == Charged(e.amount, closed, percent)
              paid == Paid(e.from, e.to, charge) IN
          /\ cash' = [p \in Players |-> paid[p] + IF charge > 0 THEN bonus[p] ELSE 0]
          /\ surcharge' = IF charge > e.amount THEN charge - e.amount ELSE 0
    BY <1>7 DEF PayRent, Next1, e
  <2> DEFINE charge == Charged(e.amount, closed, percent)
             paid == Paid(e.from, e.to, charge)
  <2>3. charge \in Int
    BY <2>1, ChargedIsGold
  <2> HIDE DEF charge
  <2>4. paid \in [Players -> Int] /\ surcharge' \in Nat
    BY <1>4, <2>1, <2>2, <2>3, PaidIsCash DEF charge
  <2> HIDE DEF paid
  <2>5. cash' = [p \in Players |-> paid[p] + IF charge > 0 THEN bonus[p] ELSE 0]
    BY <2>2 DEF paid, charge
  <2>6. cash' \in [Players -> Int]
    BY <1>5, <2>4, <2>5
  <2>7. Handled /\ UNCHANGED <<owner, held, value, built>>
    BY <1>7 DEF PayRent
  <2> QED BY <1>1, <1>4, <2>4, <2>6, <2>7, SameIsConsistent, DoneIsSafe
<1>8. CASE InvestInShop
  <2>1. e.from \in Players /\ e.square \in Squares /\ e.amount \in Int
    BY <1>3, <1>8 DEF InvestInShop, Handling, Next1, e, WellFormed, Event_
  <2>2. CASE owner[e.square] # e.from
    BY <1>8, <2>2, CrashIsSafe DEF InvestInShop, Next1, e
  <2>3. CASE owner[e.square] = e.from
    <3> DEFINE least == IF e.amount < Room(e.square) THEN e.amount ELSE Room(e.square)
               spent == IF least < cash[e.from] + stock[e.from] THEN least
                        ELSE cash[e.from] + stock[e.from]
               due == IF spent > 0 THEN spent ELSE 0
    <3>1. /\ cash' = Paid(e.from, None, due)
          /\ value' = [value EXCEPT ![e.square] = @ + due]
          /\ Done /\ UNCHANGED <<owner, held, built>>
      BY <1>8, <2>3 DEF InvestInShop, Next1, e
    <3>2. due \in Int
      BY <1>4, <2>1, RoomIsNumber
    <3> HIDE DEF due
    <3>3. cash' \in [Players -> Int] /\ value' \in [Squares -> Int]
      BY <1>4, <2>1, <3>1, <3>2, PaidIsCash
    <3> QED BY <1>1, <1>4, <3>1, <3>3, SameIsConsistent, DoneIsSafe
  <2> QED BY <2>2, <2>3
<1>9. CASE RenovateProperty
  <2>1. e.from \in Players /\ e.square \in Squares
    BY <1>3, <1>9 DEF RenovateProperty, Handling, Next1, e, WellFormed
  <2>2. CASE owner[e.square] # e.from
    BY <1>9, <2>2, CrashIsSafe DEF RenovateProperty, Next1, e
  <2>3. CASE owner[e.square] = e.from
    <3> DEFINE gain == (3 * value[e.square]) \div 4 - Base[e.square]
    <3>1. /\ cash' = Paid(None, e.from, gain)
          /\ value' = [value EXCEPT ![e.square] = Base[e.square]]
          /\ Done /\ UNCHANGED <<owner, held, built>>
      BY <1>9, <2>3 DEF RenovateProperty, Next1, e
    <3>2. gain \in Int
      BY <1>4, <1>5, <2>1
    <3> HIDE DEF gain
    <3>3. cash' \in [Players -> Int] /\ value' \in [Squares -> Int]
      BY <1>4, <1>5, <2>1, <3>1, <3>2, PaidIsCash
    <3> QED BY <1>1, <1>4, <3>1, <3>3, SameIsConsistent, DoneIsSafe
  <2> QED BY <2>2, <2>3
<1>10. CASE InitForcedBuyout
  <2> DEFINE f == Event("ForcedBuyout", None, e.to, e.square, 0)
  <2>1. f \in GoodEvents
    BY <1>3, <1>10 DEF InitForcedBuyout, Handling, Next1, e, WellFormed, Event,
       GoodEvents, Event_
  <2>2. /\ pending' \in {Tail(pending), <<f>> \o Tail(pending)}
        /\ SamePlay /\ UNCHANGED <<auction, offer, rolled, deals, surcharge>>
    BY <1>10 DEF InitForcedBuyout, Next1, e
  <2>3. pending' \in Seq(GoodEvents)
    BY <1>2, <2>1, <2>2
  <2>4. rolled' \in BOOLEAN /\ deals' \in Nat /\ surcharge' \in Nat
    BY <2>2 DEF Safe, TypeOK
  <2> QED BY <2>2, <2>3, <2>4, NoTalkIsSafe, SamePlayIsSafe
<1>11. CASE ForcedBuyout
  <2> DEFINE s == e.square  p == e.to  q == owner[e.square]
  <2>1. p \in Players /\ s \in Squares
    BY <1>3, <1>11 DEF ForcedBuyout, Handling, Next1, e, WellFormed
  <2>2. CASE q = None \/ q = p \/ ~Holds(q, s)
    BY <1>11, <2>2, CrashIsSafe DEF ForcedBuyout, Next1, e
  <2>3. CASE ~(q = None \/ q = p \/ ~Holds(q, s))
    <3>1. /\ cash' = [cash EXCEPT ![p] = @ - 5 * value[s], ![q] = @ + 3 * value[s]]
          /\ owner' = [owner EXCEPT ![s] = p]
          /\ held' = Moved(q, p, s)
          /\ Done /\ UNCHANGED <<value, built>>
      BY <1>11, <2>3 DEF ForcedBuyout, Next1, e
    <3>2. q \in Players /\ q # p
      BY <1>4, <2>1, <2>3
    <3>3. cash' \in [Players -> Int]
      BY <1>4, <2>1, <3>1, <3>2
    <3>4. held' \in [Players -> [Squares -> Int]]
      BY <1>4, <2>1, <3>1, MovedIsHeld
    <3>5. owner' \in [Squares -> Players \cup {None}] /\ OneRecord'
      BY <1>4, <2>1, <3>1, <3>2, MovedIsConsistent
    <3> QED BY <1>1, <1>4, <3>1, <3>3, <3>4, <3>5, DoneIsSafe
  <2> QED BY <2>2, <2>3
<1>12. CASE TransferProperty
  <2>1. /\ e.from \in Players /\ e.to \in Players /\ e.from # e.to
        /\ e.square \in Squares /\ e.amount \in Int
    BY <1>3, <1>12 DEF TransferProperty, Handling, Next1, e, WellFormed, Event_
  <2>2. CASE owner[e.square] # e.from \/ ~Holds(e.from, e.square)
    BY <1>12, <2>2, CrashIsSafe DEF TransferProperty, Next1, e
  <2>3. CASE ~(owner[e.square] # e.from \/ ~Holds(e.from, e.square))
    <3>1. /\ cash' = Paid(e.to, e.from, e.amount)
          /\ owner' = [owner EXCEPT ![e.square] = e.to]
          /\ held' = Moved(e.from, e.to, e.square)
          /\ Done /\ UNCHANGED <<value, built>>
      BY <1>12, <2>3 DEF TransferProperty, Next1, e
    <3>2. cash' \in [Players -> Int] /\ held' \in [Players -> [Squares -> Int]]
      BY <1>4, <2>1, <3>1, PaidIsCash, MovedIsHeld
    <3>3. owner' \in [Squares -> Players \cup {None}] /\ OneRecord'
      BY <1>4, <2>1, <2>3, <3>1, MovedIsConsistent
    <3> QED BY <1>1, <1>4, <3>1, <3>2, <3>3, DoneIsSafe
  <2> QED BY <2>2, <2>3
<1>13. CASE TransferCash
  <2>1. e.amount \in Int
    BY <1>3 DEF Event_
  <2>2. /\ cash' = Paid(e.from, e.to, e.amount)
        /\ Done /\ UNCHANGED <<owner, held, value, built>>
    BY <1>13 DEF TransferCash, Next1, e
  <2>3. cash' \in [Players -> Int]
    BY <1>4, <2>1, <2>2, PaidIsCash
  <2> QED BY <1>1, <1>4, <2>2, <2>3, SameIsConsistent, DoneIsSafe
<1>14. CASE AuctionSell
  <2>1. /\ e.from \in Players /\ e.to \in Players \cup {None} /\ e.from # e.to
        /\ e.square \in Squares /\ e.amount \in Int
    BY <1>3, <1>14 DEF AuctionSell, Handling, Next1, e, WellFormed, Event_
  <2>2. CASE owner[e.square] # e.from \/ ~Holds(e.from, e.square)
    BY <1>14, <2>2, CrashIsSafe DEF AuctionSell, Next1, e
  <2>3. CASE ~(owner[e.square] # e.from \/ ~Holds(e.from, e.square))
    <3>1. /\ cash' \in {Paid(None, e.from, Base[e.square]), Paid(e.to, e.from, e.amount)}
          /\ owner' = [owner EXCEPT ![e.square] = e.to]
          /\ held' = Moved(e.from, e.to, e.square)
          /\ Done /\ UNCHANGED <<value, built>>
      BY <1>14, <2>3 DEF AuctionSell, Next1, e
    <3>2. cash' \in [Players -> Int] /\ held' \in [Players -> [Squares -> Int]]
      BY <1>4, <1>5, <2>1, <3>1, PaidIsCash, MovedIsHeld
    <3>3. owner' \in [Squares -> Players \cup {None}] /\ OneRecord'
      BY <1>4, <2>1, <2>3, <3>1, MovedIsConsistent
    <3> QED BY <1>1, <1>4, <3>1, <3>2, <3>3, DoneIsSafe
  <2> QED BY <2>2, <2>3
<1> QED BY <1>6, <1>7, <1>8, <1>9, <1>10, <1>11, <1>12, <1>13, <1>14 DEF Mutate

(* The seat after the current one, counted in a circle, is a player's. *)
LEMMA AdvanceTurnIsTurn ==
  ASSUME NEW out, turn \in Players, AdvanceTurn(out)
  PROVE  turn' \in Players
<1>1. CASE UNCHANGED turn
  BY <1>1
<1>2. CASE \E k \in 1 .. NumPlayers : turn' = (turn + k) % NumPlayers
  BY <1>2, PlayersAssumption DEF Players
<1> QED BY <1>1, <1>2 DEF AdvanceTurn

LEMMA FinishIsSafe ==
  ASSUME Safe, Finish
  PROVE  Safe'
<1>1. /\ TypeOK /\ OneRecord /\ pending \in Seq(GoodEvents) /\ pending \in Seq(Event_)
      /\ AuctionShape /\ OfferShape
      /\ owner \in [Squares -> Players \cup {None}]
      /\ held \in [Players -> [Squares -> Int]]
      /\ value \in [Squares -> Int] /\ cash \in [Players -> Int]
      /\ stock \in [Players -> Nat] /\ built \subseteq Plots /\ turn \in Players
      /\ bankrupt \in [Players -> BOOLEAN] /\ closing \in {None} \cup Seq(Squares)
      /\ rolled \in BOOLEAN /\ deals \in Nat /\ surcharge \in Nat /\ crashed \in BOOLEAN
  BY DEF Safe, TypeOK
<1>2. CASE EndTurn
  <2>1. TypeOK'
    BY <1>1, <1>2 DEF EndTurn, TypeOK, NoTalk
  <2>2. OneRecord' /\ AuctionShape' /\ OfferShape' /\ pending' \in Seq(GoodEvents)
    BY <1>1, <1>2, SameIsConsistent, NoTalkIsSafe DEF EndTurn, NoTalk
  <2> QED BY <2>1, <2>2 DEF Safe
<1>3. CASE SellShopToBank
  <2>1. PICK s \in Squares :
          /\ Selling /\ Holds(turn, s)
          /\ IF owner[s] # turn THEN Crash
             ELSE /\ cash' = Paid(None, turn, (3 * value[s]) \div 4)
                  /\ owner' = [owner EXCEPT ![s] = None]
                  /\ held' = Moved(turn, None, s)
                  /\ closing' = Append(closing, s)
                  /\ UNCHANGED <<stock, crashed>> /\ SameDeal
    BY <1>3 DEF SellShopToBank
  <2>2. CASE owner[s] # turn
    BY <2>1, <2>2, CrashIsSafe
  <2>3. CASE owner[s] = turn
    <3> DEFINE price == (3 * value[s]) \div 4
    <3>1. price \in Int
      BY <1>1
    <3> HIDE DEF price
    <3>2. /\ cash' = Paid(None, turn, price)
          /\ owner' = [owner EXCEPT ![s] = None] /\ held' = Moved(turn, None, s)
          /\ closing' = Append(closing, s) /\ closing # None
          /\ UNCHANGED <<stock, crashed>> /\ SameDeal
      BY <2>1, <2>3 DEF Selling, price
    <3>3. cash' \in [Players -> Int] /\ held' \in [Players -> [Squares -> Int]]
      BY <1>1, <3>1, <3>2, PaidIsCash, MovedIsHeld
    <3>4. owner' \in [Squares -> Players \cup {None}] /\ OneRecord'
      BY <1>1, <2>3, <3>2, NoneAssumption, MovedIsConsistent
    <3>5. closing' \in Seq(Squares)
      BY <1>1, <3>2
    <3>6. TypeOK'
      BY <1>1, <3>2, <3>3, <3>4, <3>5 DEF TypeOK, SameDeal, NoTalk
    <3>7. AuctionShape' /\ OfferShape' /\ pending' \in Seq(GoodEvents)
      BY <1>1, <3>2, NoTalkIsSafe DEF SameDeal, NoTalk
    <3> QED BY <3>4, <3>6, <3>7 DEF Safe
  <2> QED BY <2>2, <2>3
<1>4. CASE SellStock
  <2>1. PICK worth \in 1 .. stock[turn] :
          /\ cash' = Paid(None, turn, worth)
          /\ stock' = [stock EXCEPT ![turn] = @ - worth]
          /\ UNCHANGED <<owner, held, closing, crashed>> /\ SameDeal
    BY <1>4 DEF SellStock
  <2>2. cash' \in [Players -> Int] /\ stock' \in [Players -> Nat]
    BY <1>1, <2>1, PaidIsCash
  <2>3. TypeOK'
    BY <1>1, <2>1, <2>2 DEF TypeOK, SameDeal, NoTalk
  <2>4. OneRecord' /\ AuctionShape' /\ OfferShape' /\ pending' \in Seq(GoodEvents)
    BY <1>1, <2>1, SameIsConsistent, NoTalkIsSafe DEF SameDeal, NoTalk
  <2> QED BY <2>3, <2>4 DEF Safe
<1>5. CASE AuctionSold
  <2>1. closing \in Seq(Squares) /\ closing # <<>>
    BY <1>1, <1>5 DEF AuctionSold
  <2>2. Head(closing) \in Squares /\ Tail(closing) \in Seq(Squares)
    BY <2>1
  <2>3. TypeOK'
    BY <1>1, <1>5, <2>2 DEF AuctionSold, TypeOK
  <2>4. AuctionShape'
    BY <1>1, <1>5, <2>2, NoneAssumption
       DEF AuctionSold, Auction, AuctionShape, AuctionType, Active
  <2>5. OneRecord' /\ OfferShape' /\ pending' \in Seq(GoodEvents)
    BY <1>1, <1>5, SameIsConsistent DEF AuctionSold, OfferShape
  <2> QED BY <2>3, <2>4, <2>5 DEF Safe
<1>6. CASE LiquidationAuctionSell
  <2> DEFINE s == auction.square  q == auction.bidder
  <2>1. auction # None
    BY <1>6 DEF LiquidationAuctionSell
  <2>2. s \in Squares /\ q \in Players \cup {None} /\ auction.bid \in Int
    BY <1>1, <2>1 DEF AuctionShape, AuctionType
  <2>3. CASE owner[s] # None
    BY <1>6, <2>3, CrashIsSafe DEF LiquidationAuctionSell
  <2>4. CASE owner[s] = None
    <3>1. /\ cash' = Paid(q, None, auction.bid)
          /\ owner' = [owner EXCEPT ![s] = q] /\ held' = Moved(None, q, s)
          /\ auction' = None
          /\ UNCHANGED <<value, stock, bankrupt, turn, built, pending, closing, offer,
                         agreed, crashed, rolled, deals, surcharge>>
      BY <1>6, <2>4 DEF LiquidationAuctionSell
    <3>2. cash' \in [Players -> Int] /\ held' \in [Players -> [Squares -> Int]]
      BY <1>1, <2>2, <3>1, PaidIsCash, MovedIsHeld
    <3>3. owner' \in [Squares -> Players \cup {None}] /\ OneRecord'
      <4>1. CASE q = None
        <5>1. owner' = owner /\ held' = held
          BY <1>1, <2>2, <2>4, <3>1, <4>1, NoneAssumption DEF Moved
        <5> QED BY <1>1, <5>1, SameIsConsistent
      <4>2. CASE q # None
        BY <1>1, <2>2, <2>4, <3>1, <4>2, MovedIsConsistent
      <4> QED BY <4>1, <4>2
    <3>4. TypeOK'
      BY <1>1, <3>1, <3>2, <3>3 DEF TypeOK
    <3>5. AuctionShape' /\ OfferShape' /\ pending' \in Seq(GoodEvents)
      BY <1>1, <3>1 DEF AuctionShape, OfferShape
    <3> QED BY <3>3, <3>4, <3>5 DEF Safe
  <2> QED BY <2>3, <2>4
<1>7. CASE CloseTurn
  <2>1. turn' \in Players
    BY <1>1, <1>7, AdvanceTurnIsTurn DEF CloseTurn
  <2>2. /\ closing' = None /\ rolled' = FALSE
        /\ UNCHANGED <<value, built, pending, crashed, deals, surcharge, auction, offer>>
    BY <1>7 DEF CloseTurn, NoTalk
  <2>3. AuctionShape' /\ OfferShape'
    BY <2>2, NoTalkIsSafe
  <2>4. CASE NetWorth(turn) < 0
    <3>1. /\ bankrupt' = [bankrupt EXCEPT ![turn] = TRUE]
          /\ cash' = [cash EXCEPT ![turn] = @ + stock[turn]]
          /\ stock' = [stock EXCEPT ![turn] = 0]
          /\ owner' = [s \in Squares |-> IF Holds(turn, s) THEN None ELSE owner[s]]
          /\ held' = [held EXCEPT ![turn] = [s \in Squares |-> 0]]
      BY <1>7, <2>4 DEF CloseTurn
    <3>2. /\ owner' \in [Squares -> Players \cup {None}] /\ cash' \in [Players -> Int]
          /\ stock' \in [Players -> Nat] /\ bankrupt' \in [Players -> BOOLEAN]
          /\ held' \in [Players -> [Squares -> Int]]
      BY <1>1, <3>1
    <3>3. TypeOK'
      BY <1>1, <2>1, <2>2, <3>2 DEF TypeOK
    <3>4. OneRecord'
      <4>1. ASSUME NEW p \in Players, NEW s \in Squares
            PROVE  held'[p][s] = IF owner'[s] = p THEN 1 ELSE 0
        <5>1. held[p][s] = (IF owner[s] = p THEN 1 ELSE 0)
              /\ held[turn][s] = (IF owner[s] = turn THEN 1 ELSE 0)
          BY <1>1 DEF OneRecord
        <5>2. held'[p][s] = IF p = turn THEN 0 ELSE held[p][s]
          BY <1>1, <3>1
        <5>3. owner'[s] = IF owner[s] = turn THEN None ELSE owner[s]
          BY <3>1, <5>1 DEF Holds
        <5> QED BY <5>1, <5>2, <5>3, NoneAssumption
      <4> QED BY <4>1 DEF OneRecord
    <3> QED BY <1>1, <2>2, <2>3, <3>3, <3>4 DEF Safe
  <2>5. CASE ~(NetWorth(turn) < 0)
    <3>1. UNCHANGED <<bankrupt, cash, stock, owner, held>>
      BY <1>7, <2>5 DEF CloseTurn
    <3>2. TypeOK'
      BY <1>1, <2>1, <2>2, <3>1 DEF TypeOK
    <3>3. OneRecord'
      BY <1>1, <3>1, SameIsConsistent
    <3> QED BY <1>1, <2>2, <2>3, <3>2, <3>3 DEF Safe
  <2> QED BY <2>4, <2>5
<1> QED BY <1>2, <1>3, <1>4, <1>5, <1>6, <1>7 DEF Finish

-----------------------------------------------------------------------------
LEMMA SafeInvariant == Spec => []Safe
<1>1. Init => Safe
  BY SafeInit
<1>2. ASSUME Safe, [Next]_vars PROVE Safe'
  <2>1. CASE Start
    <3>1. ASSUME NEW s \in Squares, Land(turn, s) PROVE Safe'
      BY <1>2, <3>1, LandIsSafe
    <3>2. CASE \/ \E s \in Squares : StartAuction(turn, s)
               \/ \E q \in Players : Negotiate(turn, q)
      BY <1>2, <3>2, TalkIsSafe
    <3> QED BY <2>1, <3>1, <3>2 DEF Start
  <2>2. CASE Talk
    BY <1>2, <2>2, TalkIsSafe
  <2>3. CASE Mutate
    BY <1>2, <2>3, MutateIsSafe
  <2>4. CASE Finish
    BY <1>2, <2>4, FinishIsSafe
  <2>5. CASE UNCHANGED vars
    BY <1>2, <2>5 DEF vars, Safe, TypeOK, AuctionShape, OfferShape, OneRecord
  <2> QED BY <1>2, <2>1, <2>2, <2>3, <2>4, <2>5 DEF Next
<1> QED BY <1>1, <1>2, PTL DEF Spec

(* The state keeps its types, for any number of players and squares. *)
THEOREM TypeCorrect == Spec => []TypeOK
BY SafeInvariant, PTL DEF Safe

(* The owner named by a square and the lists of the players never          *)
(* disagree, whatever is bought, forced out, auctioned, traded, sold to    *)
(* the bank or lost in bankruptcy: even if a trade names a square twice.   *)
THEOREM OwnershipConsistent == Spec => []Consistent
BY SafeInvariant, PTL DEF Safe, Consistent

-----------------------------------------------------------------------------
(***************************************************************************)
(* Module Deals implements module Ownership, for any number of players and *)
(* squares: whatever is bought, forced out, auctioned, traded, sold to the *)
(* bank or lost in bankruptcy, each event acquires, passes on or gives up  *)
(* one square, or all that one player has.                                 *)
(***************************************************************************)
Estate == [p \in Players |-> {s \in Squares : Holds(p, s)}]

(* The lists of the players are the squares that name them.                *)
LEMMA EstateIsOwned ==
  ASSUME Safe
  PROVE  Estate = [p \in Players |-> {s \in Squares : owner[s] = p}]
<1>1. ASSUME NEW p \in Players, NEW s \in Squares PROVE Holds(p, s) <=> owner[s] = p
  BY DEF Safe, OneRecord, Holds
<1>. QED BY <1>1 DEF Estate

LEMMA SameEstate ==
  ASSUME Safe, Safe', UNCHANGED owner
  PROVE  UNCHANGED Estate
<1>1. Estate' = [p \in Players |-> {s \in Squares : owner'[s] = p}]
  <2>1. ASSUME NEW p \in Players, NEW s \in Squares PROVE Holds(p, s)' <=> owner'[s] = p
    BY DEF Safe, OneRecord, Holds
  <2>. QED BY <2>1 DEF Estate
<1>. QED BY <1>1, EstateIsOwned

(* One square changes hands: from a player or from nobody, to another.     *)
Hands(s, p, q) == owner[s] = p /\ owner' = [owner EXCEPT ![s] = q]

LEMMA HandsArePromised ==
  ASSUME Safe, Safe', NEW s \in Squares,
         NEW p \in Players \cup {None}, NEW q \in Players \cup {None}, Hands(s, p, q)
  PROVE  [Promise!Next]_Estate
<1>1. Estate = [r \in Players |-> {t \in Squares : owner[t] = r}]
  BY EstateIsOwned
<1>2. Estate' = [r \in Players |-> {t \in Squares : owner'[t] = r}]
  <2>1. ASSUME NEW r \in Players, NEW t \in Squares PROVE Holds(r, t)' <=> owner'[t] = r
    BY DEF Safe, OneRecord, Holds
  <2>. QED BY <2>1 DEF Estate
<1>3. /\ owner \in [Squares -> Players \cup {None}] /\ None \notin Players
      /\ \A t \in Squares : owner'[t] = IF t = s THEN q ELSE owner[t]
  BY NoneAssumption DEF Hands, Safe, TypeOK
<1>4. /\ Estate = [r \in Players |-> Estate[r]] /\ Estate' = [r \in Players |-> Estate'[r]]
      /\ \A r \in Players, t \in Squares : t \in Estate[r] <=> owner[t] = r
      /\ \A r \in Players, t \in Squares : t \in Estate'[r] <=> owner'[t] = r
      /\ \A r \in Players : Estate[r] \subseteq Squares /\ Estate'[r] \subseteq Squares
  BY <1>1, <1>2
<1>5. CASE p = q
  BY <1>1, <1>2, <1>3, <1>5 DEF Hands
<1>6. CASE p = None /\ q # None
  <2>1. s \in {t \in Squares : \A r \in Players : t \notin Estate[r]}
    BY <1>1, <1>3, <1>6 DEF Hands
  <2>2. Estate' = [Estate EXCEPT ![q] = @ \cup {s}]
    <3>1. ASSUME NEW r \in Players
          PROVE  Estate'[r] = IF r = q THEN Estate[r] \cup {s} ELSE Estate[r]
      <4>1. \A t \in Squares : t \in Estate'[r] <=> t \in Estate[r] \/ (r = q /\ t = s)
        BY <1>3, <1>4, <1>6 DEF Hands
      <4>. QED BY <1>4, <4>1
    <3>. QED BY <1>4, <3>1, Zenon
  <2>3. Promise!Acquire(q, s)
    BY <2>1, <2>2 DEF Promise!Acquire, Promise!Unowned, Estate
  <2>. QED BY <1>6, <2>3 DEF Promise!Next
<1>7. CASE p # None /\ q = None
  <2>1. s \in Estate[p] /\ Estate' = [Estate EXCEPT ![p] = @ \ {s}]
    <3>1. \A r \in Players : Estate'[r] = IF r = p THEN Estate[r] \ {s} ELSE Estate[r]
      BY <1>3, <1>7, <1>4 DEF Hands
    <3>2. s \in Estate[p]
      BY <1>7, <1>4 DEF Hands
    <3>. QED BY <1>4, <3>1, <3>2, Zenon
  <2>2. Promise!GiveUp(p, s)
    BY <2>1 DEF Promise!GiveUp, Estate
  <2>. QED BY <1>7, <2>2 DEF Promise!Next
<1>8. CASE p # None /\ q # None /\ p # q
  <2>1. s \in Estate[p] /\ Estate' = [Estate EXCEPT ![p] = @ \ {s}, ![q] = @ \cup {s}]
    <3>1. ASSUME NEW r \in Players
          PROVE  Estate'[r] = IF r = q THEN Estate[r] \cup {s}
                              ELSE IF r = p THEN Estate[r] \ {s} ELSE Estate[r]
      <4>1. \A t \in Squares : t \in Estate'[r] <=>
              IF t = s THEN r = q ELSE t \in Estate[r]
        BY <1>3, <1>4, <1>8 DEF Hands
      <4>2. s \in Estate[r] <=> r = p
        BY <1>4, <1>8 DEF Hands
      <4>. QED BY <1>4, <1>8, <4>1, <4>2
    <3>2. s \in Estate[p]
      BY <1>8, <1>4 DEF Hands
    <3>. QED BY <1>8, <1>4, <3>1, <3>2
  <2>2. Promise!Pass(p, q, s)
    BY <1>8, <2>1 DEF Promise!Pass, Estate
  <2>. QED BY <1>8, <2>2 DEF Promise!Next
<1>. QED BY <1>5, <1>6, <1>7, <1>8

(* The events, by what they do to the owners.                              *)
LEMMA MutateHands ==
  ASSUME Safe, Mutate
  PROVE  \/ UNCHANGED owner
         \/ \E s \in Squares, p, q \in Players \cup {None} : Hands(s, p, q)
<1> DEFINE e == Head(pending)
<1>1. pending # <<>> /\ pending \in Seq(GoodEvents)
  BY DEF Safe, Mutate, Buy, PayRent, InvestInShop, RenovateProperty, InitForcedBuyout,
     ForcedBuyout, TransferProperty, TransferCash, AuctionSell, Handling
<1>2. e \in GoodEvents
  BY <1>1, HeadTailProperties
<1>3. e \in Event_ /\ WellFormed(e)
  BY <1>2 DEF GoodEvents
<1>4. owner \in [Squares -> Players \cup {None}]
  BY DEF Safe, TypeOK
<1> HIDE DEF e
<1>5. CASE Crash
  BY <1>5 DEF Crash
<1>6. CASE Buy /\ ~Crash
  <2>1. e.to \in Players /\ e.square \in Squares
    BY <1>3, <1>6 DEF Buy, Handling, Next1, e, WellFormed
  <2>2. Hands(e.square, None, e.to)
    BY <1>6 DEF Buy, Next1, e, Hands
  <2>. QED BY <2>1, <2>2
<1>7. CASE PayRent \/ InvestInShop \/ RenovateProperty \/ InitForcedBuyout \/ TransferCash
  BY <1>5, <1>7 DEF PayRent, InvestInShop, RenovateProperty, InitForcedBuyout, TransferCash,
     SamePlay
<1>8. CASE ForcedBuyout /\ ~Crash
  <2>1. e.to \in Players /\ e.square \in Squares
    BY <1>3, <1>8 DEF ForcedBuyout, Handling, Next1, e, WellFormed
  <2>2. Hands(e.square, owner[e.square], e.to) /\ owner[e.square] \in Players \cup {None}
    BY <1>4, <1>8, <2>1 DEF ForcedBuyout, Next1, e, Hands
  <2>. QED BY <2>1, <2>2
<1>9. CASE (TransferProperty \/ AuctionSell) /\ ~Crash
  <2>1. e.from \in Players /\ e.to \in Players \cup {None} /\ e.square \in Squares
    BY <1>3, <1>9 DEF TransferProperty, AuctionSell, Handling, Next1, e, WellFormed
  <2>2. Hands(e.square, e.from, e.to)
    BY <1>9 DEF TransferProperty, AuctionSell, Next1, e, Hands
  <2>. QED BY <2>1, <2>2
<1>. QED BY <1>5, <1>6, <1>7, <1>8, <1>9 DEF Mutate

LEMMA FinishHands ==
  ASSUME Safe, Finish, ~CloseTurn
  PROVE  \/ UNCHANGED owner
         \/ \E s \in Squares, p, q \in Players \cup {None} : Hands(s, p, q)
<1>1. turn \in Players
  BY DEF Safe, TypeOK
<1>2. CASE EndTurn \/ SellStock \/ AuctionSold \/ Crash
  BY <1>2 DEF EndTurn, SellStock, AuctionSold, Crash
<1>3. CASE SellShopToBank /\ ~Crash
  <2>1. PICK s \in Squares : owner[s] = turn /\ owner' = [owner EXCEPT ![s] = None]
    BY <1>3 DEF SellShopToBank
  <2>. QED BY <1>1, <2>1 DEF Hands
<1>4. CASE LiquidationAuctionSell /\ ~Crash
  <2>1. auction # None /\ auction \in AuctionType
    BY <1>4 DEF Safe, AuctionShape, LiquidationAuctionSell
  <2>2. auction.square \in Squares /\ auction.bidder \in Players \cup {None}
    BY <2>1 DEF AuctionType
  <2>3. Hands(auction.square, None, auction.bidder)
    BY <1>4 DEF LiquidationAuctionSell, Hands
  <2>. QED BY <2>2, <2>3
<1>. QED BY <1>2, <1>3, <1>4 DEF Finish

(* Who goes bankrupt loses all he has.                                     *)
LEMMA CloseTurnIsPromised ==
  ASSUME Safe, Safe', CloseTurn
  PROVE  [Promise!Next]_Estate
<1>1. CASE UNCHANGED owner
  BY <1>1, SameEstate
<1>2. CASE held' = [held EXCEPT ![turn] = [s \in Squares |-> 0]]
  <2>1. turn \in Players /\ held \in [Players -> [Squares -> Int]]
    BY DEF Safe, TypeOK
  <2>2. \A p \in Players, s \in Squares :
          Holds(p, s)' <=> p # turn /\ Holds(p, s)
    BY <1>2, <2>1 DEF Holds
  <2>3. Estate' = [Estate EXCEPT ![turn] = {}]
    BY <2>1, <2>2 DEF Estate
  <2>4. Promise!GiveUpAll(turn)
    BY <2>3 DEF Promise!GiveUpAll, Estate
  <2>. QED BY <2>1, <2>4 DEF Promise!Next
<1>. QED BY <1>1, <1>2 DEF CloseTurn

LEMMA StepIsPromised ==
  ASSUME Safe, Safe', [Next]_vars
  PROVE  [Promise!Next]_Estate
<1>1. CASE UNCHANGED owner
  BY <1>1, SameEstate
<1>2. CASE \E s \in Squares, p, q \in Players \cup {None} : Hands(s, p, q)
  BY <1>2, HandsArePromised
<1>3. CASE Start \/ Talk \/ UNCHANGED vars
  <2>1. UNCHANGED owner
    BY <1>3 DEF Start, Talk, vars, Land, LandUnownedShop, LandVacantPlot, LandOwnShop,
       LandOwnPlot, LandOthersShop, StartAuction, Negotiate, OfferToBuy, OfferToSell,
       ProposeTrade, Bid, EndAuction, Accept, Counter, Reject, SamePlay
  <2>. QED BY <1>1, <2>1
<1>4. CASE Mutate
  BY <1>1, <1>2, <1>4, MutateHands
<1>5. CASE Finish
  BY <1>1, <1>2, <1>5, FinishHands, CloseTurnIsPromised
<1>. QED BY <1>3, <1>4, <1>5 DEF Next

LEMMA InitIsPromised ==
  ASSUME Init
  PROVE  Promise!Init
<1>1. Safe
  BY SafeInit
<1>2. Estate = [p \in Players |-> {s \in Squares : owner[s] = p}]
  BY <1>1, EstateIsOwned
<1>3. Estate \in [Players -> SUBSET Squares]
  BY <1>2
<1>4. \A p, q \in Players : p # q => Estate[p] \cap Estate[q] = {}
  BY <1>2
<1>. QED BY <1>3, <1>4 DEF Promise!Init, Estate

(* Estates stay disjoint and change one square at a time, but in           *)
(* bankruptcy: what the mutation events do to the lists of the players is  *)
(* what module Ownership promises.                                         *)
THEOREM PromiseKept == Spec => KeepsPromise
<1>1. Init => Promise!Init
  BY InitIsPromised
<1>2. Safe /\ Safe' /\ [Next]_vars => [Promise!Next]_Estate
  BY StepIsPromised
<1>. QED BY <1>1, <1>2, SafeInvariant, PTL DEF Spec, KeepsPromise, Promise!Spec, Estate

-----------------------------------------------------------------------------
(***************************************************************************)
(* No assertion of a mutation event can fail if trades name no square      *)
(* twice.  The events check little themselves: what they need was checked  *)
(* when they were enqueued, or when the offer or the auction they come     *)
(* from was begun.  Sound says that none of it can have changed since.     *)
(* The last part does the same for the gold they need.                     *)
(***************************************************************************)


(* The events that read or write the owner of their square. *)
Touches(e) == e.type \notin {"PayRent", "TransferCash"}

(* The owner an event was prepared for. *)
Ready(e) ==
  /\ e.type \in {"BuyShop", "BuyVacantPlot"} => owner[e.square] = None
  /\ e.type \in {"InvestInShop", "RenovateProperty", "TransferProperty", "AuctionSell"} =>
       owner[e.square] = e.from
  /\ e.type \in {"InitForcedBuyout", "ForcedBuyout"} =>
       owner[e.square] \in Players \ {e.to}

(* Every event of a queue is ready, and no two are about one square. *)
Prepared(es) ==
  \A i \in 1 .. Len(es) :
    /\ Ready(es[i])
    /\ \A j \in 1 .. Len(es) :
         i # j /\ Touches(es[i]) /\ Touches(es[j]) => es[i].square # es[j].square

(* Only one thing goes on at a time. *)
OneThing ==
  /\ pending # <<>> => auction = None /\ offer = None /\ closing = None
  /\ offer # None => auction = None /\ closing = None

OfferReady ==
  offer # None =>
    /\ \A i \in 1 .. Len(offer.terms.give) : owner[offer.terms.give[i]] = offer.proposer
    /\ \A i \in 1 .. Len(offer.terms.get) : owner[offer.terms.get[i]] = offer.target
    /\ Distinct(offer.terms.give) /\ Distinct(offer.terms.get)

AuctionReady ==
  auction # None =>
    owner[auction.square] = IF closing = None THEN auction.seller ELSE None

(* What was sold to the bank stays unowned until its own auction. *)
SoldReady ==
  closing # None =>
    \A i \in 1 .. Len(closing) :
      /\ owner[closing[i]] = None
      /\ auction # None => closing[i] # auction.square
      /\ \A j \in 1 .. Len(closing) : i # j => closing[i] # closing[j]

Standing == OneThing /\ OfferReady /\ AuctionReady /\ SoldReady /\ ~crashed
Sound == Safe /\ Prepared(pending) /\ Standing

-----------------------------------------------------------------------------
(* Lemmas about queues of events. *)

LEMMA EmptyPrepared == Prepared(<<>>)
BY DEF Prepared

LEMMA PairIsConcat ==
  ASSUME NEW e, NEW f
  PROVE  <<e>> \o <<f>> = <<e, f>>
<1>1. /\ <<e>> \in Seq({e, f}) /\ <<f>> \in Seq({e, f}) /\ <<e, f>> \in Seq({e, f})
  OBVIOUS
<1>2. Len(<<e>> \o <<f>>) = 2 /\ Len(<<e, f>>) = 2 /\ <<e>> \o <<f>> \in Seq({e, f})
  BY <1>1
<1>3. (<<e>> \o <<f>>)[1] = e /\ (<<e>> \o <<f>>)[2] = f
  BY <1>1
<1>4. \A i \in 1 .. 2 : (<<e>> \o <<f>>)[i] = <<e, f>>[i]
  BY <1>3
<1> QED BY <1>1, <1>2, <1>4, SeqEqual

(* Who has a square in his list owns it. *)
LEMMA HolderOwns ==
  ASSUME Safe, NEW p \in Players, NEW s \in Squares, Holds(p, s)
  PROVE  owner[s] = p
BY DEF Safe, OneRecord, Holds

LEMMA SinglePrepared ==
  ASSUME NEW e, Ready(e)
  PROVE  Prepared(<<e>>)
BY DEF Prepared

(* Two prepared queues about different squares make one. *)
LEMMA ConcatPrepared ==
  ASSUME NEW es \in Seq(GoodEvents), NEW fs \in Seq(GoodEvents),
         Prepared(es), Prepared(fs),
         \A i \in 1 .. Len(es), j \in 1 .. Len(fs) :
           Touches(es[i]) /\ Touches(fs[j]) => es[i].square # fs[j].square
  PROVE  Prepared(es \o fs)
<1> DEFINE gs == es \o fs
<1>1. Len(gs) = Len(es) + Len(fs) /\ Len(es) \in Nat /\ Len(fs) \in Nat
  OBVIOUS
<1>2. ASSUME NEW i \in 1 .. Len(gs)
      PROVE  \/ i \in 1 .. Len(es) /\ gs[i] = es[i]
             \/ i - Len(es) \in 1 .. Len(fs) /\ gs[i] = fs[i - Len(es)]
  OBVIOUS
<1> HIDE DEF gs
<1>3. ASSUME NEW i \in 1 .. Len(gs) PROVE Ready(gs[i])
  BY <1>2 DEF Prepared
<1>4. ASSUME NEW i \in 1 .. Len(gs), NEW j \in 1 .. Len(gs), i # j,
             Touches(gs[i]), Touches(gs[j])
      PROVE  gs[i].square # gs[j].square
  <2>1. CASE i \in 1 .. Len(es) /\ gs[i] = es[i] /\ j \in 1 .. Len(es) /\ gs[j] = es[j]
    BY <1>4, <2>1 DEF Prepared
  <2>2. CASE /\ i - Len(es) \in 1 .. Len(fs) /\ gs[i] = fs[i - Len(es)]
             /\ j - Len(es) \in 1 .. Len(fs) /\ gs[j] = fs[j - Len(es)]
    <3>1. i - Len(es) # j - Len(es)
      BY <1>1, <1>4
    <3> QED BY <1>4, <2>2, <3>1 DEF Prepared
  <2>3. CASE /\ i \in 1 .. Len(es) /\ gs[i] = es[i]
             /\ j - Len(es) \in 1 .. Len(fs) /\ gs[j] = fs[j - Len(es)]
    BY <1>4, <2>3
  <2>4. CASE /\ i - Len(es) \in 1 .. Len(fs) /\ gs[i] = fs[i - Len(es)]
             /\ j \in 1 .. Len(es) /\ gs[j] = es[j]
    BY <1>4, <2>4
  <2> QED BY <1>2, <2>1, <2>2, <2>3, <2>4
<1> QED BY <1>3, <1>4 DEF Prepared, gs

(* Handling the first event of a queue leaves the others ready: it may     *)
(* change the owner of no square but its own.                              *)
LEMMA TailPrepared ==
  ASSUME Safe, Prepared(pending), pending # <<>>, pending' = Tail(pending),
         \A i \in 2 .. Len(pending) :
           Touches(pending[i]) => owner'[pending[i].square] = owner[pending[i].square]
  PROVE  Prepared(pending)'
<1>1. pending \in Seq(GoodEvents) /\ Len(pending) \in Nat
  BY DEF Safe
<1>2. Len(pending') = Len(pending) - 1
  BY <1>1, HeadTailProperties
<1>3. ASSUME NEW i \in 1 .. Len(pending')
      PROVE  i + 1 \in 2 .. Len(pending) /\ pending'[i] = pending[i + 1]
  BY <1>1, <1>2, HeadTailProperties
<1>4. ASSUME NEW i \in 1 .. Len(pending') PROVE Ready(pending[i])'
  <2>1. Ready(pending[i + 1])
    BY <1>3 DEF Prepared
  <2>2. Touches(pending[i + 1]) =>
          owner'[pending[i + 1].square] = owner[pending[i + 1].square]
    BY <1>3
  <2> QED BY <1>3, <2>1, <2>2 DEF Ready, Touches
<1>5. ASSUME NEW i \in 1 .. Len(pending'), NEW j \in 1 .. Len(pending'), i # j,
             Touches(pending'[i]), Touches(pending'[j])
      PROVE  pending'[i].square # pending'[j].square
  <2>1. i + 1 # j + 1
    BY <1>2, <1>5
  <2> QED BY <1>3, <1>5, <2>1 DEF Prepared
<1> QED BY <1>4, <1>5 DEF Prepared, Ready, Touches

(* An accepted offer whose squares still belong to who is to give them is  *)
(* settled by events that are prepared.                                    *)
LEMMA SettlementPrepared ==
  ASSUME Safe, offer # None, OfferReady
  PROVE  Prepared(Settlement(offer))
<1> DEFINE p == offer.proposer  q == offer.target
           give == offer.terms.give  get == offer.terms.get  gold == offer.terms.gold
<1>1. /\ p \in Players /\ q \in Players /\ p # q /\ gold \in Int
      /\ give \in Seq(Squares) /\ get \in Seq(Squares)
      /\ offer.kind \in {"shop", "trade"}
      /\ offer.kind = "shop" => Len(give) + Len(get) = 1
  BY DEF Safe, OfferShape, OfferType, TermsType
<1>2. /\ \A i \in 1 .. Len(give) : owner[give[i]] = p
      /\ \A i \in 1 .. Len(get) : owner[get[i]] = q
      /\ Distinct(give) /\ Distinct(get)
  BY DEF OfferReady
<1> HIDE DEF p, q, give, get, gold
<1>3. ASSUME NEW from \in Players, NEW to \in Players, from # to,
             NEW list \in Seq(Squares), Distinct(list),
             \A i \in 1 .. Len(list) : owner[list[i]] = from
      PROVE  /\ Transfers(from, to, list) \in Seq(GoodEvents)
             /\ Prepared(Transfers(from, to, list))
             /\ Len(Transfers(from, to, list)) = Len(list)
             /\ \A i \in 1 .. Len(list) : Transfers(from, to, list)[i].square = list[i]
  <2> DEFINE es == Transfers(from, to, list)
  <2>1. /\ DOMAIN list = 1 .. Len(list) /\ Len(list) \in Nat
        /\ \A i \in 1 .. Len(list) : list[i] \in Squares
    OBVIOUS
  <2>2. es = [i \in 1 .. Len(list) |-> Event("TransferProperty", from, to, list[i], 0)]
    BY <2>1 DEF Transfers
  <2>3. ASSUME NEW i \in 1 .. Len(list)
        PROVE  /\ es[i] \in GoodEvents /\ Ready(es[i]) /\ es[i].square = list[i]
    <3>1. es[i] = Event("TransferProperty", from, to, list[i], 0)
      BY <2>2
    <3>2. owner[list[i]] = from /\ list[i] \in Squares
      BY <1>3, <2>1
    <3> QED BY <1>3, <3>1, <3>2 DEF Event, GoodEvents, Event_, WellFormed, Ready
  <2>4. es \in Seq(GoodEvents) /\ Len(es) = Len(list)
    BY <2>1, <2>2, <2>3, IsASeq
  <2> HIDE DEF es
  <2>5. Prepared(es)
    BY <1>3, <2>1, <2>3, <2>4 DEF Prepared, Distinct
  <2> QED BY <2>3, <2>4, <2>5 DEF es
<1>4. /\ Gold(p, q, gold) \in Seq(GoodEvents) /\ Prepared(Gold(p, q, gold))
      /\ \A i \in 1 .. Len(Gold(p, q, gold)) : ~Touches(Gold(p, q, gold)[i])
  <2>1. ASSUME NEW from \in Players, NEW to \in Players, NEW n \in Int
        PROVE  LET e == Event("TransferCash", from, to, None, n)
               IN  e \in GoodEvents /\ Ready(e) /\ ~Touches(e)
    BY <2>1 DEF GoodEvents, Event_, Event, WellFormed, Ready, Touches
  <2> DEFINE e == Event("TransferCash", p, q, None, gold)
             f == Event("TransferCash", q, p, None, -gold)
  <2>2. e \in GoodEvents /\ Ready(e) /\ ~Touches(e)
    BY <1>1, <2>1
  <2>3. f \in GoodEvents /\ Ready(f) /\ ~Touches(f)
    BY <1>1, <2>1
  <2>4. Gold(p, q, gold) \in {<<e>>, <<f>>, <<>>}
    BY DEF Gold
  <2> HIDE DEF e, f
  <2>5. CASE Gold(p, q, gold) = <<e>>
    BY <2>2, <2>5, SinglePrepared
  <2>6. CASE Gold(p, q, gold) = <<f>>
    BY <2>3, <2>6, SinglePrepared
  <2>7. CASE Gold(p, q, gold) = <<>>
    BY <2>7, EmptyPrepared
  <2> QED BY <2>4, <2>5, <2>6, <2>7
<1>5. CASE offer.kind = "trade"
  <2> DEFINE es == Transfers(p, q, give)  fs == Transfers(q, p, get)  gs == Gold(p, q, gold)
  <2>1. /\ es \in Seq(GoodEvents) /\ Prepared(es) /\ Len(es) = Len(give)
        /\ \A i \in 1 .. Len(give) : es[i].square = give[i]
    BY <1>1, <1>2, <1>3
  <2>2. /\ fs \in Seq(GoodEvents) /\ Prepared(fs) /\ Len(fs) = Len(get)
        /\ \A i \in 1 .. Len(get) : fs[i].square = get[i]
    BY <1>1, <1>2, <1>3
  <2>3. /\ gs \in Seq(GoodEvents) /\ Prepared(gs)
        /\ \A i \in 1 .. Len(gs) : ~Touches(gs[i])
    BY <1>4
  <2>4. Settlement(offer) = es \o fs \o gs
    BY <1>5 DEF Settlement, p, q, give, get, gold
  <2> HIDE DEF es, fs, gs
  <2>5. \A i \in 1 .. Len(es), j \in 1 .. Len(fs) : es[i].square # fs[j].square
    BY <1>1, <1>2, <2>1, <2>2
  <2>6. fs \o gs \in Seq(GoodEvents) /\ Prepared(fs \o gs)
    BY <2>2, <2>3, ConcatPrepared
  <2>7. es \o fs \in Seq(GoodEvents) /\ Prepared(es \o fs)
    BY <2>1, <2>2, <2>5, ConcatPrepared
  <2>8. Prepared((es \o fs) \o gs)
    BY <2>3, <2>7, ConcatPrepared
  <2> QED BY <2>4, <2>8
<1>6. CASE offer.kind = "shop" /\ give = <<>>
  <2>1. 1 \in 1 .. Len(get) /\ owner[get[1]] = q
    BY <1>1, <1>2, <1>6
  <2>2. Ready(Event("TransferProperty", q, p, get[1], gold))
    BY <2>1 DEF Ready, Event
  <2>3. Settlement(offer) = <<Event("TransferProperty", q, p, get[1], gold)>>
    BY <1>6 DEF Settlement, p, q, give, get, gold
  <2> QED BY <2>2, <2>3, SinglePrepared
<1>7. CASE offer.kind = "shop" /\ give # <<>>
  <2>1. 1 \in 1 .. Len(give) /\ owner[give[1]] = p
    BY <1>1, <1>2, <1>7
  <2>2. Ready(Event("TransferProperty", p, q, give[1], -gold))
    BY <2>1 DEF Ready, Event
  <2>3. Settlement(offer) = <<Event("TransferProperty", p, q, give[1], -gold)>>
    BY <1>7 DEF Settlement, p, q, give, get, gold
  <2> QED BY <2>2, <2>3, SinglePrepared
<1> QED BY <1>1, <1>5, <1>6, <1>7

-----------------------------------------------------------------------------
(* The invariant Sound, through every action.                              *)

LEMMA SoundInit == Init => Sound
BY SafeInit, EmptyPrepared DEF Init, Sound, Standing, OneThing, OfferReady, AuctionReady,
   SoldReady

(* What a landing enqueues is ready, and only an unowned, an own or        *)
(* another's square is asked for.                                          *)
LEMMA LandIsSound ==
  ASSUME Sound, NEW s \in Squares, Land(turn, s)
  PROVE  Sound'
<1>1. Safe /\ Standing /\ turn \in Players
  BY DEF Sound, Safe, TypeOK
<1>2. Safe'
  BY <1>1, LandIsSafe
<1>3. SamePlay /\ NoTalk /\ Landing
  BY DEF Land, LandUnownedShop, LandVacantPlot, LandOwnShop, LandOwnPlot, LandOthersShop
<1>4. /\ auction = None /\ offer = None /\ closing = None /\ ~crashed
      /\ UNCHANGED <<owner, auction, offer, closing, crashed>>
  BY <1>3 DEF Landing, Begin, Idle, SamePlay, SameTurn, NoTalk
<1>5. Standing'
  BY <1>4 DEF Standing, OneThing, OfferReady, AuctionReady, SoldReady
<1>6. Prepared(pending)'
  <2>1. ASSUME NEW e, pending' = <<e>>, Ready(e) PROVE Prepared(pending)'
    BY <1>4, <2>1 DEF Prepared, Ready
  <2>2. CASE LandUnownedShop(turn, s)
    BY <2>1, <2>2 DEF LandUnownedShop, Enqueue, Event, Ready
  <2>3. CASE LandVacantPlot(turn, s)
    BY <2>1, <2>3 DEF LandVacantPlot, Enqueue, Event, Ready
  <2>4. CASE LandOwnShop(turn, s)
    <3>1. PICK t \in Squares, n \in Amounts :
            /\ Holds(turn, t)
            /\ pending' = <<Event("InvestInShop", turn, None, t, n)>>
      BY <2>4 DEF LandOwnShop, Enqueue
    <3>2. owner[t] = turn
      BY <1>1, <3>1 DEF Safe, OneRecord, Holds
    <3> QED BY <2>1, <3>1, <3>2 DEF Event, Ready
  <2>5. CASE LandOwnPlot(turn, s)
    BY <2>1, <2>5 DEF LandOwnPlot, Enqueue, Event, Ready
  <2>6. CASE LandOthersShop(turn, s)
    <3>1. PICK rent \in Rents :
            pending' = <<Event("PayRent", turn, owner[s], s, rent)>>
                       \o IF cash[turn] - rent >= 5 * value[s]
                          THEN <<Event("InitForcedBuyout", None, turn, s, 5 * value[s])>>
                          ELSE <<>>
      BY <2>6 DEF LandOthersShop, Enqueue
    <3> DEFINE e == Event("PayRent", turn, owner[s], s, rent)
               f == Event("InitForcedBuyout", None, turn, s, 5 * value[s])
    <3>2. Ready(e) /\ ~Touches(e)
      BY DEF Event, Ready, Touches
    <3>3. Ready(f)
      BY <2>6 DEF LandOthersShop, Event, Ready
    <3>4. pending' \in {<<e>> \o <<f>>, <<e>> \o <<>>}
      BY <3>1
    <3> HIDE DEF e, f
    <3>6. <<e>> \o <<f>> = <<e, f>> /\ <<e>> \o <<>> = <<e>>
      BY PairIsConcat
    <3>5. CASE pending' = <<e, f>>
      BY <1>4, <3>2, <3>3, <3>5 DEF Prepared, Ready, Touches
    <3> QED BY <2>1, <3>2, <3>4, <3>5, <3>6
  <2> QED BY <2>2, <2>3, <2>4, <2>5, <2>6 DEF Land
<1> QED BY <1>2, <1>5, <1>6 DEF Sound

(* Auctions and offers are about squares of the players who offer them,    *)
(* and while one is open nothing changes an owner.                         *)
LEMMA TalkIsSound ==
  ASSUME Sound, CleanTrades,
         \/ \E s \in Squares : StartAuction(turn, s)
         \/ \E q \in Players : Negotiate(turn, q)
         \/ Talk
  PROVE  Sound'
<1>1. Safe /\ Safe' /\ Standing /\ Prepared(pending) /\ ~crashed /\ OneThing
  BY TalkIsSafe DEF Sound, Standing
<1>2. ASSUME UNCHANGED <<owner, pending>>
      PROVE  Prepared(pending)'
  BY <1>1, <1>2 DEF Prepared, Ready
<1>3. CASE \E s \in Squares : StartAuction(turn, s)
  <2>1. PICK s \in Squares : StartAuction(turn, s)
    BY <1>3
  <2>2. /\ Dealing /\ Holds(turn, s) /\ auction' = Auction(turn, s)
        /\ UNCHANGED <<owner, pending, offer, closing, crashed>>
    BY <2>1 DEF StartAuction, SamePlay, SameTurn
  <2>3. pending = <<>> /\ offer = None /\ closing = None
    BY <2>2 DEF Dealing, Begin, Idle
  <2>4. owner[s] = turn
    BY <1>1, <2>2 DEF Safe, TypeOK, OneRecord, Holds
  <2>5. Standing'
    BY <1>1, <2>2, <2>3, <2>4
       DEF Standing, OneThing, OfferReady, AuctionReady, SoldReady, Auction
  <2> QED BY <1>1, <1>2, <2>2, <2>5 DEF Sound
<1>4. CASE \E q \in Players : Negotiate(turn, q)
  <2>1. PICK q \in Players : Negotiate(turn, q)
    BY <1>4
  <2>2. ASSUME NEW list \in Lists
        PROVE  /\ DOMAIN list = 1 .. Len(list)
               /\ \A i \in 1 .. Len(list) : list[i] \in Squares
    <3>1. list \in Seq(Squares)
      BY BoundsAssumption DEF Lists
    <3> QED BY <3>1
  <2>3. ASSUME NEW kind, NEW give, NEW get, NEW gold,
               Dealing, SamePlay, UNCHANGED <<pending, auction>>,
               Propose(kind, turn, q, Terms(give, get, gold)),
               \A i \in 1 .. Len(give) : owner[give[i]] = turn,
               \A i \in 1 .. Len(get) : owner[get[i]] = q,
               Distinct(give), Distinct(get)
        PROVE  Sound'
    <3>1. /\ offer'.proposer = turn /\ offer'.target = q
          /\ offer'.terms.give = give /\ offer'.terms.get = get
      BY <2>3 DEF Propose, Terms
    <3>2. /\ UNCHANGED <<owner, pending, auction, closing, crashed>>
          /\ pending = <<>> /\ auction = None /\ closing = None
      BY <2>3 DEF Dealing, Begin, Idle, SamePlay, SameTurn
    <3>3. OfferReady'
      BY <2>3, <3>1, <3>2 DEF OfferReady, Distinct
    <3>4. Standing'
      BY <1>1, <3>2, <3>3 DEF Standing, OneThing, AuctionReady, SoldReady
    <3> QED BY <1>1, <1>2, <3>2, <3>4 DEF Sound
  <2>4. ASSUME NEW s \in Squares, NEW price \in Amounts, OfferToBuy(turn, q, s, price)
        PROVE  Sound'
    <3>1. /\ Len(<<>>) = 0 /\ Len(<<s>>) = 1 /\ <<s>>[1] = s
          /\ Distinct(<<>>) /\ Distinct(<<s>>)
      BY DEF Distinct
    <3>2. \A i \in 1 .. Len(<<s>>) : owner[<<s>>[i]] = q
      BY <2>4, <3>1 DEF OfferToBuy
    <3> QED BY <2>3, <2>4, <3>1, <3>2 DEF OfferToBuy
  <2>5. ASSUME NEW s \in Squares, NEW price \in Amounts, OfferToSell(turn, q, s, price)
        PROVE  Sound'
    <3>1. /\ Len(<<>>) = 0 /\ Len(<<s>>) = 1 /\ <<s>>[1] = s
          /\ Distinct(<<>>) /\ Distinct(<<s>>)
      BY DEF Distinct
    <3>2. \A i \in 1 .. Len(<<s>>) : owner[<<s>>[i]] = turn
      BY <2>5, <3>1 DEF OfferToSell
    <3> QED BY <2>3, <2>5, <3>1, <3>2 DEF OfferToSell
  <2>6. ASSUME NEW give \in Lists, NEW get \in Lists, NEW gold,
               ProposeTrade(turn, q, give, get, gold)
        PROVE  Sound'
    <3>1. /\ \A i \in 1 .. Len(give) : Holds(turn, give[i]) /\ give[i] \in Squares
          /\ \A i \in 1 .. Len(get) : Holds(q, get[i]) /\ get[i] \in Squares
      BY <2>2, <2>6 DEF ProposeTrade
    <3>2. /\ \A i \in 1 .. Len(give) : owner[give[i]] = turn
          /\ \A i \in 1 .. Len(get) : owner[get[i]] = q
      BY <1>1, <3>1, HolderOwns DEF Safe, TypeOK
    <3> QED BY <2>3, <2>6, <3>2 DEF ProposeTrade
  <2> QED BY <2>1, <2>4, <2>5, <2>6 DEF Negotiate
<1>5. CASE Bid
  <2>1. /\ auction # None /\ UNCHANGED <<owner, pending, offer, closing, crashed>>
        /\ \E p, bid : auction' \in {[auction EXCEPT !.left = @ \ {p}],
              [auction EXCEPT !.left = @ \ {p}, !.bidder = p, !.bid = bid]}
    BY <1>5 DEF Bid, SamePlay, SameTurn
  <2>2. auction \in AuctionType
    BY <1>1, <2>1 DEF Safe, AuctionShape
  <2>3. auction'.seller = auction.seller /\ auction'.square = auction.square
    BY <2>1, <2>2 DEF AuctionType
  <2>4. pending = <<>> /\ offer = None
    BY <1>1, <2>1 DEF OneThing
  <2>5. Standing'
    BY <1>1, <2>1, <2>3, <2>4
       DEF Standing, OneThing, OfferReady, AuctionReady, SoldReady
  <2> QED BY <1>1, <1>2, <2>1, <2>5 DEF Sound
<1>6. CASE EndAuction
  <2> DEFINE e == Event("AuctionSell", auction.seller, auction.bidder,
                        auction.square, auction.bid)
  <2>1. /\ auction # None /\ closing = None /\ auction' = None /\ pending' = <<e>>
        /\ UNCHANGED <<owner, offer, closing, crashed>>
    BY <1>6 DEF EndAuction, SamePlay, SameTurn, Enqueue
  <2>2. offer = None
    BY <1>1, <2>1 DEF OneThing
  <2>3. owner[auction.square] = auction.seller
    BY <1>1, <2>1 DEF Standing, AuctionReady
  <2>4. Ready(e)
    BY <2>3 DEF Event, Ready
  <2> HIDE DEF e
  <2>5. Prepared(pending)'
    BY <2>1, <2>4 DEF Prepared, Ready
  <2>6. Standing'
    BY <1>1, <2>1, <2>2 DEF Standing, OneThing, OfferReady, AuctionReady, SoldReady
  <2> QED BY <1>1, <2>5, <2>6 DEF Sound
<1>7. CASE Accept
  <2>1. /\ offer # None /\ offer' = None /\ pending' = Settlement(offer)
        /\ UNCHANGED <<owner, auction, closing, crashed>>
    BY <1>7 DEF Accept, SamePlay, SameTurn, Enqueue
  <2>2. auction = None /\ closing = None
    BY <1>1, <2>1 DEF OneThing
  <2>3. Prepared(Settlement(offer))
    BY <1>1, <2>1, SettlementPrepared DEF Standing
  <2>4. Prepared(pending)'
    BY <2>1, <2>3 DEF Prepared, Ready
  <2>5. Standing'
    BY <1>1, <2>1, <2>2 DEF Standing, OneThing, OfferReady, AuctionReady, SoldReady
  <2> QED BY <1>1, <2>4, <2>5 DEF Sound
<1>8. CASE Counter
  <2>1. PICK gold : offer' = [offer EXCEPT !.terms = [offer.terms EXCEPT !.gold = gold],
                                           !.countered = TRUE]
    BY <1>8 DEF Counter
  <2>2. /\ offer # None /\ UNCHANGED <<owner, pending, auction, closing, crashed>>
    BY <1>8 DEF Counter, SamePlay, SameTurn
  <2>3. offer \in OfferType /\ OfferReady
    BY <1>1, <2>2 DEF Safe, OfferShape, Standing
  <2>4. /\ offer'.proposer = offer.proposer /\ offer'.target = offer.target
        /\ offer'.terms.give = offer.terms.give /\ offer'.terms.get = offer.terms.get
    BY <2>1, <2>3 DEF OfferType, TermsType
  <2>5. OfferReady'
    BY <2>2, <2>3, <2>4 DEF OfferReady
  <2>6. pending = <<>> /\ auction = None /\ closing = None
    BY <1>1, <2>2 DEF OneThing
  <2>7. Standing'
    BY <1>1, <2>2, <2>5, <2>6 DEF Standing, OneThing, AuctionReady, SoldReady
  <2> QED BY <1>1, <1>2, <2>2, <2>7 DEF Sound
<1>9. CASE Reject
  <2>1. offer' = None /\ UNCHANGED <<owner, pending, auction, closing, crashed>>
    BY <1>9 DEF Reject, SamePlay, SameTurn
  <2>2. Standing'
    BY <1>1, <2>1 DEF Standing, OneThing, OfferReady, AuctionReady, SoldReady
  <2> QED BY <1>1, <1>2, <2>1, <2>2 DEF Sound
<1> QED BY <1>3, <1>4, <1>5, <1>6, <1>7, <1>8, <1>9 DEF Talk

(* A mutation event finds the owner it was prepared for, so that it does   *)
(* not crash, and changes the owner of its own square only.                *)
LEMMA MutateIsSound ==
  ASSUME Sound, Mutate
  PROVE  Sound'
<1> DEFINE e == Head(pending)
<1>1. /\ Safe /\ Safe' /\ Prepared(pending) /\ Standing /\ ~crashed
      /\ pending # <<>> /\ pending \in Seq(GoodEvents)
  BY MutateIsSafe DEF Sound, Standing, Safe, Mutate, Buy, PayRent, InvestInShop,
     RenovateProperty, InitForcedBuyout, ForcedBuyout, TransferProperty, TransferCash,
     AuctionSell, Handling
<1>2. auction = None /\ offer = None /\ closing = None
  BY <1>1 DEF Standing, OneThing
<1>3. /\ e \in GoodEvents /\ e = pending[1] /\ Len(pending) \in Nat /\ 1 \in 1 .. Len(pending)
  BY <1>1, HeadTailProperties
<1>4. Ready(e) /\ e \in Event_ /\ WellFormed(e)
  BY <1>1, <1>3 DEF Prepared, GoodEvents
<1>5. ASSUME NEW i \in 2 .. Len(pending), Touches(e), Touches(pending[i])
      PROVE  pending[i].square # e.square
  BY <1>1, <1>3, <1>5 DEF Prepared
<1>6. ASSUME NEW i \in 2 .. Len(pending), Touches(pending[i])
      PROVE  pending[i].square \in Squares
  <2>1. pending[i] \in GoodEvents
    BY <1>1, <1>3
  <2> QED BY <1>6, <2>1 DEF GoodEvents, Event_, WellFormed, Touches
<1>7. owner \in [Squares -> Players \cup {None}]
  BY <1>1 DEF Safe, TypeOK
<1> HIDE DEF e
<1>8. ASSUME Handled \/ Done,
             owner' = owner \/ (Touches(e) /\ \E q : owner' = [owner EXCEPT ![e.square] = q])
      PROVE  Sound'
  <2>0. Handled
    BY <1>8 DEF Done
  <2>1. \A i \in 2 .. Len(pending) :
          Touches(pending[i]) => owner'[pending[i].square] = owner[pending[i].square]
    BY <1>5, <1>6, <1>7, <1>8
  <2>2. Prepared(pending)'
    BY <1>1, <1>8, <2>0, <2>1, TailPrepared DEF Handled
  <2>3. Standing'
    BY <1>1, <1>2, <2>0
       DEF Standing, OneThing, OfferReady, AuctionReady, SoldReady, Handled, SameTurn
  <2> QED BY <1>1, <2>2, <2>3 DEF Sound
<1>9. CASE Buy
  <2>1. e.type \in {"BuyShop", "BuyVacantPlot"} /\ Touches(e)
    BY <1>9 DEF Buy, Handling, Next1, e, Touches
  <2>2. owner[e.square] = None
    BY <1>4, <2>1 DEF Ready
  <2>3. Done /\ owner' = [owner EXCEPT ![e.square] = e.to]
    BY <1>9, <2>2 DEF Buy, Next1, e
  <2> QED BY <1>8, <2>1, <2>3
<1>10. CASE PayRent \/ TransferCash
  BY <1>8, <1>10 DEF PayRent, TransferCash
<1>11. CASE InvestInShop \/ RenovateProperty
  <2>1. e.type \in {"InvestInShop", "RenovateProperty"}
    BY <1>11 DEF InvestInShop, RenovateProperty, Handling, Next1, e
  <2>2. owner[e.square] = e.from
    BY <1>4, <2>1 DEF Ready
  <2>3. Done /\ owner' = owner
    BY <1>11, <2>2 DEF InvestInShop, RenovateProperty, Next1, e
  <2> QED BY <1>8, <2>3
<1>12. CASE InitForcedBuyout
  <2> DEFINE f == Event("ForcedBuyout", None, e.to, e.square, 0)
  <2>1. e.type = "InitForcedBuyout"
    BY <1>12 DEF InitForcedBuyout, Handling, Next1, e
  <2>2. /\ pending' \in {Tail(pending), <<f>> \o Tail(pending)}
        /\ SamePlay /\ UNCHANGED <<auction, offer>>
    BY <1>12 DEF InitForcedBuyout, Next1, e
  <2>3. owner' = owner /\ UNCHANGED <<auction, offer, closing, crashed>>
    BY <2>2 DEF SamePlay, SameTurn
  <2>4. Ready(f) /\ f \in GoodEvents /\ f.square = e.square
    BY <1>4, <2>1 DEF Ready, Event, GoodEvents, Event_, WellFormed
  <2> HIDE DEF f
  <2>5. Tail(pending) \in Seq(GoodEvents) /\ Len(Tail(pending)) = Len(pending) - 1
    BY <1>1, HeadTailProperties
  <2>6. ASSUME NEW i \in 1 .. Len(Tail(pending))
        PROVE  Tail(pending)[i] = pending[i + 1] /\ i + 1 \in 2 .. Len(pending)
    BY <1>1, <1>3, <2>5, HeadTailProperties
  <2>7. Prepared(Tail(pending))
    BY <1>1, <1>3, <2>5, <2>6 DEF Prepared
  <2>8. Prepared(<<f>> \o Tail(pending))
    <3>1. <<f>> \in Seq(GoodEvents) /\ Prepared(<<f>>) /\ Len(<<f>>) = 1 /\ <<f>>[1] = f
      BY <2>4, SinglePrepared
    <3>2. Touches(e)
      BY <2>1 DEF Touches
    <3>3. \A i \in 1 .. Len(<<f>>), j \in 1 .. Len(Tail(pending)) :
            Touches(<<f>>[i]) /\ Touches(Tail(pending)[j]) =>
              <<f>>[i].square # Tail(pending)[j].square
      BY <1>5, <2>4, <2>6, <3>1, <3>2
    <3> QED BY <2>5, <2>7, <3>1, <3>3, ConcatPrepared
  <2>9. Prepared(pending)'
    <3>1. CASE pending' = Tail(pending)
      BY <2>3, <2>7, <3>1 DEF Prepared, Ready
    <3>2. CASE pending' = <<f>> \o Tail(pending)
      BY <2>3, <2>8, <3>2 DEF Prepared, Ready
    <3> QED BY <2>2, <3>1, <3>2
  <2>10. Standing'
    BY <1>1, <1>2, <2>3 DEF Standing, OneThing, OfferReady, AuctionReady, SoldReady
  <2> QED BY <1>1, <2>9, <2>10 DEF Sound
<1>13. CASE ForcedBuyout
  <2>1. e.type = "ForcedBuyout" /\ Touches(e) /\ e.square \in Squares
    BY <1>4, <1>13 DEF ForcedBuyout, Handling, Next1, e, Touches, WellFormed
  <2>2. owner[e.square] \in Players \ {e.to}
    BY <1>4, <2>1 DEF Ready
  <2>3. owner[e.square] # None /\ Holds(owner[e.square], e.square)
    BY <1>1, <2>1, <2>2, NoneAssumption DEF Safe, OneRecord, Holds
  <2>4. Done /\ owner' = [owner EXCEPT ![e.square] = e.to]
    BY <1>13, <2>2, <2>3 DEF ForcedBuyout, Next1, e
  <2> QED BY <1>8, <2>1, <2>4
<1>14. CASE TransferProperty \/ AuctionSell
  <2>1. /\ e.type \in {"TransferProperty", "AuctionSell"} /\ Touches(e)
        /\ e.square \in Squares /\ e.from \in Players
    BY <1>4, <1>14 DEF TransferProperty, AuctionSell, Handling, Next1, e, Touches, WellFormed
  <2>2. owner[e.square] = e.from
    BY <1>4, <2>1 DEF Ready
  <2>3. Holds(e.from, e.square)
    BY <1>1, <2>1, <2>2 DEF Safe, OneRecord, Holds
  <2>4. Done /\ owner' = [owner EXCEPT ![e.square] = e.to]
    BY <1>14, <2>2, <2>3 DEF TransferProperty, AuctionSell, Next1, e
  <2> QED BY <1>8, <2>1, <2>4
<1> QED BY <1>9, <1>10, <1>11, <1>12, <1>13, <1>14 DEF Mutate

(* A player sells to the bank only what he owns, and each square sold is   *)
(* still unowned when its auction ends.                                    *)
LEMMA FinishIsSound ==
  ASSUME Sound, Finish
  PROVE  Sound'
<1>1. /\ Safe /\ Safe' /\ Prepared(pending) /\ Standing /\ ~crashed /\ OneThing
      /\ SoldReady /\ AuctionReady
      /\ owner \in [Squares -> Players \cup {None}] /\ turn \in Players
      /\ closing \in {None} \cup Seq(Squares)
  BY FinishIsSafe DEF Sound, Standing, Safe, TypeOK
<1>2. CASE EndTurn
  <2>1. /\ pending = <<>> /\ auction = None /\ offer = None /\ closing' = <<>>
        /\ UNCHANGED <<owner, pending, auction, offer, crashed>>
    BY <1>2 DEF EndTurn, Idle, NoTalk
  <2>2. Standing'
    BY <1>1, <2>1 DEF Standing, OneThing, OfferReady, AuctionReady, SoldReady
  <2>3. Prepared(pending)'
    BY <2>1 DEF Prepared
  <2> QED BY <1>1, <2>2, <2>3 DEF Sound
<1>3. ASSUME closing # None, UNCHANGED pending
      PROVE  pending = <<>> /\ offer = None /\ Prepared(pending)'
  BY <1>1, <1>3 DEF OneThing, Prepared
<1>4. CASE SellShopToBank
  <2>1. PICK s \in Squares :
          /\ Selling /\ Holds(turn, s)
          /\ IF owner[s] # turn THEN Crash
             ELSE /\ owner' = [owner EXCEPT ![s] = None]
                  /\ closing' = Append(closing, s)
                  /\ UNCHANGED crashed /\ SameDeal
    BY <1>4 DEF SellShopToBank
  <2>2. owner[s] = turn
    BY <1>1, <2>1, HolderOwns
  <2>3. /\ owner' = [owner EXCEPT ![s] = None] /\ closing' = Append(closing, s)
        /\ UNCHANGED <<pending, auction, offer, crashed>>
        /\ closing # None /\ closing \in Seq(Squares) /\ auction = None
    BY <1>1, <2>1, <2>2 DEF Selling, SameDeal, NoTalk
  <2>4. /\ Len(closing') = Len(closing) + 1 /\ Len(closing) \in Nat
        /\ \A i \in 1 .. Len(closing) : closing'[i] = closing[i] /\ closing[i] \in Squares
        /\ closing'[Len(closing) + 1] = s
    BY <2>3
  <2>5. \A i \in 1 .. Len(closing) :
          /\ owner[closing[i]] = None /\ closing[i] # s
          /\ \A j \in 1 .. Len(closing) : i # j => closing[i] # closing[j]
    BY <1>1, <2>2, <2>3, NoneAssumption DEF SoldReady
  <2>6. SoldReady'
    BY <1>1, <2>3, <2>4, <2>5 DEF SoldReady
  <2>7. Standing'
    BY <1>1, <1>3, <2>3, <2>6 DEF Standing, OneThing, OfferReady, AuctionReady
  <2> QED BY <1>1, <1>3, <2>3, <2>7 DEF Sound
<1>5. CASE SellStock
  <2>1. /\ UNCHANGED <<owner, pending, auction, offer, closing, crashed>>
        /\ closing # None
    BY <1>5 DEF SellStock, Selling, SameDeal, NoTalk
  <2>2. Standing'
    BY <1>1, <2>1 DEF Standing, OneThing, OfferReady, AuctionReady, SoldReady
  <2> QED BY <1>1, <1>3, <2>1, <2>2 DEF Sound
<1>6. CASE AuctionSold
  <2>1. /\ closing # None /\ closing \in Seq(Squares) /\ closing # <<>> /\ auction = None
        /\ closing' = Tail(closing) /\ auction' = Auction(turn, Head(closing))
        /\ UNCHANGED <<owner, pending, offer, crashed>>
    BY <1>1, <1>6 DEF AuctionSold
  <2>2. /\ Head(closing) = closing[1] /\ Len(closing) \in Nat /\ 1 \in 1 .. Len(closing)
        /\ closing' \in Seq(Squares) /\ Len(closing') = Len(closing) - 1
        /\ \A i \in 1 .. Len(closing') :
             closing'[i] = closing[i + 1] /\ i + 1 \in 1 .. Len(closing)
    BY <2>1, HeadTailProperties
  <2>3. auction'.square = closing[1] /\ closing' # None
    BY <2>1, <2>2, NoneAssumption DEF Auction
  <2>4. \A i \in 1 .. Len(closing) :
          /\ owner[closing[i]] = None
          /\ \A j \in 1 .. Len(closing) : i # j => closing[i] # closing[j]
    BY <1>1, <2>1 DEF SoldReady
  <2>5. SoldReady' /\ AuctionReady'
    <3>1. ASSUME NEW i \in 1 .. Len(closing')
          PROVE  /\ owner[closing'[i]] = None /\ closing'[i] # closing[1]
                 /\ \A j \in 1 .. Len(closing') : i # j => closing'[i] # closing'[j]
      <4>1. closing'[i] = closing[i + 1] /\ i + 1 \in 1 .. Len(closing) /\ i + 1 # 1
        BY <2>2
      <4>2. owner[closing'[i]] = None /\ closing'[i] # closing[1]
        BY <2>2, <2>4, <4>1
      <4>3. ASSUME NEW j \in 1 .. Len(closing'), i # j
            PROVE  closing'[i] # closing'[j]
        <5>1. closing'[j] = closing[j + 1] /\ j + 1 \in 1 .. Len(closing) /\ i + 1 # j + 1
          BY <2>2, <4>3
        <5> QED BY <2>4, <4>1, <5>1
      <4> QED BY <4>2, <4>3
    <3> QED BY <2>1, <2>2, <2>3, <2>4, <3>1 DEF SoldReady, AuctionReady
  <2>6. Standing'
    BY <1>1, <1>3, <2>1, <2>5 DEF Standing, OneThing, OfferReady
  <2> QED BY <1>1, <1>3, <2>1, <2>6 DEF Sound
<1>7. CASE LiquidationAuctionSell
  <2>1. closing # None /\ auction # None /\ owner[auction.square] = None
    BY <1>1, <1>7 DEF LiquidationAuctionSell, AuctionReady
  <2>2. /\ owner' = [owner EXCEPT ![auction.square] = auction.bidder] /\ auction' = None
        /\ UNCHANGED <<pending, closing, offer, crashed>>
    BY <1>7, <2>1 DEF LiquidationAuctionSell
  <2>3. ASSUME NEW i \in 1 .. Len(closing)
        PROVE  /\ owner'[closing[i]] = None
               /\ \A j \in 1 .. Len(closing) : i # j => closing[i] # closing[j]
    BY <1>1, <2>1, <2>2 DEF SoldReady
  <2>4. SoldReady'
    BY <2>2, <2>3 DEF SoldReady
  <2>5. Standing'
    BY <1>1, <1>3, <2>1, <2>2, <2>4 DEF Standing, OneThing, OfferReady, AuctionReady
  <2> QED BY <1>1, <1>3, <2>1, <2>2, <2>5 DEF Sound
<1>8. CASE CloseTurn
  <2>1. /\ closing = <<>> /\ auction = None /\ closing' = None
        /\ UNCHANGED <<pending, auction, offer, crashed>>
    BY <1>8 DEF CloseTurn, NoTalk
  <2>2. closing # None
    <3>1. <<>> \in Seq(Squares)
      OBVIOUS
    <3> QED BY <2>1, <3>1, NoneAssumption
  <2>3. Standing'
    BY <1>1, <1>3, <2>1, <2>2 DEF Standing, OneThing, OfferReady, AuctionReady, SoldReady
  <2> QED BY <1>1, <1>3, <2>1, <2>2, <2>3 DEF Sound
<1> QED BY <1>2, <1>4, <1>5, <1>6, <1>7, <1>8 DEF Finish

-----------------------------------------------------------------------------
LEMMA SoundInvariant == ASSUME CleanTrades PROVE Spec => []Sound
<1>1. Init => Sound
  BY SoundInit
<1>2. ASSUME Sound, [Next]_vars PROVE Sound'
  <2>1. CASE Start
    <3>1. ASSUME NEW s \in Squares, Land(turn, s) PROVE Sound'
      BY <1>2, <3>1, LandIsSound
    <3>2. CASE \/ \E s \in Squares : StartAuction(turn, s)
               \/ \E q \in Players : Negotiate(turn, q)
      BY <1>2, <3>2, TalkIsSound
    <3> QED BY <2>1, <3>1, <3>2 DEF Start
  <2>2. CASE Talk
    BY <1>2, <2>2, TalkIsSound
  <2>3. CASE Mutate
    BY <1>2, <2>3, MutateIsSound
  <2>4. CASE Finish
    BY <1>2, <2>4, FinishIsSound
  <2>5. CASE UNCHANGED vars
    <3>1. Safe'
      BY <1>2, <2>5 DEF vars, Sound, Safe, TypeOK, AuctionShape, OfferShape, OneRecord, Holds
    <3>2. Prepared(pending)'
      BY <1>2, <2>5 DEF vars, Sound, Prepared, Ready, Holds
    <3>3. Standing'
      BY <1>2, <2>5 DEF vars, Sound, Standing, OneThing, OfferReady, AuctionReady, SoldReady,
         Holds
    <3> QED BY <3>1, <3>2, <3>3 DEF Sound
  <2> QED BY <1>2, <2>1, <2>2, <2>3, <2>4, <2>5 DEF Next
<1> QED BY <1>1, <1>2, PTL DEF Spec

(* If no trade names a square twice, no assertion of a mutation event ever *)
(* fails, and the game thread is not ended by one.                         *)
THEOREM AssertionsHold == ASSUME CleanTrades PROVE Spec => []NoAssertionFails
<1>1. Sound => NoAssertionFails
  BY DEF Sound, Standing, NoAssertionFails
<1> QED BY <1>1, SoundInvariant, PTL

-----------------------------------------------------------------------------
(***************************************************************************)
(* What was affordable when it was decided can be paid when it is carried  *)
(* out: the winning bid of an auction, and a forced buyout after the rent. *)
(* For any number of players and squares, whatever trades name.            *)
(***************************************************************************)
(* Who leads an auction has the cash he bid, and has had his turn.         *)
Led ==
  auction # None =>
    /\ auction.bid >= 0 /\ auction.left \subseteq Active
    /\ (auction.bidder = None) <=> (auction.bid = 0)
    /\ auction.bidder # None => auction.bidder \in Active /\ auction.bid <= cash[auction.bidder]

Won(e) ==
  /\ (e.to = None) <=> (e.amount = 0)
  /\ e.to # None => e.to \in Active /\ e.amount <= cash[e.to]

(* A sale or a buyout is the next event, but for the rent that the buyer   *)
(* pays first; he has the money, after the rent that was looked at, and    *)
(* later lacks at most what a price hike has put on it.                    *)
Due(i) ==
  LET e == pending[i] IN
  /\ e.type = "AuctionSell" => i = 1 /\ Won(e)
  /\ e.type = "ForcedBuyout" => i = 1 /\ cash[e.to] + surcharge >= 5 * value[e.square]
  /\ e.type = "InitForcedBuyout" =>
       \/ i = 1 /\ cash[e.to] + surcharge >= 5 * value[e.square]
       \/ /\ i = 2 /\ pending[1].type = "PayRent"
          /\ pending[1].from = e.to /\ pending[1].to # e.to
          /\ cash[e.to] - pending[1].amount >= 5 * value[e.square]

AllDue == \A i \in 1 .. Len(pending) : Due(i)
Valued == \A s \in Squares : value[s] >= 0

Covered == Safe /\ OneThing /\ Led /\ AllDue /\ Valued

Special == {"AuctionSell", "ForcedBuyout", "InitForcedBuyout"}

-----------------------------------------------------------------------------
(* Queues without sales and buyouts ask for nothing.                       *)
LEMMA PlainIsDue ==
  ASSUME NEW es, \A i \in 1 .. Len(es) : es[i].type \notin Special, pending' = es
  PROVE  AllDue'
BY DEF AllDue, Due, Special

LEMMA OneIsDue ==
  ASSUME NEW e, pending' = <<e>>,
         e.type \notin Special \/ (e.type = "AuctionSell" /\ Won(e)')
  PROVE  AllDue'
BY DEF AllDue, Due, Special

LEMMA SettlementIsDue ==
  ASSUME Safe, offer # None, pending' = Settlement(offer)
  PROVE  AllDue'
<1>1. Settlement(offer) \in Seq(Deliveries)
  BY SettlementDelivers DEF Safe, OfferShape
<1>2. \A i \in 1 .. Len(Settlement(offer)) : Settlement(offer)[i] \in Deliveries
  BY <1>1, ElementOfSeq
<1>. QED BY <1>2, PlainIsDue DEF Deliveries, Special

LEMMA SameIsDue ==
  ASSUME AllDue, UNCHANGED <<pending, cash, value, bankrupt, surcharge>>
  PROVE  AllDue'
BY DEF AllDue, Due, Won, Active

(* Whatever the first event was, what follows asks for less.               *)
LEMMA TailIsDue ==
  ASSUME Covered, Safe', pending # <<>>, pending' = Tail(pending),
         \/ pending[1].type # "PayRent"
         \/ \A p \in Players : p # pending[1].to /\ p = pending[1].from =>
              cash'[p] + surcharge' >= cash[p] - pending[1].amount,
         UNCHANGED value
  PROVE  AllDue'
<1>1. /\ pending \in Seq(GoodEvents) /\ Len(pending') = Len(pending) - 1
      /\ \A i \in 1 .. Len(pending') : pending'[i] = pending[i + 1]
      /\ \A i \in 1 .. Len(pending') : i + 1 \in 1 .. Len(pending)
  BY HeadTailProperties DEF Covered, Safe
<1>2. \A i \in 1 .. Len(pending) : pending[i] \in Event_ /\ WellFormed(pending[i])
  BY <1>1, ElementOfSeq DEF GoodEvents
<1>3. cash \in [Players -> Int] /\ value \in [Squares -> Int] /\ 1 \in 1 .. Len(pending)
  BY <1>1 DEF Covered, Safe, TypeOK
<1>4. ASSUME NEW i \in 1 .. Len(pending') PROVE Due(i)'
  <2>1. Due(i + 1) /\ pending'[i] = pending[i + 1] /\ i + 1 # 1
    BY <1>1 DEF Covered, AllDue
  <2>2. CASE pending[i + 1].type # "InitForcedBuyout"
    BY <2>1, <2>2 DEF Due
  <2>3. CASE pending[i + 1].type = "InitForcedBuyout"
    <3>1. pending[i + 1].to \in Players /\ pending[i + 1].square \in Squares
      BY <1>1, <1>2, <2>3 DEF WellFormed
    <3>2. /\ i = 1 /\ pending[1].type = "PayRent"
          /\ pending[1].from = pending[2].to /\ pending[1].to # pending[2].to
          /\ cash[pending[2].to] - pending[1].amount >= 5 * value[pending[2].square]
      BY <2>1, <2>3 DEF Due
    <3>3. pending[1].amount \in Int
      BY <1>2, <1>3 DEF Event_
    <3>4. cash'[pending[2].to] + surcharge' >= 5 * value'[pending[2].square]
      <4>1. cash'[pending[2].to] + surcharge' >= cash[pending[2].to] - pending[1].amount
        BY <3>1, <3>2
      <4>2. cash' \in [Players -> Int] /\ surcharge' \in Nat
        BY DEF Safe, TypeOK
      <4>. QED BY <1>3, <3>1, <3>2, <3>3, <4>1, <4>2
    <3>. QED BY <2>1, <2>3, <3>2, <3>4 DEF Due
  <2>. QED BY <2>2, <2>3
<1>. QED BY <1>4 DEF AllDue

-----------------------------------------------------------------------------
(* The steps.                                                              *)

LEMMA CoveredInit == Init => Covered
<1>1. ASSUME Init PROVE Covered
  <2>1. Safe /\ Len(pending) = 0
    BY <1>1, SafeInit DEF Init
  <2>2. OneThing /\ Led /\ Valued
    BY <1>1, SquaresAssumption DEF Init, OneThing, Led, Valued
  <2>. QED BY <2>1, <2>2 DEF Covered, AllDue
<1>. QED BY <1>1

LEMMA LandCovers ==
  ASSUME Covered, Safe', NEW s \in Squares, Land(turn, s)
  PROVE  Covered'
<1>1. /\ Landing /\ SamePlay /\ NoTalk
      /\ pending = <<>> /\ auction = None /\ offer = None /\ closing = None
  BY DEF Land, LandUnownedShop, LandVacantPlot, LandOwnShop, LandOwnPlot, LandOthersShop,
     Landing, Begin, Idle
<1>2. OneThing' /\ Led' /\ Valued'
  BY <1>1 DEF SamePlay, SameTurn, NoTalk, OneThing, Led, Covered, Valued
<1>3. CASE LandUnownedShop(turn, s) \/ LandVacantPlot(turn, s) \/ LandOwnPlot(turn, s)
  <2>1. PICK e : pending' = <<e>> /\ e.type \notin Special
    BY <1>3 DEF LandUnownedShop, LandVacantPlot, LandOwnPlot, Enqueue, Event, Special
  <2>. QED BY <1>2, <2>1, OneIsDue DEF Covered
<1>4. CASE LandOwnShop(turn, s)
  <2>1. PICK e : pending' = <<e>> /\ e.type \notin Special
    BY <1>4 DEF LandOwnShop, Enqueue, Event, Special
  <2>. QED BY <1>2, <2>1, OneIsDue DEF Covered
<1>5. CASE LandOthersShop(turn, s)
  <2> DEFINE r(n) == Event("PayRent", turn, owner[s], s, n)
             b == Event("InitForcedBuyout", None, turn, s, 5 * value[s])
  <2>1. PICK rent \in Rents :
          pending' = <<r(rent)>> \o IF cash[turn] - rent >= 5 * value[s] THEN <<b>> ELSE <<>>
    BY <1>5 DEF LandOthersShop, Enqueue
  <2>2. /\ rent \in Nat /\ turn \in Players
        /\ cash[turn] \in Int /\ value[s] \in Int /\ owner[s] # turn
    BY <1>5, SquaresAssumption DEF Covered, Safe, TypeOK, LandOthersShop
  <2>3. CASE cash[turn] - rent >= 5 * value[s]
    <3>1. pending' = <<r(rent), b>>
      BY <2>1, <2>3, PairIsConcat
    <3>2. Len(pending') = 2 /\ pending'[1] = r(rent) /\ pending'[2] = b
      BY <3>1
    <3>3. UNCHANGED <<cash, value>>
      BY <1>1 DEF SamePlay
    <3>4. cash'[turn] - rent >= 5 * value'[s]
      BY <2>2, <2>3, <3>3
    <3>5. Due(1)' /\ Due(2)'
      BY <2>2, <3>2, <3>4 DEF Due, Event
    <3>. QED BY <1>2, <3>2, <3>5 DEF Covered, AllDue
  <2>4. CASE ~(cash[turn] - rent >= 5 * value[s])
    <3>1. pending' = <<r(rent)>>
      BY <2>1, <2>4
    <3>. QED BY <1>2, <3>1, OneIsDue DEF Covered, Event, Special
  <2>. QED BY <2>3, <2>4
<1>. QED BY <1>3, <1>4, <1>5 DEF Land

LEMMA TalkCovers ==
  ASSUME Covered, Safe',
         \/ \E s \in Squares : StartAuction(turn, s)
         \/ \E q \in Players : Negotiate(turn, q)
         \/ Talk
  PROVE  Covered'
<1>1. Safe /\ OneThing /\ Led /\ AllDue /\ Valued
  BY DEF Covered
<1>2. SamePlay
  BY DEF StartAuction, Negotiate, OfferToBuy, OfferToSell, ProposeTrade, Talk, Bid, EndAuction,
     Accept, Counter, Reject
<1>3. Valued' /\ UNCHANGED <<cash, value, bankrupt, closing>> /\ Active' = Active
  BY <1>1, <1>2 DEF Valued, SamePlay, SameTurn, Active
<1>4. CASE \E s \in Squares : StartAuction(turn, s)
  <2>1. PICK s \in Squares : StartAuction(turn, s)
    BY <1>4
  <2>2. /\ auction' = Auction(turn, s) /\ UNCHANGED <<pending, offer>>
        /\ pending = <<>> /\ offer = None
    BY <2>1 DEF StartAuction, Dealing, Begin, Idle
  <2>3. OneThing' /\ Led'
    BY <1>3, <2>2 DEF OneThing, Led, Auction
  <2>4. AllDue'
    BY <2>2, PlainIsDue
  <2>. QED BY <1>3, <2>3, <2>4 DEF Covered
<1>5. CASE \E q \in Players : Negotiate(turn, q)
  <2>1. UNCHANGED <<pending, auction>> /\ Begin /\ pending = <<>>
    BY <1>5 DEF Negotiate, OfferToBuy, OfferToSell, ProposeTrade, Dealing, Begin, Idle
  <2>2. OneThing' /\ Led'
    BY <1>1, <1>3, <2>1 DEF OneThing, Led, Begin, Idle
  <2>3. AllDue'
    BY <2>1, PlainIsDue
  <2>. QED BY <1>3, <2>2, <2>3 DEF Covered
<1>6. CASE Bid
  <2>1. /\ auction # None /\ auction \in AuctionType /\ UNCHANGED <<pending, offer, surcharge>>
        /\ Amounts \subseteq Int /\ cash \in [Players -> Int] /\ None \notin Players
    BY <1>1, <1>6, SquaresAssumption, NoneAssumption DEF Bid, Safe, AuctionShape, TypeOK
  <2>2. PICK p \in auction.left :
          \/ auction' = [auction EXCEPT !.left = @ \ {p}]
          \/ \E bid \in Amounts :
               /\ bid > auction.bid /\ bid <= cash[p]
               /\ auction' = [auction EXCEPT !.left = @ \ {p}, !.bidder = p, !.bid = bid]
    BY <1>6 DEF Bid
  <2>3. p \in Active /\ p \in Players
    BY <1>1, <2>1 DEF Led, AuctionType, Active
  <2>4. Led'
    <3>1. CASE auction' = [auction EXCEPT !.left = @ \ {p}]
      <4>1. /\ auction'.left = auction.left \ {p}
            /\ auction'.bidder = auction.bidder /\ auction'.bid = auction.bid
        BY <2>1, <3>1 DEF AuctionType
      <4>. QED BY <1>1, <1>3, <2>1, <4>1 DEF Led
    <3>2. ASSUME NEW bid \in Amounts, bid > auction.bid, bid <= cash[p],
                 auction' = [auction EXCEPT !.left = @ \ {p}, !.bidder = p, !.bid = bid]
          PROVE  Led'
      <4>1. /\ auction'.left = auction.left \ {p}
            /\ auction'.bidder = p /\ auction'.bid = bid
        BY <2>1, <3>2 DEF AuctionType
      <4>2. bid > 0 /\ auction.left \subseteq Active
        BY <1>1, <2>1, <3>2 DEF Led, AuctionType
      <4>. QED BY <1>3, <2>1, <2>3, <3>2, <4>1, <4>2 DEF Led
    <3>. QED BY <2>2, <3>1, <3>2
  <2>5. OneThing'
    BY <1>1, <1>3, <2>1 DEF OneThing
  <2>. QED BY <1>1, <1>3, <2>1, <2>4, <2>5, SameIsDue DEF Covered
<1>7. CASE EndAuction
  <2>1. PICK e : /\ e.type = "AuctionSell" /\ e.to = auction.bidder /\ e.amount = auction.bid
                 /\ auction # None /\ closing = None /\ auction' = None
                 /\ pending' = <<e>> /\ UNCHANGED offer
    BY <1>7 DEF EndAuction, Enqueue, Event
  <2>2. Won(e)'
    BY <1>1, <1>3, <2>1 DEF Led, Won
  <2>3. OneThing' /\ Led'
    BY <1>1, <1>3, <2>1 DEF OneThing, Led
  <2>. QED BY <1>3, <2>1, <2>2, <2>3, OneIsDue DEF Covered
<1>8. CASE Accept
  <2>1. offer # None /\ offer' = None /\ pending' = Settlement(offer) /\ UNCHANGED auction
    BY <1>8 DEF Accept, Enqueue
  <2>2. OneThing' /\ Led'
    BY <1>1, <1>3, <2>1 DEF OneThing, Led
  <2>. QED BY <1>1, <1>3, <2>1, <2>2, SettlementIsDue DEF Covered
<1>9. CASE Counter \/ Reject
  <2>1. offer # None /\ UNCHANGED <<auction, pending, surcharge>>
    BY <1>9 DEF Counter, Reject
  <2>2. OneThing' /\ Led'
    BY <1>1, <1>3, <2>1 DEF OneThing, Led
  <2>. QED BY <1>1, <1>3, <2>1, <2>2, SameIsDue DEF Covered
<1>. QED BY <1>4, <1>5, <1>6, <1>7, <1>8, <1>9 DEF Talk

LEMMA CrashCovers ==
  ASSUME Covered, Safe', Crash
  PROVE  Covered'
<1>1. UNCHANGED <<pending, auction, offer, closing, bankrupt, cash, value, surcharge>>
  BY DEF Crash, SameTurn
<1>2. OneThing' /\ Led' /\ Valued'
  BY <1>1 DEF Covered, OneThing, Led, Valued, Active
<1>. QED BY <1>1, <1>2, SameIsDue DEF Covered

(* An event that is done takes nothing from a bidder or a buyer, because   *)
(* nobody bids meanwhile and he comes first.                               *)
LEMMA DoneCovers ==
  ASSUME Covered, Safe', pending # <<>>, Handled, Valued', AllDue'
  PROVE  Covered'
<1>1. auction = None /\ offer = None /\ closing = None
  BY DEF Covered, OneThing
<1>2. UNCHANGED <<auction, offer, closing>>
  BY DEF Handled, SameTurn
<1>. QED BY <1>1, <1>2 DEF Covered, OneThing, Led

LEMMA MutateCovers ==
  ASSUME Covered, Safe', Mutate
  PROVE  Covered'
<1> DEFINE e == Head(pending)
<1>1. pending # <<>> /\ pending \in Seq(GoodEvents) /\ e = pending[1]
  BY DEF Covered, Safe, Mutate, Buy, PayRent, InvestInShop, RenovateProperty,
     InitForcedBuyout, ForcedBuyout, TransferProperty, TransferCash, AuctionSell, Handling
<1>2. e \in Event_ /\ WellFormed(e) /\ 1 \in 1 .. Len(pending)
  BY <1>1, HeadTailProperties DEF GoodEvents
<1>3. /\ TypeOK /\ value \in [Squares -> Int] /\ cash \in [Players -> Int]
      /\ Base \in [Squares -> Nat] /\ Bonuses \subseteq [Players -> Nat]
  BY SquaresAssumption DEF Covered, Safe, TypeOK
<1> HIDE DEF e
<1>4. CASE Crash
  BY <1>4, CrashCovers
<1>5. CASE Done /\ UNCHANGED value /\ e.type # "PayRent"
  <2>1. AllDue'
    BY <1>1, <1>5, TailIsDue DEF Done, Handled
  <2>. QED BY <1>1, <1>5, <2>1, DoneCovers DEF Covered, Valued, Done
<1>6. CASE (Buy \/ ForcedBuyout \/ TransferProperty \/ TransferCash \/ AuctionSell) /\ ~Crash
  BY <1>5, <1>6
     DEF Buy, ForcedBuyout, TransferProperty, TransferCash, AuctionSell, Handling, Next1, e
<1>7. CASE PayRent
  <2>1. Handled /\ UNCHANGED value /\ e.type = "PayRent" /\ e.amount \in Int
    BY <1>2, <1>7 DEF PayRent, Handling, Next1, e, Event_
  <2>2. PICK closed \in BOOLEAN, percent \in Percents, bonus \in Bonuses :
          LET charge == Charged(e.amount, closed, percent)
              paid == Paid(e.from, e.to, charge) IN
          /\ cash' = [p \in Players |-> paid[p] + IF charge > 0 THEN bonus[p] ELSE 0]
          /\ surcharge' = IF charge > e.amount THEN charge - e.amount ELSE 0
    BY <1>7 DEF PayRent, Next1, e
  <2> DEFINE charge == Charged(e.amount, closed, percent)
  <2>3. charge \in Int
    BY <2>1, ChargedIsGold
  <2>4. /\ surcharge' = IF charge > e.amount THEN charge - e.amount ELSE 0
        /\ cash' = [p \in Players |-> Paid(e.from, e.to, charge)[p]
                                       + IF charge > 0 THEN bonus[p] ELSE 0]
    BY <2>2
  <2> HIDE DEF charge
  <2>5. ASSUME NEW p \in Players, p # e.to, p = e.from
        PROVE  cash'[p] + surcharge' >= cash[p] - e.amount
    <3>1. bonus[p] \in Nat /\ cash[p] \in Int
      BY <1>3
    <3>2. cash'[p] = cash[p] - charge + IF charge > 0 THEN bonus[p] ELSE 0
      BY <2>3, <2>4, <2>5, <3>1 DEF Paid
    <3>. QED BY <2>1, <2>3, <2>4, <3>1, <3>2
  <2>6. AllDue'
    BY <1>1, <2>1, <2>5, TailIsDue DEF Handled
  <2>. QED BY <1>1, <2>1, <2>6, DoneCovers DEF Covered, Valued
<1>8. CASE (InvestInShop \/ RenovateProperty) /\ ~Crash
  <2>1. Done /\ e.type \in {"InvestInShop", "RenovateProperty"} /\ e.square \in Squares
    BY <1>2, <1>8 DEF InvestInShop, RenovateProperty, Handling, Next1, e, WellFormed
  <2>2. \A i \in 1 .. Len(pending') : pending'[i] = pending[i + 1] /\ i + 1 \in 1 .. Len(pending)
    <3>1. pending' = Tail(pending) /\ Len(pending) \in Nat
      BY <1>1, <2>1 DEF Done, Handled
    <3>. QED BY <1>1, <3>1, HeadTailProperties
  <2>3. \A i \in 1 .. Len(pending') : pending'[i].type \notin Special
    BY <1>1, <2>1, <2>2 DEF Covered, AllDue, Due, Special
  <2>4. Valued'
    <3>1. CASE InvestInShop
      <4>1. /\ Room(e.square) \in Int /\ e.amount \in Int
            /\ cash[e.from] \in Int /\ stock[e.from] \in Int
        BY <1>2, <1>3, <2>1, <3>1, RoomIsNumber
           DEF Event_, WellFormed, InvestInShop, Handling, Next1, e, TypeOK
      <4>2. PICK n \in Nat : value' = [value EXCEPT ![e.square] = @ + n]
        BY <1>8, <3>1, <4>1 DEF InvestInShop, Next1, e
      <4>. QED BY <1>3, <2>1, <4>2 DEF Covered, Valued
    <3>2. CASE RenovateProperty
      <4>1. value' = [value EXCEPT ![e.square] = Base[e.square]]
        BY <1>8, <3>2 DEF RenovateProperty, Next1, e
      <4>. QED BY <1>3, <2>1, <4>1 DEF Covered, Valued
    <3>. QED BY <1>8, <3>1, <3>2
  <2>. QED BY <1>1, <2>1, <2>3, <2>4, PlainIsDue, DoneCovers DEF Done
<1>9. CASE InitForcedBuyout
  <2>1. /\ e.type = "InitForcedBuyout"
        /\ UNCHANGED <<cash, value, closing, auction, offer, surcharge>>
        /\ auction = None /\ offer = None /\ closing = None
    BY <1>1, <1>9
       DEF InitForcedBuyout, Handling, Next1, e, SamePlay, SameTurn, Covered, OneThing
  <2>2. OneThing' /\ Led' /\ Valued'
    BY <2>1 DEF OneThing, Led, Covered, Valued
  <2>3. cash[e.to] + surcharge >= 5 * value[e.square]
    BY <1>1, <1>2, <2>1 DEF Covered, AllDue, Due
  <2>4. CASE pending' = Tail(pending)
    <3>1. AllDue'
      BY <1>1, <2>1, <2>4, TailIsDue
    <3>. QED BY <2>2, <3>1 DEF Covered
  <2>5. CASE pending' = <<Event("ForcedBuyout", None, e.to, e.square, 0)>> \o Tail(pending)
    <3> DEFINE t == Tail(pending)
               f == Event("ForcedBuyout", None, e.to, e.square, 0)
    <3>1. /\ t \in Seq(GoodEvents) /\ Len(t) = Len(pending) - 1
          /\ \A i \in 1 .. Len(t) : t[i] = pending[i + 1] /\ i + 1 \in 1 .. Len(pending)
      BY <1>1, HeadTailProperties
    <3>2. \A i \in 1 .. Len(t) : t[i].type \notin Special
      BY <1>1, <2>1, <3>1 DEF Covered, AllDue, Due, Special
    <3>3. /\ Len(pending') = 1 + Len(t) /\ pending'[1] = f
          /\ \A i \in 2 .. Len(pending') : pending'[i] = t[i - 1] /\ i - 1 \in 1 .. Len(t)
      BY <2>5, <3>1
    <3>4. ASSUME NEW i \in 1 .. Len(pending') PROVE Due(i)'
      <4>1. CASE i = 1
        BY <2>1, <2>3, <3>3, <4>1 DEF Due, Event
      <4>2. CASE i # 1
        <5>1. i \in 2 .. Len(pending')
          BY <3>1, <3>3, <4>2
        <5>2. pending'[i].type \notin Special
          BY <3>2, <3>3, <5>1
        <5>. QED BY <5>2 DEF Due, Special
      <4>. QED BY <4>1, <4>2
    <3>. QED BY <2>2, <3>4 DEF Covered, AllDue
  <2>. QED BY <1>9, <2>4, <2>5 DEF InitForcedBuyout, Next1, e
<1>. QED BY <1>4, <1>6, <1>7, <1>8, <1>9 DEF Mutate

(* A turn that is being closed is not a turn that goes on.                 *)
LEMMA SomeEnd == None # <<>>
<1>1. <<>> \in Seq(Squares)
  OBVIOUS
<1>. QED BY <1>1, NoneAssumption

LEMMA FinishCovers ==
  ASSUME Covered, Safe', Finish
  PROVE  Covered'
<1>1. Safe /\ OneThing /\ Led /\ AllDue /\ Valued
  BY DEF Covered
<1>2. /\ cash \in [Players -> Int] /\ bankrupt \in [Players -> BOOLEAN]
  BY <1>1 DEF Safe, TypeOK
<1>3. ASSUME auction' = None \/ (auction' = Auction(turn, Head(closing)) /\ UNCHANGED bankrupt),
             pending = <<>>, offer = None, UNCHANGED <<pending, offer, value>>
      PROVE  Covered'
  <2>1. AllDue'
    BY <1>3, PlainIsDue
  <2>. QED BY <1>1, <1>3, <2>1 DEF Covered, OneThing, Led, Auction, Valued, Active
<1>4. CASE EndTurn
  BY <1>1, <1>3, <1>4 DEF EndTurn, Idle, NoTalk
<1>5. CASE (SellShopToBank \/ SellStock) /\ ~Crash
  <2>1. /\ Selling /\ UNCHANGED <<auction, pending, offer, value>>
    BY <1>5 DEF SellShopToBank, SellStock, SameDeal, NoTalk
  <2>. QED BY <1>1, <1>3, <2>1 DEF Selling, OneThing
<1>6. CASE AuctionSold \/ (LiquidationAuctionSell /\ ~Crash)
  BY <1>1, <1>3, <1>6 DEF AuctionSold, LiquidationAuctionSell, OneThing
<1>7. CASE CloseTurn
  BY <1>1, <1>3, <1>7, SomeEnd DEF CloseTurn, NoTalk, OneThing
<1>8. CASE Crash
  BY <1>8, CrashCovers
<1>. QED BY <1>4, <1>5, <1>6, <1>7, <1>8 DEF Finish

LEMMA StepCovers == Covered /\ Safe' /\ [Next]_vars => Covered'
<1>1. ASSUME Covered, Safe', Start PROVE Covered'
  <2>1. CASE \E s \in Squares : Land(turn, s)
    BY <1>1, <2>1, LandCovers
  <2>2. CASE \/ \E s \in Squares : StartAuction(turn, s)
             \/ \E q \in Players : Negotiate(turn, q)
    BY <1>1, <2>2, TalkCovers
  <2>. QED BY <1>1, <2>1, <2>2 DEF Start
<1>2. ASSUME Covered, Safe', UNCHANGED vars PROVE Covered'
  BY <1>2, SameIsDue DEF vars, Covered, OneThing, Led, Valued, Active
<1>. QED BY <1>1, <1>2, TalkCovers, MutateCovers, FinishCovers DEF Next

LEMMA CoveredInvariant == Spec => []Covered
BY CoveredInit, StepCovers, SafeInvariant, PTL DEF Spec

(* The winner of an auction is another active player who has the cash he   *)
(* bid at the moment he pays, whatever happened since he bid.              *)
THEOREM BidsBacked == Spec => []AuctionSound
<1>1. ASSUME Covered PROVE AuctionSound
  <2>1. CASE pending # <<>>
    <3>1. pending \in Seq(GoodEvents) /\ Head(pending) = pending[1] /\ 1 \in 1 .. Len(pending)
      BY <1>1, <2>1 DEF Covered, Safe
    <3>2. WellFormed(pending[1]) /\ Due(1)
      BY <1>1, <3>1, ElementOfSeq DEF Covered, AllDue, GoodEvents
    <3>. QED BY <3>1, <3>2 DEF AuctionSound, Due, Won, WellFormed
  <2>2. CASE pending = <<>>
    BY <2>2 DEF AuctionSound
  <2>. QED BY <2>1, <2>2
<1>. QED BY <1>1, CoveredInvariant, PTL

(* The step that carries out a forced buyout.                              *)
LEMMA BuyoutStep ==
  ASSUME Covered, Next, pending # <<>>, Head(pending).type = "ForcedBuyout", ~crashed'
  PROVE  cash'[Head(pending).to] >= -surcharge
<1> DEFINE e == Head(pending)
<1>1. e = pending[1] /\ e \in GoodEvents /\ 1 \in 1 .. Len(pending)
  BY DEF Covered, Safe
<1>2. /\ e.to \in Players /\ e.square \in Squares
      /\ cash[e.to] + surcharge >= 5 * value[e.square]
  BY <1>1 DEF Covered, AllDue, Due, GoodEvents, WellFormed
<1>3. ForcedBuyout
  <2>1. auction = None /\ offer = None /\ closing = None /\ ~Idle
    BY DEF Covered, OneThing, Idle
  <2>2. ~Start /\ ~Talk /\ ~Finish
    BY <2>1, SomeEnd DEF Start, Talk, Finish, Land, LandUnownedShop, LandVacantPlot, LandOwnShop,
       LandOwnPlot, LandOthersShop, Landing, StartAuction, Negotiate, Dealing, Begin, Bid,
       EndAuction, Accept, Counter, Reject, EndTurn, SellShopToBank, SellStock, Selling,
       AuctionSold, LiquidationAuctionSell, CloseTurn
  <2>. QED BY <2>2 DEF Next, Mutate, Buy, PayRent, InvestInShop, RenovateProperty,
       InitForcedBuyout, TransferProperty, TransferCash, AuctionSell, Handling, Next1
<1> HIDE DEF e
<1>4. /\ cash \in [Players -> Int] /\ value[e.square] \in Int /\ surcharge \in Nat
      /\ owner[e.square] \in Players \cup {None}
  BY <1>2 DEF Covered, Safe, TypeOK
<1>5. /\ owner[e.square] \in Players \ {e.to}
      /\ cash' = [cash EXCEPT ![e.to] = @ - 5 * value[e.square],
                              ![owner[e.square]] = @ + 3 * value[e.square]]
  BY <1>3, <1>4 DEF ForcedBuyout, Next1, e, Crash
<1>6. cash'[e.to] = cash[e.to] - 5 * value[e.square]
  BY <1>2, <1>4, <1>5
<1>. QED BY <1>2, <1>4, <1>6 DEF e

(* A forced buyout takes the buyer no further below zero than a price hike *)
(* raised the rent he paid just before, and without one not at all,        *)
(* although it was decided before he paid and not looked at again.         *)
THEOREM BuyoutsBacked == Spec => BuyoutAffordable
<1>1. Covered /\ [Next]_vars =>
        [pending # <<>> /\ Head(pending).type = "ForcedBuyout" /\ ~crashed' =>
           cash'[Head(pending).to] >= -surcharge]_vars
  BY BuyoutStep
<1>. QED BY <1>1, CoveredInvariant, PTL DEF Spec, BuyoutAffordable

-----------------------------------------------------------------------------
(***************************************************************************)
(* Sums.  The worth of a player's estate and the gold of a settlement are  *)
(* sums over a set, of which only one term, or none, is not zero where it  *)
(* matters.  What the recursive function of such a sum is can be written   *)
(* down, and no other function satisfies the same equation.                *)
(***************************************************************************)
Summed(term, S, f) ==
  f = [s \in SUBSET S |->
         IF s = {} THEN 0
         ELSE term[CHOOSE x \in s : TRUE] + f[s \ {CHOOSE x \in s : TRUE}]]

(* The equation of a sum has one solution: where two differ on a smallest  *)
(* set, they differ on a smaller one.                                      *)
LEMMA OneSolution ==
  ASSUME NEW S, IsFiniteSet(S), NEW term, NEW f, NEW g, Summed(term, S, f), Summed(term, S, g)
  PROVE  f[S] = g[S]
<1> DEFINE Differ == {s \in SUBSET S : f[s] # g[s]}
           Sizes == {Cardinality(s) : s \in Differ}
<1>1. \A s \in SUBSET S : IsFiniteSet(s) /\ Cardinality(s) \in Nat
  BY FS_Subset, FS_CardinalityType
<1>2. ASSUME Differ # {} PROVE FALSE
  <2>1. Sizes \subseteq Nat /\ Sizes # {}
    BY <1>1, <1>2
  <2>2. PICK n \in Sizes : \A m \in Sizes : <<m, n>> \notin OpToRel(<, Nat)
    <3> HIDE DEF Sizes
    <3>. QED BY <2>1, NatLessThanWellFounded, WFMin
  <2>3. \A m \in Sizes : ~(m < n)
    BY <2>1, <2>2 DEF OpToRel
  <2>4. PICK s \in Differ : n = Cardinality(s)
    BY <2>2
  <2> DEFINE x == CHOOSE y \in s : TRUE
             rest == s \ {x}
  <2>5. s # {}
    BY <2>4 DEF Summed
  <2>6. x \in s /\ rest \in SUBSET S
    BY <2>5
  <2>7. Cardinality(rest) = n - 1 /\ n \in Nat
    BY <1>1, <2>4, <2>6, FS_RemoveElement
  <2>8. f[rest] = g[rest]
    <3>1. rest \in Differ => Cardinality(rest) \in Sizes
      OBVIOUS
    <3>. QED BY <2>3, <2>6, <2>7, <3>1
  <2>9. f[s] = term[x] + f[rest] /\ g[s] = term[x] + g[rest]
    BY <2>5 DEF Summed
  <2>. QED BY <2>4, <2>8, <2>9
<1>. QED BY <1>2

(* Of the terms, at most that of k is not zero. *)
OnlyAt(term, S, k, v) ==
  /\ v \in Int /\ (k \in S \/ v = 0)
  /\ \A x \in S : term[x] = IF x = k THEN v ELSE 0

LEMMA OneTerm ==
  ASSUME NEW S, NEW term, NEW k, NEW v, OnlyAt(term, S, k, v)
  PROVE  \E f : Summed(term, S, f) /\ f[S] = v
<1> DEFINE f == [s \in SUBSET S |-> IF k \in s THEN v ELSE 0]
<1>1. ASSUME NEW s \in SUBSET S, s # {}
      PROVE  f[s] = term[CHOOSE x \in s : TRUE] + f[s \ {CHOOSE x \in s : TRUE}]
  <2> DEFINE x == CHOOSE y \in s : TRUE
  <2>1. x \in s
    BY <1>1
  <2> HIDE DEF x
  <2>2. s \ {x} \in SUBSET S /\ x \in S
    BY <2>1
  <2>3. f[s \ {x}] = IF k \in s /\ k # x THEN v ELSE 0
    BY <2>2
  <2>4. term[x] = IF x = k THEN v ELSE 0
    BY <2>2 DEF OnlyAt
  <2>5. v \in Int /\ f[s] = IF k \in s THEN v ELSE 0
    BY DEF OnlyAt
  <2>6. f[s] = term[x] + f[s \ {x}]
    <3> HIDE DEF f
    <3>1. CASE x = k
      BY <2>1, <2>3, <2>4, <2>5, <3>1
    <3>2. CASE x # k
      BY <2>3, <2>4, <2>5, <3>2
    <3>. QED BY <3>1, <3>2
  <2>. QED BY <2>6 DEF x
<1>2. f[{}] = 0 /\ f[S] = v
  BY DEF OnlyAt
<1>3. Summed(term, S, f)
  BY <1>1, <1>2 DEF Summed
<1>. QED BY <1>2, <1>3

(* A player with no property is worth his cash and his stock. *)
LEMMA PropertyLess ==
  ASSUME TypeOK, NEW p \in Players, \A s \in Squares : held[p][s] = 0
  PROVE  NetWorth(p) = cash[p] + stock[p]
<1> DEFINE term == [s \in Squares |-> held[p][s] * value[s]]
           Is(f) == f = [s \in SUBSET Squares |->
                           IF s = {} THEN 0
                           ELSE held[p][CHOOSE x \in s : TRUE] * value[CHOOSE x \in s : TRUE]
                                + f[s \ {CHOOSE x \in s : TRUE}]]
<1>1. NetWorth(p) = cash[p] + stock[p] + (CHOOSE f : Is(f))[Squares]
  BY DEF NetWorth, MapThenSumSet, MapThenFoldSet
<1>2. \A s \in Squares : term[s] = 0
  BY DEF TypeOK
<1>3. ASSUME NEW f PROVE Is(f) <=> Summed(term, Squares, f)
  <2>1. \A s \in SUBSET Squares : s # {} =>
          term[CHOOSE x \in s : TRUE]
            = held[p][CHOOSE x \in s : TRUE] * value[CHOOSE x \in s : TRUE]
    OBVIOUS
  <2>. QED BY <2>1 DEF Summed
<1> HIDE DEF term, Is
<1>4. IsFiniteSet(Squares)
  BY SquaresAssumption
<1>5. PICK f : Summed(term, Squares, f) /\ f[Squares] = 0
  <2>1. OnlyAt(term, Squares, None, 0)
    BY <1>2 DEF OnlyAt
  <2>. QED BY <2>1, OneTerm
<1>6. Is(CHOOSE g : Is(g))
  BY <1>3, <1>5
<1>7. (CHOOSE g : Is(g))[Squares] = 0
  BY <1>3, <1>4, <1>5, <1>6, OneSolution
<1>. QED BY <1>1, <1>7 DEF TypeOK

-----------------------------------------------------------------------------
(* Only the last step of a turn ends it: the sales and auctions before it  *)
(* keep or change the list of squares sold.                                *)
LEMMA OnlyCloseEnds ==
  ASSUME Safe, Next, closing # None, closing' = None
  PROVE  CloseTurn
<1>1. closing \in Seq(Squares)
  BY DEF Safe, TypeOK
<1>2. CASE Start \/ Talk
  BY <1>2 DEF Start, Land, LandUnownedShop, LandVacantPlot, LandOwnShop, LandOwnPlot,
     LandOthersShop, Landing, StartAuction, Negotiate, Dealing, Begin, Talk, Bid, EndAuction,
     Accept, Counter, Reject, SamePlay, SameTurn
<1>3. CASE Mutate
  BY <1>3 DEF Mutate, Buy, PayRent, InvestInShop, RenovateProperty, InitForcedBuyout,
     ForcedBuyout, TransferProperty, TransferCash, AuctionSell, Done, Handled, Crash, SamePlay,
     SameTurn
<1>4. CASE EndTurn
  BY <1>4 DEF EndTurn
<1>5. CASE SellShopToBank
  <2>1. PICK s \in Squares :
          IF owner[s] # turn THEN Crash ELSE closing' = Append(closing, s)
    BY <1>5 DEF SellShopToBank
  <2>2. Append(closing, s) \in Seq(Squares)
    BY <1>1
  <2>. QED BY <2>1, <2>2, NoneAssumption DEF Crash, SameTurn
<1>6. CASE SellStock \/ LiquidationAuctionSell
  BY <1>6 DEF SellStock, LiquidationAuctionSell, Crash, SameTurn
<1>7. CASE AuctionSold
  <2>1. closing # <<>> /\ closing' = Tail(closing)
    BY <1>7 DEF AuctionSold
  <2>2. Tail(closing) \in Seq(Squares)
    BY <1>1, <2>1
  <2>. QED BY <2>1, <2>2, NoneAssumption
<1>. QED BY <1>2, <1>3, <1>4, <1>5, <1>6, <1>7 DEF Next, Finish

(* Who still owes when nothing is left to sell is worth his debt, and out. *)
LEMMA CloseSettles ==
  ASSUME Safe, CloseTurn
  PROVE  cash'[turn] >= 0 \/ bankrupt'[turn]
<1>1. /\ TypeOK /\ OneRecord /\ turn \in Players /\ cash \in [Players -> Int]
      /\ stock \in [Players -> Nat] /\ bankrupt \in [Players -> BOOLEAN]
      /\ held \in [Players -> [Squares -> Int]]
  BY DEF Safe, TypeOK
<1>2. CASE NetWorth(turn) < 0
  BY <1>1, <1>2 DEF CloseTurn
<1>3. CASE ~(NetWorth(turn) < 0)
  <2>1. cash' = cash
    BY <1>3 DEF CloseTurn
  <2>2. ASSUME cash[turn] < 0 PROVE FALSE
    <3>1. stock[turn] = 0 /\ \A s \in Squares : ~Holds(turn, s)
      BY <2>2, SomeEnd DEF CloseTurn, Selling
    <3>2. \A s \in Squares : held[turn][s] = 0
      BY <1>1, <3>1 DEF Holds, OneRecord
    <3>3. NetWorth(turn) = cash[turn] + stock[turn]
      BY <1>1, <3>2, PropertyLess
    <3>. QED BY <1>1, <1>3, <2>2, <3>1, <3>3
  <2>3. cash[turn] \in Int
    BY <1>1
  <2>. QED BY <2>1, <2>2, <2>3
<1>. QED BY <1>2, <1>3

(* Nobody's turn ends in debt: forced liquidation has brought the player's *)
(* cash back to zero or more, or it has sold everything and he is out.     *)
THEOREM DebtsSettled == Spec => SolventOrOut
<1>1. Safe /\ [Next]_vars =>
        [closing # None /\ closing' = None => cash'[turn] >= 0 \/ bankrupt'[turn]]_vars
  BY OnlyCloseEnds, CloseSettles
<1>. QED BY <1>1, SafeInvariant, PTL DEF Spec, SolventOrOut

-----------------------------------------------------------------------------
(***************************************************************************)
(* What is carried out is what was agreed: the events of a settlement move *)
(* the gold and the squares of the terms, and the terms on the table are   *)
(* those of the player who named them last.                                *)
(***************************************************************************)
(* The gold that event e moves away from player p. *)
GoldOf(p, e) ==
  IF e.from = p THEN (IF e.type = "TransferProperty" THEN -e.amount ELSE e.amount)
  ELSE (IF e.type = "TransferProperty" THEN e.amount ELSE -e.amount)

(* A free transfer moves no gold either way. *)
LEMMA MinusZero == -0 = 0
<1>1. \A x \in Int : x <= 0 /\ x >= 0 => x = 0
  OBVIOUS
<1>2. -0 \in Int /\ -0 <= 0 /\ -0 >= 0
  OBVIOUS
<1>. QED BY <1>1, <1>2, Zenon

(* Of the events, at most the one at k moves gold. *)
MovesAt(p, es, k, v) ==
  /\ v \in Int /\ (k \in DOMAIN es \/ v = 0)
  /\ \A i \in DOMAIN es : GoldOf(p, es[i]) = IF i = k THEN v ELSE 0

LEMMA NetGoldIsOneTerm ==
  ASSUME NEW p, NEW q, NEW es, NEW n \in Nat, DOMAIN es = 1 .. n,
         NEW k, NEW v, MovesAt(p, es, k, v)
  PROVE  NetGold(p, q, es) = v
<1> DEFINE S == 1 .. n
           term == [i \in S |-> GoldOf(p, es[i])]
           Is(f) == f = [s \in SUBSET S |->
                           IF s = {} THEN 0
                           ELSE GoldOf(p, es[CHOOSE x \in s : TRUE])
                                + f[s \ {CHOOSE x \in s : TRUE}]]
<1>1. NetGold(p, q, es) = (CHOOSE f : Is(f))[S]
  BY DEF NetGold, MapThenSumSet, MapThenFoldSet, GoldOf
<1>2. OnlyAt(term, S, k, v)
  BY DEF OnlyAt, MovesAt
<1>3. ASSUME NEW f PROVE Is(f) <=> Summed(term, S, f)
  <2>1. \A s \in SUBSET S : s # {} =>
          term[CHOOSE x \in s : TRUE] = GoldOf(p, es[CHOOSE x \in s : TRUE])
    OBVIOUS
  <2>. QED BY <2>1 DEF Summed
<1>4. IsFiniteSet(S)
  BY FS_Interval
<1> HIDE DEF S, term, Is
<1>5. PICK f : Summed(term, S, f) /\ f[S] = v
  BY <1>2, OneTerm
<1>6. Is(CHOOSE g : Is(g))
  BY <1>3, <1>5
<1>7. (CHOOSE g : Is(g))[S] = v
  BY <1>3, <1>4, <1>5, <1>6, OneSolution
<1>. QED BY <1>1, <1>7

(* The settlement of a buy or sell is one transfer at the price.           *)
LEMMA SaleAsTerms ==
  ASSUME NEW o \in OfferType, o.proposer # o.target, o.kind = "shop",
         Len(o.terms.give) + Len(o.terms.get) = 1
  PROVE  /\ NetGold(o.proposer, o.target, Settlement(o)) = o.terms.gold
         /\ Passed(o.proposer, Settlement(o)) = Range_(o.terms.give)
         /\ Passed(o.target, Settlement(o)) = Range_(o.terms.get)
<1> DEFINE p == o.proposer  q == o.target  give == o.terms.give  get == o.terms.get
           gold == o.terms.gold
<1>1. /\ p # q /\ gold \in Int /\ give \in Seq(Squares) /\ get \in Seq(Squares)
      /\ Len(give) + Len(get) = 1
  BY DEF OfferType, TermsType
<1>2. Settlement(o) = IF give = <<>> THEN <<Event("TransferProperty", q, p, get[1], gold)>>
                      ELSE <<Event("TransferProperty", p, q, give[1], -gold)>>
  BY DEF Settlement
<1> HIDE DEF p, q, give, get, gold
<1>3. ASSUME NEW e, Settlement(o) = <<e>>, GoldOf(p, e) = gold, e.type = "TransferProperty"
      PROVE  /\ NetGold(p, q, Settlement(o)) = gold
             /\ Passed(p, Settlement(o)) = IF e.from = p THEN {e.square} ELSE {}
             /\ Passed(q, Settlement(o)) = IF e.from = q THEN {e.square} ELSE {}
  <2>1. DOMAIN <<e>> = 1 .. 1 /\ <<e>>[1] = e
    OBVIOUS
  <2>2. NetGold(p, q, <<e>>) = gold
    <3>1. MovesAt(p, <<e>>, 1, gold)
      BY <1>1, <1>3, <2>1 DEF MovesAt
    <3>2. DOMAIN <<e>> = 1 .. 1 /\ 1 \in Nat
      BY <2>1
    <3>. QED BY <3>1, <3>2, NetGoldIsOneTerm
  <2>. QED BY <1>3, <2>1, <2>2 DEF Passed
<1>4. CASE give = <<>>
  <2>1. Len(get) = 1 /\ DOMAIN get = 1 .. 1 /\ DOMAIN give = {}
    BY <1>1, <1>4
  <2>2. Range_(give) = {} /\ Range_(get) = {get[1]}
    BY <2>1 DEF Range_
  <2> DEFINE e == Event("TransferProperty", q, p, get[1], gold)
  <2>3. Settlement(o) = <<e>> /\ e.from = q /\ e.square = get[1] /\ e.type = "TransferProperty"
    BY <1>2, <1>4 DEF Event
  <2>4. GoldOf(p, e) = gold
    BY <1>1 DEF GoldOf, Event
  <2> HIDE DEF e
  <2>. QED BY <1>1, <1>3, <2>2, <2>3, <2>4 DEF p, q, give, get, gold
<1>5. CASE give # <<>>
  <2>1. Len(give) = 1 /\ DOMAIN give = 1 .. 1 /\ DOMAIN get = {}
    <3>1. Len(give) \in Nat /\ Len(get) \in Nat
      BY <1>1
    <3>2. Len(give) # 0
      BY <1>1, <1>5, EmptySeq
    <3>3. PICK a \in Nat, b \in Nat : a = Len(give) /\ b = Len(get)
      BY <3>1
    <3>4. a + b = 1 /\ a # 0
      BY <1>1, <3>2, <3>3
    <3>5. a = 1 /\ b = 0
      BY <3>4
    <3>6. Len(give) = 1 /\ Len(get) = 0
      BY <3>3, <3>5
    <3>7. DOMAIN give = 1 .. Len(give) /\ DOMAIN get = 1 .. Len(get)
      BY <1>1
    <3>8. 1 .. 0 = {}
      OBVIOUS
    <3>. QED BY <3>6, <3>7, <3>8
  <2>2. Range_(give) = {give[1]} /\ Range_(get) = {}
    BY <2>1 DEF Range_
  <2> DEFINE e == Event("TransferProperty", p, q, give[1], -gold)
  <2>3. Settlement(o) = <<e>> /\ e.from = p /\ e.square = give[1] /\ e.type = "TransferProperty"
    BY <1>2, <1>5 DEF Event
  <2>4. GoldOf(p, e) = gold
    BY <1>1 DEF GoldOf, Event
  <2> HIDE DEF e
  <2>. QED BY <1>1, <1>3, <2>2, <2>3, <2>4 DEF p, q, give, get, gold
<1>. QED BY <1>4, <1>5

(* The elements of three sequences joined. *)
LEMMA ThreeParts ==
  ASSUME NEW S, NEW f \in Seq(S), NEW g \in Seq(S), NEW h \in Seq(S),
         NEW l \in Nat, NEW m \in Nat, NEW n \in Nat, l = Len(f), m = Len(g), n = Len(h)
  PROVE  LET es == f \o g \o h IN
         /\ DOMAIN es = 1 .. (l + m + n)
         /\ \A i \in 1 .. l : es[i] = f[i]
         /\ \A i \in 1 .. m : es[l + i] = g[i]
         /\ \A i \in 1 .. n : es[l + m + i] = h[i]
<1> DEFINE fg == f \o g  es == fg \o h
<1>1. /\ fg \in Seq(S) /\ Len(fg) = l + m
      /\ \A i \in 1 .. l + m : fg[i] = IF i <= l THEN f[i] ELSE g[i - l]
  BY ConcatProperties
<1> HIDE DEF fg
<1>2. /\ es \in Seq(S) /\ Len(es) = l + m + n
      /\ \A i \in 1 .. l + m + n : es[i] = IF i <= l + m THEN fg[i] ELSE h[i - (l + m)]
  <2>1. /\ es \in Seq(S) /\ Len(es) = Len(fg) + Len(h)
        /\ \A i \in 1 .. Len(fg) + Len(h) :
             es[i] = IF i <= Len(fg) THEN fg[i] ELSE h[i - Len(fg)]
    <3>1. fg \in Seq(S) /\ h \in Seq(S)
      BY <1>1
    <3>. QED BY <3>1, ConcatProperties
  <2> HIDE DEF es
  <2>2. Len(fg) = l + m /\ Len(h) = n /\ Len(fg) + Len(h) = l + m + n
    BY <1>1
  <2>. QED BY <2>1, <2>2
<1> HIDE DEF es
<1>3. DOMAIN es = 1 .. (l + m + n)
  BY <1>2
<1>4. ASSUME NEW i \in 1 .. l PROVE es[i] = f[i]
  BY <1>1, <1>2
<1>5. ASSUME NEW i \in 1 .. m PROVE es[l + i] = g[i]
  <2>1. l + i \in 1 .. l + m /\ l + i \in 1 .. l + m + n /\ ~(l + i <= l) /\ (l + i) - l = i
    OBVIOUS
  <2>. QED BY <1>1, <1>2, <2>1
<1>6. ASSUME NEW i \in 1 .. n PROVE es[l + m + i] = h[i]
  <2>1. /\ l + m + i \in 1 .. l + m + n /\ ~(l + m + i <= l + m)
        /\ (l + m + i) - (l + m) = i
    OBVIOUS
  <2>. QED BY <1>2, <2>1
<1>. QED BY <1>3, <1>4, <1>5, <1>6 DEF es, fg

(* The transfers of a list of squares. *)
LEMMA TransfersOfList ==
  ASSUME NEW from \in Players, NEW to \in Players, NEW list \in Seq(Squares)
  PROVE  /\ Transfers(from, to, list) \in Seq(Event_)
         /\ Len(Transfers(from, to, list)) = Len(list)
         /\ \A i \in 1 .. Len(list) :
              Transfers(from, to, list)[i] = Event("TransferProperty", from, to, list[i], 0)
<1> DEFINE e(i) == Event("TransferProperty", from, to, list[i], 0)
<1>1. DOMAIN list = 1 .. Len(list) /\ Len(list) \in Nat
  OBVIOUS
<1>2. Transfers(from, to, list) = [i \in 1 .. Len(list) |-> e(i)]
  BY <1>1 DEF Transfers
<1>3. \A i \in 1 .. Len(list) : e(i) \in Event_
  BY ElementOfSeq DEF Event, Event_
<1> HIDE DEF e
<1>4. [i \in 1 .. Len(list) |-> e(i)] \in Seq(Event_)
  BY <1>1, <1>3, IsASeq
<1>5. Len([i \in 1 .. Len(list) |-> e(i)]) = Len(list)
  BY <1>1
<1>. QED BY <1>2, <1>4, <1>5 DEF e

(* The gold of a trade is one event, or none when none is due. *)
LEMMA CoinsOfGold ==
  ASSUME NEW p \in Players, NEW q \in Players, p # q, NEW gold \in Int
  PROVE  /\ Gold(p, q, gold) \in Seq(Event_)
         /\ Len(Gold(p, q, gold)) = IF gold = 0 THEN 0 ELSE 1
         /\ gold # 0 => /\ GoldOf(p, Gold(p, q, gold)[1]) = gold
                        /\ Gold(p, q, gold)[1].type = "TransferCash"
<1> DEFINE e == Event("TransferCash", p, q, None, gold)
           f == Event("TransferCash", q, p, None, -gold)
<1>1. e \in Event_ /\ e.type = "TransferCash" /\ GoldOf(p, e) = gold
  BY DEF Event, Event_, GoldOf
<1>2. f \in Event_ /\ f.type = "TransferCash" /\ GoldOf(p, f) = gold
  <2>1. -gold \in Int /\ -(-gold) = gold
    OBVIOUS
  <2>. QED BY <2>1 DEF Event, Event_, GoldOf
<1>3. Gold(p, q, gold) = IF gold > 0 THEN <<e>> ELSE IF gold < 0 THEN <<f>> ELSE <<>>
  BY DEF Gold
<1> HIDE DEF e, f
<1>4. CASE gold > 0
  BY <1>1, <1>3, <1>4
<1>5. CASE gold < 0
  BY <1>2, <1>3, <1>5
<1>6. CASE gold = 0
  BY <1>3, <1>6
<1>. QED BY <1>4, <1>5, <1>6

(* The settlement of a trade: the squares each gives, then the gold.       *)
LEMMA TradeAsTerms ==
  ASSUME NEW o \in OfferType, o.proposer # o.target, o.kind = "trade"
  PROVE  /\ NetGold(o.proposer, o.target, Settlement(o)) = o.terms.gold
         /\ Passed(o.proposer, Settlement(o)) = Range_(o.terms.give)
         /\ Passed(o.target, Settlement(o)) = Range_(o.terms.get)
<1> DEFINE p == o.proposer  q == o.target  give == o.terms.give  get == o.terms.get
           gold == o.terms.gold  es == Settlement(o)
           Given(i) == Event("TransferProperty", p, q, give[i], 0)
           Got(i) == Event("TransferProperty", q, p, get[i], 0)
           coins == Gold(p, q, gold)
<1>1. /\ p \in Players /\ q \in Players /\ p # q /\ gold \in Int
      /\ give \in Seq(Squares) /\ get \in Seq(Squares)
  BY DEF OfferType, TermsType
<1>2. es = Transfers(p, q, give) \o Transfers(q, p, get) \o coins
  BY DEF Settlement
<1> HIDE DEF p, q, give, get, gold, es
<1>3. /\ coins \in Seq(Event_) /\ Len(coins) = IF gold = 0 THEN 0 ELSE 1
      /\ gold # 0 => GoldOf(p, coins[1]) = gold /\ coins[1].type = "TransferCash"
  BY <1>1, CoinsOfGold
<1> HIDE DEF coins
<1>4. PICK l \in Nat, m \in Nat, n \in Nat : l = Len(give) /\ m = Len(get) /\ n = Len(coins)
  BY <1>1, <1>3
<1>5. n = IF gold = 0 THEN 0 ELSE 1
  BY <1>3, <1>4
<1>6. /\ DOMAIN es = 1 .. (l + m + n)
      /\ \A i \in 1 .. l : es[i] = Given(i)
      /\ \A i \in 1 .. m : es[l + i] = Got(i)
      /\ \A i \in 1 .. n : es[l + m + i] = coins[1]
  <2> DEFINE f == Transfers(p, q, give)  g == Transfers(q, p, get)
  <2>1. f \in Seq(Event_) /\ l = Len(f) /\ \A i \in 1 .. l : f[i] = Given(i)
    BY <1>1, <1>4, TransfersOfList
  <2>2. g \in Seq(Event_) /\ m = Len(g) /\ \A i \in 1 .. m : g[i] = Got(i)
    BY <1>1, <1>4, TransfersOfList
  <2> HIDE DEF f, g, Given, Got
  <2>3. es = f \o g \o coins
    BY <1>2 DEF f, g
  <2>4. \A i \in 1 .. n : i = 1
    BY <1>5
  <2>5. /\ DOMAIN es = 1 .. (l + m + n)
        /\ \A i \in 1 .. l : es[i] = f[i]
        /\ \A i \in 1 .. m : es[l + i] = g[i]
        /\ \A i \in 1 .. n : es[l + m + i] = coins[i]
    <3>1. coins \in Seq(Event_) /\ n = Len(coins)
      BY <1>3, <1>4
    <3>2. f \in Seq(Event_) /\ l = Len(f) /\ g \in Seq(Event_) /\ m = Len(g)
      BY <2>1, <2>2
    <3>3. LET fgh == f \o g \o coins IN
          /\ DOMAIN fgh = 1 .. (l + m + n)
          /\ \A i \in 1 .. l : fgh[i] = f[i]
          /\ \A i \in 1 .. m : fgh[l + i] = g[i]
          /\ \A i \in 1 .. n : fgh[l + m + i] = coins[i]
      BY <3>1, <3>2, ThreeParts
    <3>. QED BY <2>3, <3>3
  <2>. QED BY <2>1, <2>2, <2>4, <2>5
<1>7. ASSUME NEW i \in DOMAIN es
      PROVE  \/ i \in 1 .. l /\ es[i] = Given(i)
             \/ i - l \in 1 .. m /\ es[i] = Got(i - l)
             \/ i = l + m + 1 /\ n = 1 /\ es[i] = coins[1]
  <2> HIDE DEF Given, Got
  <2>1. i \in 1 .. (l + m + n) /\ n \in {0, 1}
    BY <1>5, <1>6
  <2>2. CASE i <= l
    BY <1>6, <2>1, <2>2
  <2>3. CASE i > l /\ i <= l + m
    <3>1. i - l \in 1 .. m /\ l + (i - l) = i
      BY <2>1, <2>3
    <3>2. es[l + (i - l)] = Got(i - l)
      BY <1>6, <3>1
    <3>. QED BY <3>1, <3>2
  <2>4. CASE i > l + m
    <3>1. n = 1 /\ i = l + m + 1 /\ 1 \in 1 .. n
      BY <2>1, <2>4
    <3>. QED BY <1>6, <3>1
  <2>. QED BY <2>1, <2>2, <2>3, <2>4
<1>8. NetGold(p, q, es) = gold
  <2>1. ASSUME NEW i \in DOMAIN es
        PROVE  GoldOf(p, es[i]) = IF i = l + m + 1 THEN gold ELSE 0
    <3>1. CASE i \in 1 .. l /\ es[i] = Given(i)
      <4>1. i # l + m + 1
        BY <3>1
      <4>2. GoldOf(p, Given(i)) = 0
        <5>1. Given(i).type = "TransferProperty" /\ Given(i).amount = 0
          BY DEF Event
        <5> HIDE DEF Given, Got
        <5>. QED BY <5>1, MinusZero, Zenon DEF GoldOf
      <4>. QED BY <3>1, <4>1, <4>2
    <3>2. CASE i - l \in 1 .. m /\ es[i] = Got(i - l)
      <4>1. i # l + m + 1
        <5>1. i \in Int
          BY <1>6
        <5>. QED BY <3>2, <5>1
      <4>2. GoldOf(p, Got(i - l)) = 0
        <5>1. Got(i - l).type = "TransferProperty" /\ Got(i - l).amount = 0
          BY DEF Event
        <5> HIDE DEF Given, Got
        <5>. QED BY <5>1, MinusZero, Zenon DEF GoldOf
      <4>. QED BY <3>2, <4>1, <4>2
    <3>3. CASE i = l + m + 1 /\ n = 1 /\ es[i] = coins[1]
      BY <1>3, <1>5, <3>3
    <3> HIDE DEF Given, Got
    <3>. QED BY <1>7, <3>1, <3>2, <3>3
  <2>2. l + m + 1 \in DOMAIN es \/ gold = 0
    BY <1>5, <1>6
  <2>3. MovesAt(p, es, l + m + 1, gold)
    BY <1>1, <2>1, <2>2 DEF MovesAt
  <2>4. DOMAIN es = 1 .. (l + m + n) /\ l + m + n \in Nat
    BY <1>6
  <2>. QED BY <2>3, <2>4, NetGoldIsOneTerm
<1>9. Passed(p, es) = Range_(give) /\ Passed(q, es) = Range_(get)
  <2>1. DOMAIN give = 1 .. l /\ DOMAIN get = 1 .. m
    BY <1>1, <1>4
  <2>2. \A i \in 1 .. l : i \in DOMAIN es
    BY <1>6
  <2>3. \A i \in 1 .. m : l + i \in DOMAIN es
    BY <1>6
  <2>4. ASSUME NEW i \in DOMAIN es
        PROVE  /\ es[i].type = "TransferProperty" /\ es[i].from = p =>
                    i \in 1 .. l /\ es[i].square = give[i]
               /\ es[i].type = "TransferProperty" /\ es[i].from = q =>
                    i - l \in 1 .. m /\ es[i].square = get[i - l]
    <3>1. CASE i \in 1 .. l /\ es[i] = Given(i)
      BY <1>1, <3>1 DEF Event
    <3>2. CASE i - l \in 1 .. m /\ es[i] = Got(i - l)
      BY <1>1, <3>2 DEF Event
    <3>3. CASE i = l + m + 1 /\ n = 1 /\ es[i] = coins[1]
      BY <1>3, <1>5, <3>3
    <3> HIDE DEF Given, Got
    <3>. QED BY <1>7, <3>1, <3>2, <3>3
  <2>5. ASSUME NEW i \in 1 .. l
        PROVE  /\ es[i].type = "TransferProperty" /\ es[i].from = p
               /\ es[i].square = give[i]
    <3>1. es[i] = Given(i)
      BY <1>6
    <3>. QED BY <3>1 DEF Event
  <2>6. ASSUME NEW i \in 1 .. m
        PROVE  /\ es[l + i].type = "TransferProperty" /\ es[l + i].from = q
               /\ es[l + i].square = get[i]
    <3>1. es[l + i] = Got(i)
      BY <1>6
    <3>. QED BY <3>1 DEF Event
  <2>7. Passed(p, es) \subseteq Range_(give) /\ Passed(q, es) \subseteq Range_(get)
    BY <2>1, <2>4 DEF Passed, Range_
  <2>8. Range_(give) \subseteq Passed(p, es)
    BY <2>1, <2>2, <2>5 DEF Passed, Range_
  <2>9. Range_(get) \subseteq Passed(q, es)
    <3>1. ASSUME NEW i \in 1 .. m PROVE get[i] \in Passed(q, es)
      <4> DEFINE j == l + i
      <4>1. /\ j \in DOMAIN es /\ es[j].type = "TransferProperty" /\ es[j].from = q
            /\ es[j].square = get[i]
        BY <2>3, <2>6
      <4> HIDE DEF j
      <4>. QED BY <4>1 DEF Passed
    <3>. QED BY <2>1, <3>1 DEF Range_
  <2>. QED BY <2>7, <2>8, <2>9
<1>. QED BY <1>8, <1>9 DEF p, q, give, get, gold, es

-----------------------------------------------------------------------------
(* Whoever named the terms on the table last is known to have named them;  *)
(* the other is asked.                                                     *)
Agreeing ==
  /\ DOMAIN agreed = Players
  /\ offer # None =>
       agreed[IF offer.countered THEN offer.target ELSE offer.proposer] = offer.terms

(* The steps by which an offer is made, answered or changed; no other      *)
(* touches it.                                                             *)
LEMMA WhoTalks ==
  ASSUME TypeOK, Next
  PROVE  \/ \E p, q \in Players : \E kind, terms :
              Propose(kind, p, q, terms) /\ offer = None
         \/ Accept \/ Counter \/ Reject
         \/ UNCHANGED <<offer, agreed>>
<1>1. CASE Start
  <2>1. CASE \E s \in Squares : Land(turn, s) \/ StartAuction(turn, s)
    BY <2>1 DEF Land, LandUnownedShop, LandVacantPlot, LandOwnShop, LandOwnPlot,
       LandOthersShop, StartAuction, NoTalk
  <2>2. ASSUME NEW q \in Players, Negotiate(turn, q)
        PROVE  offer = None /\ \E kind, terms : Propose(kind, turn, q, terms)
    BY <2>2 DEF Negotiate, OfferToBuy, OfferToSell, ProposeTrade, Dealing, Begin, Idle
  <2>3. turn \in Players
    BY DEF TypeOK
  <2>. QED BY <1>1, <2>1, <2>2, <2>3 DEF Start
<1>2. CASE Talk
  BY <1>2 DEF Talk, Bid, EndAuction
<1>3. CASE Mutate
  BY <1>3 DEF Mutate, Buy, PayRent, InvestInShop, RenovateProperty, InitForcedBuyout,
     ForcedBuyout, TransferProperty, TransferCash, AuctionSell, Done, Handled, Crash
<1>4. CASE Finish
  BY <1>4 DEF Finish, EndTurn, SellShopToBank, SellStock, AuctionSold, CloseTurn,
     LiquidationAuctionSell, SameDeal, NoTalk, Crash
<1>. QED BY <1>1, <1>2, <1>3, <1>4 DEF Next

LEMMA AgreeingInit == Init => Agreeing
BY DEF Init, Agreeing

LEMMA StepAgrees == Covered /\ Agreeing /\ [Next]_vars => Agreeing'
<1>1. ASSUME Agreeing, NEW p \in Players, NEW q \in Players, NEW kind, NEW terms,
             Propose(kind, p, q, terms)
      PROVE  Agreeing'
  BY <1>1 DEF Propose, Agreeing
<1>2. ASSUME Agreeing, Accept PROVE Agreeing'
  BY <1>2 DEF Accept, Agreeing
<1>3. ASSUME Safe, Agreeing, Counter PROVE Agreeing'
  <2>1. PICK gold \in Amounts \cup {-a : a \in Amounts} :
          /\ offer' = [offer EXCEPT !.terms = [offer.terms EXCEPT !.gold = gold],
                                    !.countered = TRUE]
          /\ agreed' = [agreed EXCEPT ![offer.target] = [offer.terms EXCEPT !.gold = gold]]
    BY <1>3 DEF Counter
  <2> DEFINE terms == [offer.terms EXCEPT !.gold = gold]
  <2>2. offer \in OfferType /\ offer.target \in Players
    BY <1>3 DEF Safe, OfferShape, OfferType, Counter
  <2> HIDE DEF terms
  <2>3. /\ offer' = [offer EXCEPT !.terms = terms, !.countered = TRUE]
        /\ agreed' = [agreed EXCEPT ![offer.target] = terms]
    BY <2>1 DEF terms
  <2>4. offer'.countered /\ offer'.target = offer.target /\ offer'.terms = terms
    BY <2>2, <2>3 DEF OfferType
  <2>5. DOMAIN agreed' = Players /\ agreed'[offer.target] = terms
    BY <1>3, <2>2, <2>3 DEF Agreeing
  <2>. QED BY <2>4, <2>5 DEF Agreeing
<1>4. ASSUME Agreeing, Reject PROVE Agreeing'
  BY <1>4 DEF Reject, Agreeing
<1>5. ASSUME Agreeing, UNCHANGED <<offer, agreed>> PROVE Agreeing'
  BY <1>5 DEF Agreeing
<1>6. ASSUME UNCHANGED vars PROVE UNCHANGED <<offer, agreed>>
  BY <1>6 DEF vars
<1>. QED BY <1>1, <1>2, <1>3, <1>4, <1>5, <1>6, WhoTalks DEF Covered, Safe

(* The step that turns an offer into events is its acceptance, and they    *)
(* carry out the terms both parties hold.                                  *)
LEMMA AcceptCarriesOut ==
  ASSUME Covered, Agreeing, Next, offer # None, offer' = None, pending' # <<>>
  PROVE  LET p == offer.proposer  q == offer.target IN
         /\ agreed'[p] = agreed'[q]
         /\ NetGold(p, q, pending') = agreed'[p].gold
         /\ Passed(p, pending') = Range_(agreed'[p].give)
         /\ Passed(q, pending') = Range_(agreed'[p].get)
<1>1. Safe /\ TypeOK /\ pending = <<>>
  BY DEF Covered, Safe, OneThing
<1>2. Accept
  BY <1>1, WhoTalks DEF Counter, Reject, SamePlay
<1>3. /\ pending' = Settlement(offer)
      /\ agreed' = [agreed EXCEPT ![Asked] = offer.terms]
  BY <1>2 DEF Accept, Enqueue
<1>4. /\ offer \in OfferType /\ offer.proposer # offer.target
      /\ offer.kind = "shop" => Len(offer.terms.give) + Len(offer.terms.get) = 1
  BY <1>1 DEF Safe, OfferShape
<1>5. offer.kind \in {"shop", "trade"} /\ offer.proposer \in Players /\ offer.target \in Players
  BY <1>4 DEF OfferType
<1>6. agreed'[offer.proposer] = offer.terms /\ agreed'[offer.target] = offer.terms
  <2>1. /\ DOMAIN agreed = Players
        /\ agreed[IF offer.countered THEN offer.target ELSE offer.proposer] = offer.terms
    BY DEF Agreeing
  <2>2. Asked = IF offer.countered THEN offer.proposer ELSE offer.target
    BY DEF Asked
  <2>. QED BY <1>3, <1>4, <1>5, <2>1, <2>2
<1>7. /\ NetGold(offer.proposer, offer.target, Settlement(offer)) = offer.terms.gold
      /\ Passed(offer.proposer, Settlement(offer)) = Range_(offer.terms.give)
      /\ Passed(offer.target, Settlement(offer)) = Range_(offer.terms.get)
  BY <1>4, <1>5, SaleAsTerms, TradeAsTerms
<1>. QED BY <1>3, <1>6, <1>7

(* What is carried out is what both last named or accepted: the squares    *)
(* and the gold of the original offer, or of the counter-offer that the    *)
(* proposer accepted; for lists of any length and any sum of gold.         *)
THEOREM DealsCarriedOut == Spec => DealAsAgreed
<1>1. Covered /\ Agreeing /\ [Next]_vars =>
        [offer # None /\ offer' = None /\ pending' # <<>> =>
           LET p == offer.proposer  q == offer.target IN
           /\ agreed'[p] = agreed'[q]
           /\ NetGold(p, q, pending') = agreed'[p].gold
           /\ Passed(p, pending') = Range_(agreed'[p].give)
           /\ Passed(q, pending') = Range_(agreed'[p].get)]_vars
  BY AcceptCarriesOut
<1>. QED BY <1>1, AgreeingInit, StepAgrees, CoveredInvariant, PTL DEF Spec, DealAsAgreed

=============================================================================
