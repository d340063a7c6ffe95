---- MODULE MCTerminal ----
(* The kinds of prompt by what the screen does with them, and crossings.  *)
EXTENDS Terminal

EveryKind ==
  {"CHOOSE_PATH", "CHOOSE_VENTURE_CELL", "PRE_ROLL", "CONFIRM_STOP", "SCRIPT_DECISION", "INVEST",
   "AUCTION_BID", "CHOOSE_SHOP_BUY", "CHOOSE_SHOP_SELL", "LIQUIDATION", "BUY_STOCK", "SELL_STOCK",
   "COUNTER_PRICE", "TRADE", "CHOOSE_ANY_SQUARE", "ACCEPT_OFFER", "CANNON_TARGET"}
BidOnly == {"AUCTION_BID"}

\* up to four ways among two on the right, two diagonals and the left
Offsets == {<<4, 0>>, <<8, 1>>, <<4, 4>>, <<-4, -5>>, <<-4, 0>>}
Crossings1to4 ==
  {w \in UNION {[1 .. n -> Offsets] : n \in 1 .. 4} : \A i, j \in DOMAIN w : i # j => w[i] # w[j]}
OneCrossing == {<<<<4, 4>>, <<-4, -5>>, <<8, 1>>>>}
====
