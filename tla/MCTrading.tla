----------------------------- MODULE MCTrading ------------------------------
(***************************************************************************)
(* Trading for TLC.  Fees are 10% of prices that are multiples of 10, but  *)
(* for the second bid of Stepped: a sale there has a fee and an average    *)
(* price that are rounded.                                                 *)
(***************************************************************************)
EXTENDS Trading, TLC

Level(price, qty) == [price |-> price, qty |-> qty]
View(bids, asks) == [ready |-> TRUE, aged |-> FALSE, bids |-> bids, asks |-> asks]

Low == View(<<Level(10, 2)>>, <<Level(20, 2)>>)
High == View(<<Level(40, 2)>>, <<Level(50, 2)>>)
Stepped == View(<<Level(40, 1), Level(31, 1)>>, <<Level(50, 2)>>)
\* Without the depth for a trade, and aged: seen only by fills.
Thin == [View(<<Level(40, 1)>>, <<Level(50, 1)>>) EXCEPT !.aged = TRUE]
Down == [High EXCEPT !.ready = FALSE]

MCViews == [binance |-> {Low, High, Down}, okx |-> {Low, Stepped, Thin}]
MCVenueOrder == <<"binance", "okx">>
Flat(n) == [v \in {"binance", "okx"} |-> n]
MCTakerBps == Flat(1000)
MCQuote == Flat(100)
MCBase == Flat(6)
=============================================================================
