---------------------------- MODULE Opportunity -----------------------------
(***************************************************************************)
(* Detection of executable spreads, internal/opportunity.  A view is       *)
(* [ready, aged, bids, asks]: aged stands for the stale mark or a last     *)
(* update older than MaxQuoteAge, which detection and risk treat alike.    *)
(* The latency penalty is zero: the engine never sets PenaltyBpsPerMs.     *)
(***************************************************************************)
EXTENDS Sequences, Decimal

CONSTANTS
    TradeQty,       \* requested size
    TakerBps,       \* venue -> taker fee
    SlippageBps,    \* penalty on the buy cost
    MinProfit,      \* least net profit, exclusive
    MinEdgeBps      \* least edge

\* Walks the levels, best first, until qty is reached.
vwapOf(levels, qty) ==
    LET walk[i \in 0..Len(levels)] ==
            IF i = 0 THEN [left |-> qty, filled |-> 0, cost |-> 0]
            ELSE LET acc  == walk[i - 1]
                     take == Lesser(levels[i].qty, acc.left)
                 IN  [left |-> acc.left - take, filled |-> acc.filled + take,
                      cost |-> acc.cost + Mul(levels[i].price, take)]
        end == walk[Len(levels)]
    IN  [vwap |-> IF end.filled = 0 THEN 0 ELSE Div(end.cost, end.filled),
         cost |-> end.cost, ok |-> end.filled # 0 /\ end.left = 0]

Usable(view) == view.ready /\ ~view.aged

\* What the pair is worth after fees and slippage.
Net(buyV, sellV, buy, sell) ==
    sell.cost - buy.cost
        - (MulBps(buy.cost, TakerBps[buyV]) + MulBps(sell.cost, TakerBps[sellV]))
        - MulBps(buy.cost, SlippageBps)

\* The edge in whole basis points of the cost, rounded toward zero.
EdgeBps(net, cost) == mulDiv(Div(net * 10000, cost), 1, Scale)

\* The opportunities of one ordered pair: none or one.
evaluatePair(buyV, sellV, buyView, sellView) ==
    LET buy  == vwapOf(buyView.asks, TradeQty)
        sell == vwapOf(sellView.bids, TradeQty)
        net  == Net(buyV, sellV, buy, sell)
    IN  IF /\ Usable(buyView) /\ Usable(sellView)
           /\ buy.ok /\ sell.ok
           /\ net > MinProfit
           /\ EdgeBps(net, buy.cost) >= MinEdgeBps
           /\ buy.vwap < sell.vwap
        THEN <<[buyV |-> buyV, sellV |-> sellV, qty |-> TradeQty,
                buyVWAP |-> buy.vwap, sellVWAP |-> sell.vwap, net |-> net]>>
        ELSE <<>>
=============================================================================
