------------------------------ MODULE Trading -------------------------------
(***************************************************************************)
(* The evaluation loop of internal/engine: scan the venue pairs, check the *)
(* risk limits, submit two orders, fill them one after the other, close,   *)
(* settle.  It runs on one goroutine; meanwhile the lanes publish new      *)
(* views and the API sets and resets the kill switch.                      *)
(*                                                                         *)
(* The views and the switch are what other goroutines write; the ledger,   *)
(* the orders and the counters belong to the loop.  A step of the loop     *)
(* reads each shared variable once at most: two reads of different views   *)
(* may be one step, because what their lanes do in between commutes.       *)
(***************************************************************************)
EXTENDS Execution, Opportunity, Risk

CONSTANTS
    VenueOrder,     \* the enabled venues, in scanning order
    Views,          \* venue -> the views its lane may publish
    InitialQuote, InitialBase,  \* venue -> seeded balance
    Policy,         \* which leg is filled first
    MaxScans        \* bound: how often EvaluateOnce runs

VARIABLES
    views,      \* venue -> latest published view
    pc,         \* where the loop is
    pairs,      \* venue pairs still to be evaluated in this scan
    opps,       \* opportunities of this scan not yet dealt with
    orders,     \* the two orders of the opportunity being executed
    legs,       \* their results
    ledger,
    risk,
    scans,      \* scans begun
    \* history
    calm,       \* no view has changed since the scan began
    underKill,  \* submissions since the kill switch was last activated
    clean,      \* every trade was matched and settled
    unsettled   \* some filled leg was refused by the ledger

trade == <<orders, legs>>
history == <<calm, underKill, clean, unsettled>>
vars == <<views, pc, pairs, opps, orders, legs, ledger, risk, scans, history>>

VenueSet == {VenueOrder[i] : i \in DOMAIN VenueOrder}
AllViews == UNION {Views[v] : v \in VenueSet}

\* A view as a lane publishes it, its levels best first.
BookViews == [ready : BOOLEAN, aged : BOOLEAN, bids : Seq(Quotes), asks : Seq(Quotes)]

ASSUME TradingAssumption ==
    /\ VenueOrder \in Seq(VenueSet) /\ VenueOrder # <<>>
    /\ \A i, j \in DOMAIN VenueOrder : VenueOrder[i] = VenueOrder[j] => i = j
    /\ \A v \in VenueSet : Views[v] \subseteq BookViews
    /\ TradeQty \in Nat \ {0} /\ SlippageBps \in Nat
    /\ MinProfit \in Int /\ MinEdgeBps \in Int
    /\ TakerBps \in [VenueSet -> Nat]
    /\ InitialQuote \in [VenueSet -> Nat] /\ InitialBase \in [VenueSet -> Nat]
    /\ Policy \in {"parallel", "buy-first", "sell-first"}
    /\ MaxScans \in Nat

\* The ordered pairs of venues, the buying venue varying slowest.
VenuePairs ==
    LET n == Len(VenueOrder)
    IN  [k \in 1..(n * n) |-> <<VenueOrder[((k - 1) \div n) + 1],
                                VenueOrder[((k - 1) % n) + 1]>>]

NoOrders == [buy |-> NewOrder("buy", "market", 0, 0), sell |-> NewOrder("sell", "market", 0, 0)]
NoLegs == [buy |-> NoLeg, sell |-> NoLeg]

Init ==
    /\ views \in {f \in [VenueSet -> AllViews] : \A v \in VenueSet : f[v] \in Views[v]}
    /\ pc = "idle" /\ pairs = <<>> /\ opps = <<>>
    /\ orders = NoOrders /\ legs = NoLegs
    /\ ledger = NewLedger(InitialQuote, InitialBase)
    /\ risk = NewState(FALSE)
    /\ scans = 0
    /\ calm = TRUE /\ underKill = 0 /\ clean = TRUE /\ unsettled = FALSE

o == Head(opps)

-----------------------------------------------------------------------------
(* The other goroutines. *)

\* A lane publishes a view.
Publish(v, view) ==
    /\ views[v] # view
    /\ views' = [views EXCEPT ![v] = view]
    /\ calm' = FALSE
    /\ UNCHANGED <<pc, pairs, opps, trade, ledger, risk, scans, underKill, clean, unsettled>>

\* POST /api/v1/kill-switch and its reset.
KillHandler ==
    /\ risk' = ActivateKillSwitch(risk)
    /\ UNCHANGED <<views, pc, pairs, opps, trade, ledger, scans, history>>

KillResetHandler ==
    /\ risk' = ResetKillSwitch(risk)
    /\ underKill' = 0
    /\ UNCHANGED <<views, pc, pairs, opps, trade, ledger, scans, calm, clean, unsettled>>

-----------------------------------------------------------------------------
(* The loop. *)

EvaluateOnce ==
    /\ pc = "idle" /\ scans < MaxScans
    /\ pc' = "scan" /\ pairs' = VenuePairs
    /\ scans' = scans + 1
    /\ calm' = TRUE
    /\ UNCHANGED <<views, opps, trade, ledger, risk, underKill, clean, unsettled>>

\* A venue is not paired with itself.
ScanPair ==
    /\ pc = "scan"
    /\ LET p == Head(pairs) IN
       opps' = IF p[1] = p[2] THEN opps
               ELSE opps \o evaluatePair(p[1], p[2], views[p[1]], views[p[2]])
    /\ pairs' = Tail(pairs)
    /\ pc' = IF pairs' = <<>> THEN "decide" ELSE "scan"
    /\ UNCHANGED <<views, trade, ledger, risk, scans, history>>

ScanDone ==
    /\ pc = "decide" /\ opps = <<>>
    /\ pc' = "idle"
    /\ UNCHANGED <<views, pairs, opps, trade, ledger, risk, scans, history>>

\* The opportunity is dropped; the loop turns to the next one.
Reject == opps' = Tail(opps) /\ pc' = "decide"

RiskCheckState ==
    /\ pc = "decide" /\ opps # <<>>
    /\ IF CheckState(risk, o, ledger) THEN pc' = "fresh" /\ UNCHANGED opps ELSE Reject
    /\ UNCHANGED <<views, pairs, trade, ledger, risk, scans, history>>

RiskCheckFresh ==
    /\ pc = "fresh"
    /\ IF CheckFresh(o, views) THEN pc' = "exposure" /\ UNCHANGED opps ELSE Reject
    /\ UNCHANGED <<views, pairs, trade, ledger, risk, scans, history>>

\* Inventory for the buy leg is checked at the detected price, without fees.
HasInventory ==
    /\ ledger.quote[o.buyV] >= Mul(o.buyVWAP, o.qty)
    /\ ledger.base[o.sellV] >= o.qty

\* The decision is the conjunction of all checks, so that stopping at the
\* first that fails rejects the same opportunities.
RiskCheckExposure ==
    /\ pc = "exposure"
    /\ IF CheckExposure(o, views, ledger) /\ HasInventory
       THEN pc' = "submit" /\ UNCHANGED opps ELSE Reject
    /\ UNCHANGED <<views, pairs, trade, ledger, risk, scans, history>>

\* Opportunity ids are never used twice, so both orders are new.
SubmitOrders ==
    /\ pc = "submit"
    /\ orders' = [buy  |-> NewOrder("buy", "market", 0, o.qty),
                  sell |-> NewOrder("sell", "market", 0, o.qty)]
    /\ risk' = NoteOrderOpened(NoteOrderOpened(risk))
    /\ underKill' = IF risk.kill THEN underKill + 1 ELSE underKill
    /\ pc' = "leg1"
    /\ UNCHANGED <<views, pairs, opps, legs, ledger, scans, calm, clean, unsettled>>

FirstLeg == IF Policy = "sell-first" THEN "sell" ELSE "buy"
SecondLeg == IF Policy = "sell-first" THEN "buy" ELSE "sell"

FillLeg(side) ==
    LET v == IF side = "buy" THEN o.buyV ELSE o.sellV
        r == FillAgainstBook(orders[side], views[v], TakerBps[v])
    IN  /\ orders' = [orders EXCEPT ![side] = r.order]
        /\ legs' = [legs EXCEPT ![side] = r.leg]
        /\ UNCHANGED <<views, pairs, opps, ledger, risk, scans, history>>

FillFirst == pc = "leg1" /\ FillLeg(FirstLeg) /\ pc' = "leg2"
FillSecond == pc = "leg2" /\ FillLeg(SecondLeg) /\ pc' = "close"

\* The counters, and the automatic kill switch.
CloseOrders ==
    /\ pc = "close"
    /\ LET closed == NoteOrderClosed(NoteOrderClosed(risk))
           noted  == NoteExecutionResult(closed, legs.buy.filled > 0 /\ legs.sell.filled > 0)
       IN  risk' = IF TooManyFails(noted) THEN ActivateKillSwitch(noted) ELSE noted
    /\ pc' = "settle"
    /\ UNCHANGED <<views, pairs, opps, trade, ledger, scans, history>>

\* Faulty: both legs are settled where the buy was.
SoldWhereBought ==
    LET bought == IF legs.buy.filled > 0 THEN ApplyBuy(ledger, o.buyV, legs.buy) ELSE ledger
    IN  IF legs.sell.filled > 0 THEN ApplySell(bought, o.buyV, legs.sell) ELSE bought

\* The ledger after the buy leg, and after the sell leg.
Bought == IF legs.buy.filled > 0 THEN ApplyBuy(ledger, o.buyV, legs.buy) ELSE ledger
Sold == IF legs.sell.filled > 0 THEN ApplySell(Bought, o.sellV, legs.sell) ELSE Bought

Refused ==
    \/ legs.buy.filled > 0 /\ ~CanSettleBuy(ledger, o.buyV, legs.buy)
    \/ legs.sell.filled > 0 /\ ~CanSettleSell(Bought, o.sellV, legs.sell)

\* A leg the ledger refuses is logged, and the profit is booked all the same.
Settle ==
    /\ pc = "settle"
    /\ ledger' = AddRealized(Sold, RealizedPnL(legs.buy, legs.sell))
    /\ unsettled' = (unsettled \/ Refused)
    /\ clean' = (clean /\ ~Refused /\ legs.buy.filled = legs.sell.filled)
    /\ orders' = NoOrders /\ legs' = NoLegs
    /\ opps' = Tail(opps) /\ pc' = "decide"
    /\ UNCHANGED <<views, pairs, risk, scans, calm, underKill>>

-----------------------------------------------------------------------------
Others ==
    \/ \E v \in VenueSet : \E view \in Views[v] : Publish(v, view)
    \/ KillHandler \/ KillResetHandler

Loop ==
    \/ EvaluateOnce \/ ScanPair \/ ScanDone
    \/ RiskCheckState \/ RiskCheckFresh \/ RiskCheckExposure \/ SubmitOrders
    \/ FillFirst \/ FillSecond \/ CloseOrders \/ Settle

Next == Others \/ Loop

Spec == Init /\ [][Next]_vars
-----------------------------------------------------------------------------
(* Properties. *)

Sum(f) ==
    LET sum[i \in 0..Len(VenueOrder)] ==
            IF i = 0 THEN 0 ELSE sum[i - 1] + f[VenueOrder[i]]
    IN  sum[Len(VenueOrder)]

Opportunities == [buyV : VenueSet, sellV : VenueSet, qty : {TradeQty},
                  buyVWAP : Nat, sellVWAP : Nat, net : Int]

Ledgers == [quote : [VenueSet -> Int], base : [VenueSet -> Int], realized : Int,
            pos : [VenueSet -> [qty : Int, avg : Int]]]

\* Every variable has its type.
TypeOK ==
    /\ views \in {f \in [VenueSet -> AllViews] : \A v \in VenueSet : f[v] \in Views[v]}
    /\ pc \in {"idle", "scan", "decide", "fresh", "exposure", "submit", "leg1", "leg2", "close", "settle"}
    /\ opps \in Seq(Opportunities)
    /\ pc \in {"fresh", "exposure", "submit", "leg1", "leg2", "close", "settle"} => opps # <<>>
    /\ orders \in [buy : Orders, sell : Orders]
    /\ legs \in [buy : LegResults, sell : LegResults]
    /\ ledger \in Ledgers
    /\ risk \in RiskStates /\ risk.outstanding \in {0, 2}

\* No balance is ever overdrawn, although the inventory check ignores fees
\* and the fills happen at prices it has not seen (Ledger.ApplyBuy and
\* ApplySell after maybeExecute's check).
NoOverdraft == \A v \in VenueSet : ledger.quote[v] >= 0 /\ ledger.base[v] >= 0

\* The two records of the base asset agree: the position risk limits look at
\* is what the balance has moved, refused settlements included.
BaseMatchesPosition ==
    \A v \in VenueSet : ledger.base[v] - InitialBase[v] = ledger.pos[v].qty

\* As long as every trade was matched and settled, the realized profit
\* ExecuteArbitrage computes is the quote the balances have gained.
RealizedIsCash ==
    clean => Sum(ledger.quote) = Sum(InitialQuote) + ledger.realized

\* What rounding the average price down may take from the value of one fill.
RoundingLoss == (TradeQty + Scale - 2) \div Scale

\* The whole size at the detected price, but for the rounding: vwapOf divides
\* once, Fill after every level.
AsDetected(leg, vwap, levels) ==
    /\ leg.filled = TradeQty /\ leg.vwap <= vwap
    /\ Mul(vwap, TradeQty) <= Mul(leg.vwap, TradeQty) + Len(levels) * RoundingLoss

\* A fill on books that have not moved since they were scanned is the trade
\* that was detected, and earns what was expected of it (FillAgainstBook
\* against vwapOf, two walks over the same levels).
CalmTradeIsAsDetected ==
    pc = "settle" /\ calm =>
        /\ AsDetected(legs.buy, o.buyVWAP, views[o.buyV].asks)
        /\ AsDetected(legs.sell, o.sellVWAP, views[o.sellV].bids)
        /\ RealizedPnL(legs.buy, legs.sell) + Len(views[o.sellV].bids) * RoundingLoss >= o.net

\* No fill is lost between an order and its leg, which is what the ledger is
\* told of it, and the state of the order says how much was filled: Fill books
\* before it tries the transition, and an error makes FillAgainstBook report an
\* empty leg.
FillsAreAccounted ==
    \A side \in {"buy", "sell"} :
        /\ legs[side].filled = orders[side].filled /\ legs[side].vwap = orders[side].avg
        /\ orders[side].qty > 0 =>
              /\ orders[side].state = "filled" <=> orders[side].filled = orders[side].qty
              /\ orders[side].state = "partially_filled"
                    <=> orders[side].filled \in 1..(orders[side].qty - 1)

\* A kill switch lets through at most the one trade whose check was already
\* past it: the rest of the scan is refused.
AtMostOneTradeUnderKill == underKill <= 1

\* AtMostOneTradeUnderKill made inductive: a submission under the switch means
\* that the loop has to pass a check again before the next one.
KillInv ==
    /\ underKill \in {0, 1} /\ risk \in RiskStates
    /\ underKill = 1 => risk.kill /\ pc \notin {"fresh", "exposure", "submit"}

\* After too many consecutive failures nothing is traded, whatever the API
\* does to the switch.
NoTradeAfterFailures == pc \in {"submit", "leg1", "leg2"} => ~TooManyFails(risk)

\* The same from the check on.
FailureInv ==
    /\ risk \in RiskStates
    /\ pc \in {"fresh", "exposure", "submit", "leg1", "leg2"} => ~TooManyFails(risk)

\* A trade that passed the inventory check settles: "trades that cannot be
\* settled are rejected" (maybeExecute's check against Ledger.ApplyBuy).
FilledTradeSettles == ~unsettled

\* The exposure of a venue exceeds its limit by one trade at most: limits are
\* checked against the exposure held before the trade, at the mid price of
\* that moment.
LowestMid == CHOOSE m \in {Mid(w) : w \in AllViews} : \A w \in AllViews : m <= Mid(w)

ExposureWithinOneTrade ==
    \A v \in VenueSet :
        Mul(VenueExposure(ledger, v) - TradeQty, LowestMid) <= MaxVenueExposure

Contract ==
    INSTANCE LedgerContract WITH Venues <- VenueSet, quote <- ledger.quote,
                                 base <- ledger.base, realized <- ledger.realized

\* The loop, with every check, fill and refusal in it, implements the contract
\* of the ledger (maybeExecute and the two Ledger methods it settles with).
KeepsLedgerContract == Contract!Spec

=============================================================================
