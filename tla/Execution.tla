----------------------------- MODULE Execution ------------------------------
(***************************************************************************)
(* Orders and their simulated fills, internal/execution.  An order is the  *)
(* record [side, type, price, qty, filled, avg, state]; the Go methods     *)
(* change it in place and return an error, here they return both.          *)
(***************************************************************************)
EXTENDS Sequences, Decimal

OrderStates == {"pending", "accepted", "partially_filled", "filled",
                "cancel_pending", "cancelled", "rejected", "expired"}

validTransitions ==
    [s \in OrderStates |->
        CASE s = "pending" -> {"accepted", "rejected", "cancelled", "expired"}
          [] s \in {"accepted", "partially_filled"} ->
                {"partially_filled", "filled", "cancel_pending", "cancelled", "expired"}
          [] s = "cancel_pending" -> {"cancelled", "partially_filled", "filled"}
          [] OTHER -> {}]

Terminal == {s \in OrderStates : validTransitions[s] = {}}

Orders == [side : {"buy", "sell"}, type : {"market", "ioc_limit"}, price : Nat, qty : Nat,
           filled : Nat, avg : Nat, state : OrderStates]

NewOrder(side, type, price, qty) ==
    [side |-> side, type |-> type, price |-> price, qty |-> qty,
     filled |-> 0, avg |-> 0, state |-> "pending"]

CanTransition(from, to) == to \in validTransitions[from]

Transition(o, to) ==
    IF CanTransition(o.state, to)
    THEN [order |-> [o EXCEPT !.state = to], err |-> FALSE]
    ELSE [order |-> o, err |-> TRUE]

\* Faulty: a first fill forgets to accept the order.
FillUnaccepted(o, price, qty) ==
    LET filled == o.filled + qty
        cost   == Mul(o.avg, o.filled) + Mul(price, qty)
        booked == [o EXCEPT !.filled = filled, !.avg = Div(cost, filled)]
    IN  IF qty <= 0 \/ filled > o.qty
        THEN [order |-> o, err |-> TRUE]
        ELSE Transition(booked, IF filled = o.qty THEN "filled" ELSE "partially_filled")

\* Quantity and average price are booked before the state is moved, and stay
\* booked when the move is illegal.
Fill(o, price, qty) ==
    LET filled == o.filled + qty
        cost   == Mul(o.avg, o.filled) + Mul(price, qty)
        booked == [o EXCEPT !.filled = filled, !.avg = Div(cost, filled)]
        open   == IF o.state = "pending" THEN Transition(booked, "accepted").order ELSE booked
    IN  IF qty <= 0 \/ filled > o.qty
        THEN [order |-> o, err |-> TRUE]
        ELSE Transition(open, IF filled = o.qty THEN "filled" ELSE "partially_filled")

LegResults == [filled : Nat, vwap : Nat, cost : Nat, fee : Nat]

NoLeg == [filled |-> 0, vwap |-> 0, cost |-> 0, fee |-> 0]

\* The levels of a view.  A book keeps none without a quantity.
Quotes == [price : Nat, qty : Nat \ {0}]

\* Faulty: a sell walks the asks too.
LevelsAsks(o, view) == view.asks

\* The side of the view the order takes from, best level first.
Levels(o, view) == IF o.side = "sell" THEN view.bids ELSE view.asks

BeyondLimit(o, price) ==
    /\ o.type = "ioc_limit"
    /\ IF o.side = "buy" THEN price > o.price ELSE price < o.price

\* One turn of the loop over the levels; done once it has broken off.
TakeLevel(acc, level, feeBps) ==
    LET take == Lesser(level.qty, acc.left)
        r    == Fill(acc.order, level.price, take)
    IN  IF acc.done \/ acc.err \/ acc.left = 0 \/ BeyondLimit(acc.order, level.price)
        THEN [acc EXCEPT !.done = TRUE]
        ELSE [acc EXCEPT !.order = r.order, !.err = r.err,
                         !.left = @ - take, !.filled = @ + take,
                         !.cost = @ + Mul(level.price, take),
                         !.fee = @ + MulBps(Mul(level.price, take), feeBps)]

TakeLevels(o, levels, feeBps) ==
    LET start == [order |-> o, left |-> o.qty - o.filled, filled |-> 0, cost |-> 0,
                  fee |-> 0, done |-> FALSE, err |-> FALSE]
        after[i \in 0..Len(levels)] ==
            IF i = 0 THEN start ELSE TakeLevel(after[i - 1], levels[i], feeBps)
    IN  after[Len(levels)]

\* An error of any kind reports an empty leg.
FillAgainstBook(o, view, feeBps) ==
    LET rejected == Transition(o, "rejected")
        acc      == TakeLevels(o, Levels(o, view), feeBps)
        final    == IF o.type = "ioc_limit" /\ acc.order.state = "partially_filled"
                    THEN Transition(acc.order, "cancelled").order ELSE acc.order
    IN  CASE ~view.ready -> [order |-> rejected.order, leg |-> NoLeg, err |-> rejected.err]
          [] view.ready /\ acc.err -> [order |-> acc.order, leg |-> NoLeg, err |-> TRUE]
          [] OTHER -> [order |-> final, err |-> FALSE,
                       leg |-> [filled |-> acc.filled, vwap |-> final.avg,
                                cost |-> acc.cost, fee |-> acc.fee]]

\* Faulty: the fees are left to the ledger.
RealizedPnLGross(buy, sell) ==
    LET matched == Lesser(buy.filled, sell.filled)
    IN  Mul(sell.vwap, matched) - Mul(buy.vwap, matched)

\* ExecuteArbitrage books a profit on the matched quantity only, and charges
\* all fees to it.
RealizedPnL(buy, sell) ==
    LET matched == Lesser(buy.filled, sell.filled)
    IN  IF matched > 0
        THEN Mul(sell.vwap, matched) - Mul(buy.vwap, matched) - (buy.fee + sell.fee)
        ELSE 0
=============================================================================
