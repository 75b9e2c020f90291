----------------------------- MODULE Portfolio ------------------------------
(***************************************************************************)
(* The ledger of internal/portfolio for one symbol: quote and base         *)
(* balances per venue, the net position per venue and the realized profit. *)
(***************************************************************************)
EXTENDS Decimal

NewLedger(quote, base) ==
    [quote |-> quote, base |-> base, realized |-> 0,
     pos |-> [v \in DOMAIN quote |-> [qty |-> 0, avg |-> 0]]]

\* A buy that only reduces a short leaves the average alone; one that turns
\* it long restarts it; otherwise it is the mean of what is held.
addBuy(p, px, qty) ==
    LET newQty == p.qty + qty
        total  == Mul(p.avg, p.qty) + Mul(px, qty)
    IN  CASE p.qty < 0 /\ newQty <= 0 -> [p EXCEPT !.qty = newQty]
          [] p.qty < 0 /\ newQty > 0  -> [qty |-> newQty, avg |-> px]
          [] p.qty >= 0 /\ newQty = 0 -> [p EXCEPT !.qty = 0]
          [] OTHER                    -> [qty |-> newQty, avg |-> Div(total, newQty)]

\* Faulty: adds what was sold.
addSellAdds(p, px, qty) == addBuy(p, px, qty)

addSell(p, px, qty) == addBuy(p, px, -qty)

\* Faulty: forgets the fee.
CanSettleBuyNoFee(l, v, leg) == l.quote[v] >= Mul(leg.vwap, leg.filled)

CanSettleBuy(l, v, leg) == l.quote[v] >= Mul(leg.vwap, leg.filled) + leg.fee

\* Without the funds the ledger is left as it is and the error is logged.
ApplyBuy(l, v, leg) ==
    IF CanSettleBuy(l, v, leg)
    THEN [l EXCEPT !.quote[v] = @ - (Mul(leg.vwap, leg.filled) + leg.fee),
                   !.base[v] = @ + leg.filled,
                   !.pos[v] = addBuy(@, leg.vwap, leg.filled)]
    ELSE l

CanSettleSell(l, v, leg) == l.base[v] >= leg.filled

ApplySell(l, v, leg) ==
    IF CanSettleSell(l, v, leg)
    THEN [l EXCEPT !.base[v] = @ - leg.filled,
                   !.quote[v] = @ + (Mul(leg.vwap, leg.filled) - leg.fee),
                   !.pos[v] = addSell(@, leg.vwap, leg.filled)]
    ELSE l

AddRealized(l, pnl) == [l EXCEPT !.realized = @ + pnl]

VenueExposure(l, v) == Abs(l.pos[v].qty)
=============================================================================
