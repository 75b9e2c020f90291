--------------------------- MODULE LedgerContract ---------------------------
(***************************************************************************)
(* What the evaluation loop promises to everyone who reads the ledger:     *)
(* nothing moves but by whole trades.  A trade buys at one venue and sells *)
(* at another, TradeQty at most; a leg is paid and covered, or refused and *)
(* without a trace; and what a matched trade earns is what it is booked    *)
(* as.  How trades are found, checked and filled is not said.              *)
(***************************************************************************)
EXTENDS Integers

CONSTANTS Venues, TradeQty, InitialQuote, InitialBase

VARIABLES quote, base,  \* venue -> balance
          realized      \* booked profit

Init == quote = InitialQuote /\ base = InitialBase /\ realized = 0

\* How much more of a there is at v after the step.
Gain(a, v) == a'[v] - a[v]

\* A leg buys at b, and only what can be paid.
BuyLeg(b) ==
    \/ Gain(base, b) = 0 /\ Gain(quote, b) = 0
    \/ Gain(base, b) \in 1..TradeQty /\ Gain(quote, b) <= 0 /\ quote'[b] >= 0

\* A leg sells at s, and only what is there.
SellLeg(s) ==
    \/ Gain(base, s) = 0 /\ Gain(quote, s) = 0
    \/ -Gain(base, s) \in 1..TradeQty /\ base'[s] >= 0

\* When one leg is missing or short, the profit booked is free.
Matched(b, s) == Gain(base, b) > 0 /\ Gain(base, b) = -Gain(base, s)

Trade(b, s) ==
    /\ b # s
    /\ BuyLeg(b) /\ SellLeg(s)
    /\ \A v \in Venues \ {b, s} : Gain(base, v) = 0 /\ Gain(quote, v) = 0
    /\ Matched(b, s) => realized' - realized = Gain(quote, b) + Gain(quote, s)

Spec == Init /\ [][\E b, s \in Venues : Trade(b, s)]_<<quote, base, realized>>
=============================================================================
