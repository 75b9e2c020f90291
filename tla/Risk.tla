-------------------------------- MODULE Risk --------------------------------
(***************************************************************************)
(* Pre-trade checks and runtime risk state, internal/risk.  A limit of     *)
(* zero is switched off, as in the code.  CheckOpportunity is split where  *)
(* it reads again what others write: CheckState reads the counters and the *)
(* kill switch, CheckFresh the two views, CheckExposure the views anew.    *)
(***************************************************************************)
EXTENDS Sequences, Portfolio

CONSTANTS
    MaxTradeNotional, MaxVenueExposure, MaxSymbolExposure, MaxTotalExposure,
    MinExpectedEdge, DailyLossLimit, MaxOutstanding, MaxConsecutiveFails

RiskStates == [kill : BOOLEAN, fails : Nat, outstanding : Nat]

NewState(kill) == [kill |-> kill, fails |-> 0, outstanding |-> 0]

ActivateKillSwitch(st) == [st EXCEPT !.kill = TRUE]
ResetKillSwitch(st) == [st EXCEPT !.kill = FALSE]

\* Faulty: counts both legs on each call.
NoteOrderOpenedTwice(st) == [st EXCEPT !.outstanding = @ + 2]

NoteOrderOpened(st) == [st EXCEPT !.outstanding = @ + 1]
NoteOrderClosed(st) == [st EXCEPT !.outstanding = IF @ > 0 THEN @ - 1 ELSE @]

NoteExecutionResult(st, success) == [st EXCEPT !.fails = IF success THEN 0 ELSE @ + 1]

Exceeds(amount, limit) == limit > 0 /\ amount > limit

\* MaxConsecutiveFails reached: also the supervisor's trigger for the switch.
TooManyFails(st) == MaxConsecutiveFails > 0 /\ st.fails >= MaxConsecutiveFails

LossLimitReached(ledger) ==
    DailyLossLimit > 0 /\ ledger.realized < 0 /\ Abs(ledger.realized) >= DailyLossLimit

\* Faulty: one without the kill switch, one that leaves failures to it.
CheckStateIgnoresKill(st, o, ledger) ==
    /\ ~Exceeds(st.outstanding + 2, MaxOutstanding)
    /\ ~TooManyFails(st)
    /\ ~LossLimitReached(ledger)
CheckStateTrustsKill(st, o, ledger) ==
    /\ ~st.kill
    /\ ~Exceeds(st.outstanding + 2, MaxOutstanding)
    /\ ~LossLimitReached(ledger)

CheckState(st, o, ledger) ==
    /\ ~st.kill
    /\ ~Exceeds(st.outstanding + 2, MaxOutstanding)
    /\ ~TooManyFails(st)
    /\ ~Exceeds(Mul(o.buyVWAP, o.qty), MaxTradeNotional)
    /\ MinExpectedEdge > 0 => o.net >= MinExpectedEdge
    /\ ~LossLimitReached(ledger)

HasMid(view) == view.bids # <<>> /\ view.asks # <<>>
Mid(view) == Div(Head(view.bids).price + Head(view.asks).price, 2 * Scale)

TotalExposure(ledger) ==
    LET venues == DOMAIN ledger.pos
        sum[S \in SUBSET venues] ==
            IF S = {} THEN 0
            ELSE LET v == CHOOSE v \in S : TRUE IN VenueExposure(ledger, v) + sum[S \ {v}]
    IN  sum[venues]

CheckFresh(o, views) == \A v \in {o.buyV, o.sellV} : views[v].ready /\ ~views[v].aged

\* Faulty: compares base quantities with limits in the quote currency.
CheckExposureInBase(o, views, ledger) ==
    /\ \A v \in {o.buyV, o.sellV} : ~Exceeds(VenueExposure(ledger, v), MaxVenueExposure)
    /\ ~Exceeds(VenueExposure(ledger, o.sellV), MaxSymbolExposure)
    /\ ~Exceeds(TotalExposure(ledger), MaxTotalExposure)

\* A view without a mid price skips the checks that need it.  They look at
\* the exposure held before the trade.
CheckExposure(o, views, ledger) ==
    LET heldAt(v) == Mul(VenueExposure(ledger, v), Mid(views[v]))
    IN  /\ HasMid(views[o.buyV]) => ~Exceeds(heldAt(o.buyV), MaxVenueExposure)
        /\ HasMid(views[o.sellV]) =>
              /\ ~Exceeds(heldAt(o.sellV), MaxVenueExposure)
              /\ ~Exceeds(heldAt(o.sellV), MaxSymbolExposure)
              /\ ~Exceeds(Mul(TotalExposure(ledger), Mid(views[o.sellV])), MaxTotalExposure)
=============================================================================
