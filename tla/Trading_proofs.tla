--------------------------- MODULE Trading_proofs ---------------------------
(***************************************************************************)
(* The evaluation loop, for every set of venues, views and limits.         *)
(* Its control properties rest on the order of its steps and on who may    *)
(* write the risk state in between; its accounting on the types of what    *)
(* the walks over the levels compute, and on Settle being the only step    *)
(* that writes the ledger.                                                 *)
(***************************************************************************)
EXTENDS Trading, Execution_proofs

\* What the operations on the risk state do to the switch and the counter.
LEMMA RiskOperations ==
    ASSUME NEW st \in RiskStates
    PROVE  /\ ActivateKillSwitch(st) \in RiskStates
           /\ ActivateKillSwitch(st).kill /\ ActivateKillSwitch(st).fails = st.fails
           /\ ResetKillSwitch(st) \in RiskStates
           /\ ResetKillSwitch(st).fails = st.fails
           /\ NoteOrderOpened(st) \in RiskStates
           /\ NoteOrderOpened(st).kill = st.kill /\ NoteOrderOpened(st).fails = st.fails
           /\ NoteOrderClosed(st) \in RiskStates
           /\ NoteOrderClosed(st).kill = st.kill
           /\ \A success \in BOOLEAN :
                 /\ NoteExecutionResult(st, success) \in RiskStates
                 /\ NoteExecutionResult(st, success).kill = st.kill
<1> USE DEF RiskStates
<1>1. /\ ActivateKillSwitch(st) \in RiskStates
      /\ ActivateKillSwitch(st).kill /\ ActivateKillSwitch(st).fails = st.fails
  BY DEF ActivateKillSwitch
<1>2. ResetKillSwitch(st) \in RiskStates /\ ResetKillSwitch(st).fails = st.fails
  BY DEF ResetKillSwitch
<1>3. /\ NoteOrderOpened(st) \in RiskStates
      /\ NoteOrderOpened(st).kill = st.kill /\ NoteOrderOpened(st).fails = st.fails
  BY DEF NoteOrderOpened
<1>4. NoteOrderClosed(st) \in RiskStates /\ NoteOrderClosed(st).kill = st.kill
  BY DEF NoteOrderClosed
<1>5. ASSUME NEW success \in BOOLEAN
      PROVE  /\ NoteExecutionResult(st, success) \in RiskStates
             /\ NoteExecutionResult(st, success).kill = st.kill
  BY DEF NoteExecutionResult
<1> QED  BY <1>1, <1>2, <1>3, <1>4, <1>5

\* What they do to the count of outstanding orders.
LEMMA OutstandingFacts ==
    ASSUME NEW st \in RiskStates
    PROVE  /\ ActivateKillSwitch(st).outstanding = st.outstanding
           /\ ResetKillSwitch(st).outstanding = st.outstanding
           /\ NoteOrderOpened(st).outstanding = st.outstanding + 1
           /\ st.outstanding > 0 => NoteOrderClosed(st).outstanding = st.outstanding - 1
           /\ \A success \in BOOLEAN : NoteExecutionResult(st, success).outstanding = st.outstanding
<1> USE DEF RiskStates
<1>1. /\ ActivateKillSwitch(st).outstanding = st.outstanding
      /\ ResetKillSwitch(st).outstanding = st.outstanding
  BY DEF ActivateKillSwitch, ResetKillSwitch
<1>2. NoteOrderOpened(st).outstanding = st.outstanding + 1
  BY DEF NoteOrderOpened
<1>3. st.outstanding > 0 => NoteOrderClosed(st).outstanding = st.outstanding - 1
  BY DEF NoteOrderClosed
<1>4. \A success \in BOOLEAN : NoteExecutionResult(st, success).outstanding = st.outstanding
  BY DEF NoteExecutionResult
<1> QED  BY <1>1, <1>2, <1>3, <1>4

\* Two orders are opened together; neither the switch nor the counter moves.
LEMMA SubmitRisk ==
    ASSUME risk \in RiskStates, SubmitOrders
    PROVE  risk' \in RiskStates /\ risk'.kill = risk.kill /\ risk'.fails = risk.fails
<1>1. NoteOrderOpened(risk) \in RiskStates
  BY RiskOperations
<1> QED  BY <1>1, RiskOperations DEF SubmitOrders

\* Closing a trade may turn the switch on and never turns it off.
LEMMA CloseRisk ==
    ASSUME risk \in RiskStates, CloseOrders
    PROVE  risk' \in RiskStates /\ (risk.kill => risk'.kill)
<1> DEFINE success == legs.buy.filled > 0 /\ legs.sell.filled > 0
           first  == NoteOrderClosed(risk)
           closed == NoteOrderClosed(first)
           noted  == NoteExecutionResult(closed, success)
<1>1. first \in RiskStates /\ first.kill = risk.kill
  BY RiskOperations
<1>2. closed \in RiskStates /\ closed.kill = risk.kill
  BY <1>1, RiskOperations
<1>3. noted \in RiskStates /\ noted.kill = risk.kill
  BY <1>2, RiskOperations
<1>4. risk' = IF TooManyFails(noted) THEN ActivateKillSwitch(noted) ELSE noted
  BY DEF CloseOrders
<1> QED  BY <1>3, <1>4, RiskOperations

-----------------------------------------------------------------------------
(* Detection. *)

\* The states of the walk of vwapOf.
VwapAccs == [left : Nat, filled : Nat, cost : Nat]

VwapStart(qty) == [left |-> qty, filled |-> 0, cost |-> 0]

VwapTurn(level, acc) ==
    LET take == Lesser(level.qty, acc.left)
    IN  [left |-> acc.left - take, filled |-> acc.filled + take,
         cost |-> acc.cost + Mul(level.price, take)]

\* The walk, and what vwapOf makes of its end.
IsVwapWalk(levels, qty, walk) ==
    /\ walk \in [0..Len(levels) -> VwapAccs]
    /\ walk[0] = VwapStart(qty)
    /\ \A i \in 1..Len(levels) : walk[i] = VwapTurn(levels[i], walk[i - 1])
    /\ vwapOf(levels, qty).vwap =
          IF walk[Len(levels)].filled = 0 THEN 0
          ELSE Div(walk[Len(levels)].cost, walk[Len(levels)].filled)
    /\ vwapOf(levels, qty).cost = walk[Len(levels)].cost
    /\ vwapOf(levels, qty).ok <=> walk[Len(levels)].filled # 0 /\ walk[Len(levels)].left = 0

\* One turn of it.
LEMMA VwapTurnFacts ==
    ASSUME NEW acc \in VwapAccs, NEW level \in Quotes
    PROVE  VwapTurn(level, acc) \in VwapAccs
  <1> DEFINE t == Lesser(level.qty, acc.left)
  <1>1. /\ level.qty \in Nat /\ level.price \in Nat
        /\ acc.left \in Nat /\ acc.filled \in Nat /\ acc.cost \in Nat
    BY DEF Quotes, VwapAccs
  <1>2. t \in Nat /\ t <= acc.left
    BY <1>1 DEF Lesser
  <1>3. VwapTurn(level, acc) = [left |-> acc.left - t, filled |-> acc.filled + t,
                                cost |-> acc.cost + Mul(level.price, t)]
    BY DEF VwapTurn
  <1> HIDE DEF t
  <1>4. Mul(level.price, t) \in Nat
    BY <1>1, <1>2, DecimalFacts
  <1>5. acc.left - t \in Nat /\ acc.filled + t \in Nat /\ acc.cost + Mul(level.price, t) \in Nat
    BY <1>1, <1>2, <1>4
  <1> QED  BY <1>3, <1>5 DEF VwapAccs

\* vwapOf is such a walk, whatever the depth of the book.
LEMMA VwapWalk ==
    ASSUME NEW levels \in Seq(Quotes), NEW qty \in Nat
    PROVE  \E walk : IsVwapWalk(levels, qty, walk)
  <1> DEFINE n == Len(levels)
             start == VwapStart(qty)
             Walk(f) == [i \in 0..n |-> IF i = 0 THEN start ELSE VwapTurn(levels[i], f[i - 1])]
             walk == CHOOSE f : f = Walk(f)
             end == walk[n]
             step == [i \in 1..n |-> [acc \in VwapAccs |-> VwapTurn(levels[i], acc)]]
  <1>1. /\ vwapOf(levels, qty).vwap = IF end.filled = 0 THEN 0 ELSE Div(end.cost, end.filled)
        /\ vwapOf(levels, qty).cost = end.cost
        /\ vwapOf(levels, qty).ok <=> end.filled # 0 /\ end.left = 0
    BY DEF vwapOf, VwapTurn, VwapStart
  <1>2. n \in Nat /\ \A i \in 1..n : levels[i] \in Quotes
    BY ElementFacts
  <1>3. start \in VwapAccs
    BY DEF VwapAccs, VwapStart
  <1>4. \A i \in 1..n : \A acc \in VwapAccs : VwapTurn(levels[i], acc) \in VwapAccs
    BY <1>2, VwapTurnFacts
  <1> HIDE DEF n, start
  <1>5. step \in Steps(n, VwapAccs)
    BY <1>4 DEF Steps
  <1>6. PICK f \in [0..n -> VwapAccs] : f[0] = start /\ \A i \in 1..n : f[i] = step[i][f[i - 1]]
    <2> HIDE DEF step
    <2>1. HasWalk(n, VwapAccs, start, step)
      BY <1>2, <1>3, <1>5, WalkExists
    <2> QED  BY <2>1 DEF HasWalk
  <1>7. f = Walk(f)
    <2>1. ASSUME NEW i \in 1..n PROVE f[i] = VwapTurn(levels[i], f[i - 1])
      <3>1. i - 1 \in 0..n
        BY <1>2
      <3>2. f[i - 1] \in VwapAccs /\ f[i] = step[i][f[i - 1]]
        BY <1>6, <3>1
      <3> QED  BY <3>2
    <2>2. \A i \in 0..n : i = 0 \/ i \in 1..n
      BY <1>2
    <2> QED  BY <1>6, <2>1, <2>2
  <1>8. walk = Walk(walk)
    <2> HIDE DEF Walk
    <2> QED  BY <1>7
  <1>9. walk[0] = start /\ \A i \in 1..n : walk[i] = VwapTurn(levels[i], walk[i - 1])
    <2>1. 0 \in 0..n /\ \A i \in 1..n : i \in 0..n /\ i # 0
      BY <1>2
    <2> HIDE DEF walk
    <2> QED  BY <1>8, <2>1
  <1>10. walk = [i \in 0..n |-> walk[i]]
    <2> HIDE DEF walk
    <2> QED  BY <1>8
  <1> HIDE DEF walk
  <1> DEFINE S == {i \in 0..n : walk[i] \in VwapAccs}
  <1>11. 0 \in S
    BY <1>2, <1>3, <1>9
  <1>12. ASSUME NEW i \in 1..n, i - 1 \in S PROVE i \in S
    BY <1>2, <1>4, <1>9, <1>12
  <1>13. walk \in [0..n -> VwapAccs]
    <2> HIDE DEF S
    <2>1. 0..n \subseteq S
      BY <1>2, <1>11, <1>12, Induction
    <2> QED  BY <1>10, <2>1 DEF S
  <1>14. IsVwapWalk(levels, qty, walk)
    BY <1>1, <1>9, <1>13 DEF IsVwapWalk, n, start
  <1> QED  BY <1>14

\* vwapOf returns naturals.
LEMMA VwapFacts ==
    ASSUME NEW levels \in Seq(Quotes), NEW qty \in Nat
    PROVE  vwapOf(levels, qty).vwap \in Nat /\ vwapOf(levels, qty).cost \in Nat
  <1> DEFINE n == Len(levels)
             v == vwapOf(levels, qty)
  <1>1. PICK walk : IsVwapWalk(levels, qty, walk)
    BY VwapWalk
  <1>2. n \in 0..n
    BY ElementFacts
  <1>3. /\ walk[n] \in VwapAccs /\ v.cost = walk[n].cost
        /\ v.vwap = IF walk[n].filled = 0 THEN 0 ELSE Div(walk[n].cost, walk[n].filled)
    BY <1>1, <1>2 DEF IsVwapWalk
  <1>4. walk[n].filled \in Nat /\ walk[n].cost \in Nat
    BY <1>3 DEF VwapAccs
  <1> HIDE DEF v
  <1>5. v.cost \in Nat /\ v.vwap \in Nat
    BY <1>3, <1>4, DecimalFacts
  <1> QED  BY <1>5 DEF v

\* Opportunities between two different venues.
Pairings == {x \in Opportunities : x.buyV # x.sellV}

\* A pair yields a sequence of opportunities.
LEMMA EvaluateFacts ==
    ASSUME NEW buyV \in VenueSet, NEW sellV \in VenueSet, buyV # sellV,
           NEW buyView \in BookViews, NEW sellView \in BookViews
    PROVE  evaluatePair(buyV, sellV, buyView, sellView) \in Seq(Pairings)
  <1> DEFINE buy  == vwapOf(buyView.asks, TradeQty)
             sell == vwapOf(sellView.bids, TradeQty)
             net  == Net(buyV, sellV, buy, sell)
             opp  == [buyV |-> buyV, sellV |-> sellV, qty |-> TradeQty,
                      buyVWAP |-> buy.vwap, sellVWAP |-> sell.vwap, net |-> net]
  <1>1. buyView.asks \in Seq(Quotes) /\ sellView.bids \in Seq(Quotes) /\ TradeQty \in Nat
    BY TradingAssumption DEF BookViews
  <1>2. buy.vwap \in Nat /\ buy.cost \in Nat /\ sell.vwap \in Nat /\ sell.cost \in Nat
    BY <1>1, VwapFacts
  <1> HIDE DEF buy, sell
  <1>3. net \in Int
    <2> DEFINE a == MulBps(buy.cost, TakerBps[buyV])
               b == MulBps(sell.cost, TakerBps[sellV])
               c == MulBps(buy.cost, SlippageBps)
    <2>1. TakerBps[buyV] \in Nat /\ TakerBps[sellV] \in Nat /\ SlippageBps \in Nat
      BY TradingAssumption
    <2>2. a \in Nat /\ b \in Nat /\ c \in Nat
      BY <1>2, <2>1, DecimalFacts
    <2>3. net = sell.cost - buy.cost - (a + b) - c
      BY DEF Net
    <2> HIDE DEF a, b, c, net
    <2> QED  BY <1>2, <2>2, <2>3
  <1> HIDE DEF net
  <1>5. opp \in Pairings
    BY <1>1, <1>2, <1>3 DEF Pairings, Opportunities
  <1>6. \/ evaluatePair(buyV, sellV, buyView, sellView) = <<>>
        \/ evaluatePair(buyV, sellV, buyView, sellView) = <<opp>>
    BY DEF evaluatePair, buy, sell, net
  <1> HIDE DEF opp
  <1>7. <<>> \in Seq(Pairings) /\ (opp \in Pairings => <<opp>> \in Seq(Pairings))
    OBVIOUS
  <1> DEFINE e == evaluatePair(buyV, sellV, buyView, sellView)
  <1> HIDE DEF e
  <1> QED  BY <1>5, <1>6, <1>7 DEF e

\* The pairs of a scan.
LEMMA PairsFacts == VenuePairs \in Seq(VenueSet \X VenueSet) /\ VenuePairs # <<>>
  <1> DEFINE n == Len(VenueOrder)
             m == n * n
  <1>1. n \in Nat /\ n # 0 /\ \A i \in 1..n : VenueOrder[i] \in VenueSet
    BY TradingAssumption, ElementFacts
  <1>2. VenuePairs = [k \in 1..m |-> <<VenueOrder[((k - 1) \div n) + 1],
                                       VenueOrder[((k - 1) % n) + 1]>>]
    BY DEF VenuePairs
  <1> HIDE DEF n
  <1>3. m \in Nat /\ m >= 1
    BY <1>1
  <1>4. ASSUME NEW k \in 1..m
        PROVE  ((k - 1) \div n) + 1 \in 1..n /\ ((k - 1) % n) + 1 \in 1..n
    <2> DEFINE x == k - 1
               q == x \div n
    <2>1. x \in Nat /\ x < m
      BY <1>3
    <2>2. q \in Nat /\ x % n \in 0..(n - 1) /\ n * q <= x
      BY <1>1, <2>1
    <2>3. q < n
      <3> HIDE DEF q, x
      <3> SUFFICES ASSUME q >= n PROVE FALSE
        BY <1>1, <2>2
      <3>1. n * q >= n * n
        BY <1>1, <2>2
      <3> QED  BY <1>1, <2>1, <2>2, <3>1
    <2> QED  BY <1>1, <2>2, <2>3
  <1> HIDE DEF m
  <1>5. VenuePairs \in [1..m -> VenueSet \X VenueSet]
    BY <1>1, <1>2, <1>4
  <1>6. VenuePairs \in Seq(VenueSet \X VenueSet) /\ DOMAIN VenuePairs = 1..m
    BY <1>3, <1>5
  <1>7. 1 \in 1..m
    BY <1>3
  <1>8. VenuePairs # <<>>
    <2> SUFFICES ASSUME VenuePairs = <<>> PROVE FALSE
      OBVIOUS
    <2>1. DOMAIN <<>> = {}
      OBVIOUS
    <2> QED  BY <1>6, <1>7, <2>1
  <1> QED  BY <1>6, <1>8

-----------------------------------------------------------------------------
(* The control properties. *)

\* The risk state the engine starts with.
LEMMA InitRisk == Init => risk \in RiskStates
  BY DEF Init, NewState, RiskStates

-----------------------------------------------------------------------------
\* One kill switch lets through one trade at most, however the API's requests
\* fall between the steps of maybeExecute.
THEOREM KillSwitchBounds == Spec => []AtMostOneTradeUnderKill
<1>1. Init => KillInv
  <2>1. Init => underKill = 0
    BY DEF Init
  <2> QED  BY <2>1, InitRisk DEF KillInv
<1>2. KillInv /\ [Next]_vars => KillInv'
  <2> SUFFICES ASSUME KillInv, [Next]_vars PROVE KillInv'
    OBVIOUS
  <2> USE DEF KillInv
  <2>1. ASSUME NEW v \in VenueSet, NEW view \in Views[v], Publish(v, view) PROVE KillInv'
    BY <2>1 DEF Publish
  <2>2. CASE KillHandler
    BY <2>2, RiskOperations DEF KillHandler, history
  <2>3. CASE KillResetHandler
    BY <2>3, RiskOperations DEF KillResetHandler
  <2>4. CASE EvaluateOnce \/ ScanPair \/ ScanDone
    BY <2>4 DEF EvaluateOnce, ScanPair, ScanDone, history
  <2>5. CASE RiskCheckState
    BY <2>5 DEF RiskCheckState, CheckState, Reject, history
  <2>6. CASE RiskCheckFresh \/ RiskCheckExposure
    BY <2>6 DEF RiskCheckFresh, RiskCheckExposure, Reject, history
  <2>7. CASE SubmitOrders
    BY <2>7, SubmitRisk DEF SubmitOrders
  <2>8. CASE FillFirst \/ FillSecond
    BY <2>8 DEF FillFirst, FillSecond, FillLeg, history
  <2>9. CASE CloseOrders
    BY <2>9, CloseRisk DEF CloseOrders, history
  <2>10. CASE Settle
    BY <2>10 DEF Settle
  <2>11. CASE UNCHANGED vars
    BY <2>11 DEF vars, history
  <2> QED
    BY <2>1, <2>2, <2>3, <2>4, <2>5, <2>6, <2>7, <2>8, <2>9, <2>10, <2>11
    DEF Next, Others, Loop
<1>3. KillInv => AtMostOneTradeUnderKill
  BY DEF KillInv, AtMostOneTradeUnderKill
<1> QED  BY <1>1, <1>2, <1>3, PTL DEF Spec

\* Once MaxConsecutiveFails is reached no trade is under way again, resets of
\* the kill switch included.
THEOREM FailuresLock == Spec => []NoTradeAfterFailures
<1>1. Init => FailureInv
  <2>1. Init => pc = "idle"
    BY DEF Init
  <2> QED  BY <2>1, InitRisk DEF FailureInv
<1>2. FailureInv /\ [Next]_vars => FailureInv'
  <2> SUFFICES ASSUME FailureInv, [Next]_vars PROVE FailureInv'
    OBVIOUS
  <2> USE DEF FailureInv, TooManyFails
  <2>1. ASSUME NEW v \in VenueSet, NEW view \in Views[v], Publish(v, view) PROVE FailureInv'
    BY <2>1 DEF Publish
  <2>2. CASE KillHandler \/ KillResetHandler
    BY <2>2, RiskOperations DEF KillHandler, KillResetHandler
  <2>3. CASE EvaluateOnce \/ ScanPair \/ ScanDone
    BY <2>3 DEF EvaluateOnce, ScanPair, ScanDone
  <2>4. CASE RiskCheckState
    BY <2>4 DEF RiskCheckState, CheckState, Reject
  <2>5. CASE RiskCheckFresh \/ RiskCheckExposure
    BY <2>5 DEF RiskCheckFresh, RiskCheckExposure, Reject
  <2>6. CASE SubmitOrders
    BY <2>6, SubmitRisk DEF SubmitOrders
  <2>7. CASE FillFirst \/ FillSecond
    BY <2>7 DEF FillFirst, FillSecond, FillLeg
  <2>8. CASE CloseOrders
    BY <2>8, CloseRisk DEF CloseOrders
  <2>9. CASE Settle
    BY <2>9 DEF Settle
  <2>10. CASE UNCHANGED vars
    BY <2>10 DEF vars
  <2> QED
    BY <2>1, <2>2, <2>3, <2>4, <2>5, <2>6, <2>7, <2>8, <2>9, <2>10 DEF Next, Others, Loop
<1>3. FailureInv => NoTradeAfterFailures
  BY DEF FailureInv, NoTradeAfterFailures
<1> QED  BY <1>1, <1>2, <1>3, PTL DEF Spec
-----------------------------------------------------------------------------
(* The ledger. *)

Positions == [qty : Int, avg : Int]

\* Whatever it does to the average, a trade moves the position by its size.
LEMMA PositionFacts ==
    ASSUME NEW p \in Positions, NEW px \in Nat, NEW qty \in Int
    PROVE  addBuy(p, px, qty) \in Positions /\ addBuy(p, px, qty).qty = p.qty + qty
  <1> DEFINE newQty == p.qty + qty
             total  == Mul(p.avg, p.qty) + Mul(px, qty)
  <1>1. newQty \in Int /\ p.qty \in Int /\ p.avg \in Int /\ px \in Int
    BY DEF Positions
  <1>2. total \in Int
    <2>1. Mul(p.avg, p.qty) \in Int /\ Mul(px, qty) \in Int
      BY <1>1, DecimalFacts
    <2> QED  BY <2>1
  <1> HIDE DEF newQty, total
  <1>3. newQty # 0 => Div(total, newQty) \in Int
    BY <1>1, <1>2, DecimalFacts
  <1>4. \/ addBuy(p, px, qty) = [p EXCEPT !.qty = newQty]
        \/ addBuy(p, px, qty) = [qty |-> newQty, avg |-> px]
        \/ newQty = 0 /\ addBuy(p, px, qty) = [p EXCEPT !.qty = 0]
        \/ newQty # 0 /\ addBuy(p, px, qty) = [qty |-> newQty, avg |-> Div(total, newQty)]
    <2>1. CASE p.qty < 0
      BY <1>1, <2>1 DEF addBuy, newQty, total
    <2>2. CASE p.qty >= 0
      BY <1>1, <2>2 DEF addBuy, newQty, total
    <2> QED  BY <1>1, <2>1, <2>2
  <1> DEFINE r == addBuy(p, px, qty)
  <1> HIDE DEF r
  <1>5. r \in Positions /\ r.qty = newQty
    BY <1>1, <1>3, <1>4 DEF Positions, r
  <1> QED  BY <1>5 DEF r, newQty

Cost(leg) == Mul(leg.vwap, leg.filled) + leg.fee
Proceeds(leg) == Mul(leg.vwap, leg.filled) - leg.fee

\* l2 is l with the balances and the position of v moved.
Moves(l, l2, v, quote, base) ==
    /\ l2 \in Ledgers /\ l2.realized = l.realized
    /\ l2.quote = [l.quote EXCEPT ![v] = @ + quote]
    /\ l2.base = [l.base EXCEPT ![v] = @ + base]
    /\ \A w \in VenueSet : l2.pos[w].qty = l.pos[w].qty + (IF w = v THEN base ELSE 0)

\* What a settled buy and a settled sell move.
LEMMA SettledFacts ==
    ASSUME NEW l \in Ledgers, NEW v \in VenueSet, NEW leg \in LegResults
    PROVE  /\ Cost(leg) \in Nat /\ Proceeds(leg) \in Int
           /\ CanSettleBuy(l, v, leg) => Moves(l, ApplyBuy(l, v, leg), v, -Cost(leg), leg.filled)
           /\ ~CanSettleBuy(l, v, leg) => ApplyBuy(l, v, leg) = l
           /\ CanSettleSell(l, v, leg) => Moves(l, ApplySell(l, v, leg), v, Proceeds(leg), -leg.filled)
           /\ ~CanSettleSell(l, v, leg) => ApplySell(l, v, leg) = l
  <1>1. /\ l.quote \in [VenueSet -> Int] /\ l.base \in [VenueSet -> Int] /\ l.realized \in Int
        /\ l.pos \in [VenueSet -> Positions]
        /\ leg.filled \in Nat /\ leg.vwap \in Nat /\ leg.fee \in Nat
        /\ leg.filled \in Int /\ -leg.filled \in Int /\ l.pos[v] \in Positions
    BY DEF Ledgers, LegResults, Positions
  <1> DEFINE value == Mul(leg.vwap, leg.filled)
  <1>2. value \in Nat
    BY <1>1, DecimalFacts
  <1>3. Cost(leg) = value + leg.fee /\ Proceeds(leg) = value - leg.fee
    BY DEF Cost, Proceeds
  <1> HIDE DEF value
  <1>4. Cost(leg) \in Nat /\ Proceeds(leg) \in Int
    BY <1>1, <1>2, <1>3
  <1>5. ASSUME NEW p \in Positions, NEW quote \in Int, NEW base \in Int,
               p.qty = l.pos[v].qty + base, NEW l2,
               l2.quote = [l.quote EXCEPT ![v] = l.quote[v] + quote],
               l2.base = [l.base EXCEPT ![v] = l.base[v] + base],
               l2.pos = [l.pos EXCEPT ![v] = p], l2.realized = l.realized,
               l2 = [quote |-> l2.quote, base |-> l2.base, realized |-> l2.realized, pos |-> l2.pos]
        PROVE  Moves(l, l2, v, quote, base)
    <2>1. /\ l2.quote \in [VenueSet -> Int] /\ l2.base \in [VenueSet -> Int]
          /\ l2.pos \in [VenueSet -> Positions]
      BY <1>1, <1>5
    <2>2. l2 \in Ledgers
      BY <1>1, <1>5, <2>1 DEF Ledgers, Positions
    <2>3. \A w \in VenueSet : l2.pos[w].qty = l.pos[w].qty + (IF w = v THEN base ELSE 0)
      <3>1. ASSUME NEW w \in VenueSet PROVE l.pos[w].qty \in Int
        BY <1>1 DEF Positions
      <3> QED  BY <1>1, <1>5, <3>1
    <2> QED  BY <1>5, <2>2, <2>3 DEF Moves
  <1>6. ASSUME CanSettleBuy(l, v, leg)
        PROVE  Moves(l, ApplyBuy(l, v, leg), v, -Cost(leg), leg.filled)
    <2> DEFINE p == addBuy(l.pos[v], leg.vwap, leg.filled)
               l2 == ApplyBuy(l, v, leg)
    <2>1. p \in Positions /\ p.qty = l.pos[v].qty + leg.filled
      BY <1>1, PositionFacts
    <2>2. /\ l2.quote = [l.quote EXCEPT ![v] = l.quote[v] - Cost(leg)]
          /\ l2.base = [l.base EXCEPT ![v] = l.base[v] + leg.filled]
          /\ l2.pos = [l.pos EXCEPT ![v] = p] /\ l2.realized = l.realized
          /\ l2 = [quote |-> l2.quote, base |-> l2.base, realized |-> l2.realized, pos |-> l2.pos]
      BY <1>6 DEF ApplyBuy, Cost, Ledgers
    <2>3. l.quote[v] - Cost(leg) = l.quote[v] + (-Cost(leg)) /\ -Cost(leg) \in Int /\ leg.filled \in Int
      BY <1>1, <1>4
    <2> HIDE DEF p, l2
    <2>4. Moves(l, l2, v, -Cost(leg), leg.filled)
      BY <1>5, <2>1, <2>2, <2>3
    <2> QED  BY <2>4 DEF l2
  <1>7. ASSUME CanSettleSell(l, v, leg)
        PROVE  Moves(l, ApplySell(l, v, leg), v, Proceeds(leg), -leg.filled)
    <2> DEFINE p == addBuy(l.pos[v], leg.vwap, -leg.filled)
               l2 == ApplySell(l, v, leg)
    <2>1. p \in Positions /\ p.qty = l.pos[v].qty + (-leg.filled)
      BY <1>1, PositionFacts
    <2>2. /\ l2.quote = [l.quote EXCEPT ![v] = l.quote[v] + Proceeds(leg)]
          /\ l2.base = [l.base EXCEPT ![v] = l.base[v] - leg.filled]
          /\ l2.pos = [l.pos EXCEPT ![v] = p] /\ l2.realized = l.realized
          /\ l2 = [quote |-> l2.quote, base |-> l2.base, realized |-> l2.realized, pos |-> l2.pos]
      BY <1>7 DEF ApplySell, Proceeds, addSell, Ledgers
    <2>3. l.base[v] - leg.filled = l.base[v] + (-leg.filled) /\ -leg.filled \in Int
      BY <1>1
    <2> HIDE DEF p, l2
    <2>4. Moves(l, l2, v, Proceeds(leg), -leg.filled)
      BY <1>4, <1>5, <2>1, <2>2, <2>3
    <2> QED  BY <2>4 DEF l2
  <1> QED  BY <1>4, <1>6, <1>7 DEF ApplyBuy, ApplySell

-----------------------------------------------------------------------------
(* Type correctness.  The walks over the levels are typed only if what is  *)
(* left of an order is natural, and the count of outstanding orders only   *)
(* if it is known where in the loop orders are open.                       *)

Sides == {"buy", "sell"}

OrdersInv ==
    \A side \in Sides : /\ orders[side].filled <= orders[side].qty
                        /\ orders[side].qty <= TradeQty
                        /\ legs[side].filled <= TradeQty

TypeInv ==
    /\ TypeOK
    /\ pairs \in Seq(VenueSet \X VenueSet)
    /\ pc = "scan" => pairs # <<>>
    /\ opps \in Seq(Pairings)
    /\ OrdersInv
    /\ risk.outstanding = IF pc \in {"leg1", "leg2", "close"} THEN 2 ELSE 0

\* The opportunity at hand.
LEMMA AtHand ==
    ASSUME TypeInv, opps # <<>>
    PROVE  /\ o.buyV \in VenueSet /\ o.sellV \in VenueSet /\ o.buyV # o.sellV /\ o.qty = TradeQty
           /\ Tail(opps) \in Seq(Pairings) /\ Tail(opps) \in Seq(Opportunities)
  <1>1. o \in Pairings
    BY TailFacts DEF TypeInv, o
  <1>2. Tail(opps) \in Seq(Pairings)
    BY TailFacts DEF TypeInv
  <1>3. Tail(opps) \in Seq(Opportunities)
    BY TailFacts DEF TypeInv, TypeOK
  <1> HIDE DEF o
  <1> QED  BY <1>1, <1>2, <1>3 DEF Pairings, Opportunities

\* The published views.
LEMMA ViewFacts ==
    ASSUME TypeOK, NEW v \in VenueSet
    PROVE  views[v] \in BookViews /\ views[v] \in AllViews /\ views[v] \in Views[v]
  <1>1. views[v] \in Views[v] /\ views[v] \in AllViews
    BY DEF TypeOK
  <1> QED  BY <1>1, TradingAssumption

\* Filling a leg.
LEMMA FillLegFacts ==
    ASSUME TypeInv, NEW side \in Sides, FillLeg(side), opps # <<>>
    PROVE  /\ orders' \in [buy : Orders, sell : Orders]
           /\ legs' \in [buy : LegResults, sell : LegResults]
           /\ OrdersInv'
  <1> DEFINE v == IF side = "buy" THEN o.buyV ELSE o.sellV
             r == FillAgainstBook(orders[side], views[v], TakerBps[v])
  <1>1. v \in VenueSet
    BY AtHand
  <1>2. /\ orders \in [buy : Orders, sell : Orders] /\ legs \in [buy : LegResults, sell : LegResults]
        /\ orders[side] \in Orders /\ orders[side].filled <= orders[side].qty
        /\ orders[side].qty <= TradeQty
    BY DEF TypeInv, TypeOK, OrdersInv, Sides
  <1>3. orders' = [orders EXCEPT ![side] = r.order] /\ legs' = [legs EXCEPT ![side] = r.leg]
    BY DEF FillLeg
  <1> HIDE DEF v
  <1>4. views[v] \in BookViews /\ TakerBps[v] \in Nat
    BY <1>1, ViewFacts, TradingAssumption DEF TypeInv
  <1>5. views[v].bids \in Seq(Quotes) /\ views[v].asks \in Seq(Quotes)
    BY <1>4 DEF BookViews
  <1>6. /\ r.order \in Orders /\ r.order.filled <= r.order.qty /\ r.order.qty = orders[side].qty
        /\ r.leg \in LegResults /\ r.leg.filled <= orders[side].qty
    BY <1>2, <1>4, <1>5, FillAgainstBookFacts
  <1> HIDE DEF r
  <1>7. r.leg.filled <= TradeQty /\ r.order.qty <= TradeQty
    <2>1. r.leg.filled \in Nat /\ orders[side].qty \in Nat /\ TradeQty \in Nat
      BY <1>2, <1>6, TradingAssumption DEF Orders, LegResults
    <2> QED  BY <1>2, <1>6, <2>1
  <1>8. \A x \in Sides : /\ orders'[x] = IF x = side THEN r.order ELSE orders[x]
                         /\ legs'[x] = IF x = side THEN r.leg ELSE legs[x]
    BY <1>2, <1>3 DEF Sides
  <1>9. /\ orders' \in [buy : Orders, sell : Orders] /\ legs' \in [buy : LegResults, sell : LegResults]
    BY <1>2, <1>3, <1>6 DEF Sides
  <1>10. OrdersInv'
    BY <1>6, <1>7, <1>8 DEF OrdersInv, TypeInv
  <1> QED  BY <1>9, <1>10

\* The profit of a trade.
LEMMA PnLFacts ==
    ASSUME NEW buy \in LegResults, NEW sell \in LegResults
    PROVE  /\ RealizedPnL(buy, sell) \in Int
           /\ buy.filled = 0 \/ sell.filled = 0 => RealizedPnL(buy, sell) = 0
           /\ buy.filled > 0 /\ buy.filled = sell.filled =>
                 RealizedPnL(buy, sell) = Proceeds(sell) - Cost(buy)
  <1> DEFINE matched == Lesser(buy.filled, sell.filled)
             a == Mul(sell.vwap, matched)
             b == Mul(buy.vwap, matched)
  <1>1. /\ buy.filled \in Nat /\ buy.vwap \in Nat /\ buy.fee \in Nat
        /\ sell.filled \in Nat /\ sell.vwap \in Nat /\ sell.fee \in Nat
    BY DEF LegResults
  <1>2. /\ matched \in Nat
        /\ buy.filled = 0 \/ sell.filled = 0 => matched = 0
        /\ buy.filled = sell.filled => matched = buy.filled
    BY <1>1 DEF Lesser
  <1>3. RealizedPnL(buy, sell) = IF matched > 0 THEN a - b - (buy.fee + sell.fee) ELSE 0
    BY DEF RealizedPnL
  <1>4. buy.filled = sell.filled => Proceeds(sell) = a - sell.fee /\ Cost(buy) = b + buy.fee
    BY <1>2 DEF Proceeds, Cost
  <1> HIDE DEF matched
  <1>5. a \in Nat /\ b \in Nat
    BY <1>1, <1>2, DecimalFacts
  <1> HIDE DEF a, b
  <1> QED  BY <1>1, <1>2, <1>3, <1>4, <1>5

\* A ledger after a leg: moved by it, or left as it was because nothing was
\* filled or the ledger refused.
SettledBuy == legs.buy.filled > 0 /\ CanSettleBuy(ledger, o.buyV, legs.buy)
SettledSell == legs.sell.filled > 0 /\ CanSettleSell(Bought, o.sellV, legs.sell)

\* The two legs of a settlement.
LEMMA SettleFacts ==
    ASSUME TypeInv, opps # <<>>
    PROVE  /\ Bought \in Ledgers /\ Sold \in Ledgers
           /\ SettledBuy => Moves(ledger, Bought, o.buyV, -Cost(legs.buy), legs.buy.filled)
           /\ ~SettledBuy => Bought = ledger
           /\ SettledSell => Moves(Bought, Sold, o.sellV, Proceeds(legs.sell), -legs.sell.filled)
           /\ ~SettledSell => Sold = Bought
  <1>1. /\ ledger \in Ledgers /\ legs.buy \in LegResults /\ legs.sell \in LegResults
        /\ o.buyV \in VenueSet /\ o.sellV \in VenueSet
    BY AtHand DEF TypeInv, TypeOK
  <1>2. /\ SettledBuy => Moves(ledger, Bought, o.buyV, -Cost(legs.buy), legs.buy.filled)
        /\ ~SettledBuy => Bought = ledger
    BY <1>1, SettledFacts DEF Bought, SettledBuy
  <1>3. Bought \in Ledgers
    BY <1>1, <1>2 DEF Moves
  <1>4. /\ SettledSell => Moves(Bought, Sold, o.sellV, Proceeds(legs.sell), -legs.sell.filled)
        /\ ~SettledSell => Sold = Bought
    BY <1>1, <1>3, SettledFacts DEF Sold, SettledSell
  <1>5. Sold \in Ledgers
    BY <1>3, <1>4 DEF Moves
  <1> QED  BY <1>2, <1>3, <1>4, <1>5

\* The ledger after the profit was booked.
LEMMA BookedFacts ==
    ASSUME TypeInv, Settle, opps # <<>>
    PROVE  /\ ledger' \in Ledgers
           /\ ledger'.quote = Sold.quote /\ ledger'.base = Sold.base /\ ledger'.pos = Sold.pos
           /\ ledger'.realized = Sold.realized + RealizedPnL(legs.buy, legs.sell)
  <1> DEFINE pnl == RealizedPnL(legs.buy, legs.sell)
  <1>1. legs.buy \in LegResults /\ legs.sell \in LegResults
    BY DEF TypeInv, TypeOK
  <1>2. pnl \in Int
    BY <1>1, PnLFacts
  <1>3. ledger' = [Sold EXCEPT !.realized = Sold.realized + pnl]
    BY DEF Settle, AddRealized
  <1>4. Sold \in Ledgers
    BY SettleFacts
  <1> HIDE DEF pnl
  <1>5. ASSUME NEW l \in Ledgers, NEW r \in Int
        PROVE  LET x == [l EXCEPT !.realized = r]
               IN  /\ x \in Ledgers /\ x.realized = r
                   /\ x.quote = l.quote /\ x.base = l.base /\ x.pos = l.pos
    BY DEF Ledgers
  <1>6. Sold.realized + pnl \in Int
    BY <1>2, <1>4 DEF Ledgers
  <1> QED  BY <1>3, <1>4, <1>5, <1>6 DEF pnl

\* The initial state is typed.
LEMMA InitTypes == Init => TypeInv
  <1> SUFFICES ASSUME Init PROVE TypeInv
    OBVIOUS
  <1>1. ledger \in Ledgers
    BY TradingAssumption DEF Init, NewLedger, Ledgers
  <1>2. orders \in [buy : Orders, sell : Orders]
    BY DEF Init, NoOrders, NewOrder, Orders, OrderStates
  <1>3. legs \in [buy : LegResults, sell : LegResults]
    BY DEF Init, NoLegs, NoLeg, LegResults
  <1>4. OrdersInv
    BY TradingAssumption DEF OrdersInv, Init, NoOrders, NewOrder, NoLegs, NoLeg, Sides
  <1>5. risk \in RiskStates /\ risk.outstanding = 0
    BY InitRisk DEF Init, NewState
  <1>6. views \in {f \in [VenueSet -> AllViews] : \A v \in VenueSet : f[v] \in Views[v]}
    BY DEF Init
  <1>7. pc = "idle" /\ pairs = <<>> /\ opps = <<>>
    BY DEF Init
  <1> QED  BY <1>1, <1>2, <1>3, <1>4, <1>5, <1>6, <1>7 DEF TypeInv, TypeOK

\* The variables of the trade and of the books.
TypedTrade ==
    /\ orders \in [buy : Orders, sell : Orders] /\ legs \in [buy : LegResults, sell : LegResults]
    /\ OrdersInv

TypedViews == views \in {f \in [VenueSet -> AllViews] : \A v \in VenueSet : f[v] \in Views[v]}

InLoop == {"fresh", "exposure", "submit", "leg1", "leg2", "close", "settle"}

TypedControl ==
    /\ pc \in {"idle", "scan", "decide"} \cup InLoop
    /\ pairs \in Seq(VenueSet \X VenueSet) /\ (pc = "scan" => pairs # <<>>)
    /\ opps \in Seq(Opportunities) /\ opps \in Seq(Pairings)
    /\ pc \in InLoop => opps # <<>>

TypedRisk ==
    /\ risk \in RiskStates
    /\ risk.outstanding = IF pc \in {"leg1", "leg2", "close"} THEN 2 ELSE 0

\* TypeInv, taken apart before and after a step.
LEMMA TypeParts ==
    /\ TypeInv <=> TypedTrade /\ TypedViews /\ TypedControl /\ TypedRisk /\ ledger \in Ledgers
    /\ TypeInv' <=> (TypedTrade /\ TypedViews /\ TypedControl /\ TypedRisk /\ ledger \in Ledgers)'
  <1> USE DEF TypeInv, TypeOK, TypedTrade, TypedViews, TypedControl, TypedRisk, InLoop
  <1>1. TypeInv <=> TypedTrade /\ TypedViews /\ TypedControl /\ TypedRisk /\ ledger \in Ledgers
    OBVIOUS
  <1>2. TypeInv' <=> (TypedTrade /\ TypedViews /\ TypedControl /\ TypedRisk /\ ledger \in Ledgers)'
    OBVIOUS
  <1> QED  BY <1>1, <1>2

\* A step that leaves these variables alone keeps their types.
LEMMA UntouchedTypes ==
    /\ TypedTrade /\ UNCHANGED trade => TypedTrade'
    /\ TypedViews /\ UNCHANGED views => TypedViews'
    /\ TypedControl /\ UNCHANGED <<pc, pairs, opps>> => TypedControl'
    /\ TypedRisk /\ UNCHANGED <<pc, risk>> => TypedRisk'
  <1>1. TypedTrade /\ UNCHANGED trade => TypedTrade'
    BY DEF TypedTrade, trade, OrdersInv
  <1>2. TypedViews /\ UNCHANGED views => TypedViews'
    BY DEF TypedViews
  <1>3. TypedControl /\ UNCHANGED <<pc, pairs, opps>> => TypedControl'
    BY DEF TypedControl
  <1>4. TypedRisk /\ UNCHANGED <<pc, risk>> => TypedRisk'
    BY DEF TypedRisk
  <1> QED  BY <1>1, <1>2, <1>3, <1>4

\* The lanes and the API keep the types.
LEMMA OthersTypes == TypeInv /\ Others => TypeInv'
  <1> SUFFICES ASSUME TypeInv, Others PROVE TypeInv'
    OBVIOUS
  <1>1. TypedTrade /\ TypedViews /\ TypedControl /\ TypedRisk /\ ledger \in Ledgers
    BY TypeParts
  <1> SUFFICES (TypedTrade /\ TypedViews /\ TypedControl /\ TypedRisk /\ ledger \in Ledgers)'
    BY TypeParts
  <1>2. ASSUME NEW v \in VenueSet, NEW view \in Views[v], Publish(v, view)
        PROVE  (TypedTrade /\ TypedViews /\ TypedControl /\ TypedRisk /\ ledger \in Ledgers)'
    <2>1. TypedViews'
      BY <1>1, <1>2 DEF TypedViews, Publish, AllViews
    <2> QED  BY <1>1, <1>2, <2>1, UntouchedTypes DEF Publish
  <1>3. ASSUME KillHandler \/ KillResetHandler
        PROVE  (TypedTrade /\ TypedViews /\ TypedControl /\ TypedRisk /\ ledger \in Ledgers)'
    <2>1. TypedRisk'
      BY <1>1, <1>3, RiskOperations, OutstandingFacts DEF TypedRisk, KillHandler, KillResetHandler
    <2> QED  BY <1>1, <1>3, <2>1, UntouchedTypes DEF KillHandler, KillResetHandler
  <1> QED  BY <1>2, <1>3 DEF Others

\* The scan.
LEMMA ScanTypes ==
    TypeInv /\ (EvaluateOnce \/ ScanPair \/ ScanDone) => TypeInv'
  <1> SUFFICES ASSUME TypeInv, EvaluateOnce \/ ScanPair \/ ScanDone PROVE TypeInv'
    OBVIOUS
  <1>1. TypedTrade /\ TypedViews /\ TypedControl /\ TypedRisk /\ ledger \in Ledgers
    BY TypeParts
  <1>2. UNCHANGED <<views, trade, ledger, risk>> /\ pc' \in {"idle", "scan", "decide"}
        /\ pc \in {"idle", "scan", "decide"}
    BY DEF EvaluateOnce, ScanPair, ScanDone
  <1>3. TypedRisk'
    BY <1>1, <1>2 DEF TypedRisk
  <1>4. CASE EvaluateOnce
    <2>1. TypedControl'
      BY <1>1, <1>4, PairsFacts DEF TypedControl, EvaluateOnce, InLoop
    <2> QED  BY <1>1, <1>2, <1>3, <2>1, UntouchedTypes, TypeParts
  <1>5. CASE ScanDone
    <2>1. TypedControl'
      BY <1>1, <1>5 DEF TypedControl, ScanDone, InLoop
    <2> QED  BY <1>1, <1>2, <1>3, <2>1, UntouchedTypes, TypeParts
  <1>6. CASE ScanPair
    <2> DEFINE p == Head(pairs)
               found == evaluatePair(p[1], p[2], views[p[1]], views[p[2]])
    <2>1. p \in VenueSet \X VenueSet /\ Tail(pairs) \in Seq(VenueSet \X VenueSet)
      BY <1>1, <1>6, TailFacts DEF TypedControl, ScanPair
    <2>2. p[1] \in VenueSet /\ p[2] \in VenueSet
      BY <2>1
    <2>3. /\ opps' = IF p[1] = p[2] THEN opps ELSE opps \o found
          /\ pairs' = Tail(pairs) /\ pc' = IF pairs' = <<>> THEN "decide" ELSE "scan"
      BY <1>6 DEF ScanPair
    <2>4. p[1] # p[2] => found \in Seq(Pairings)
      <3> HIDE DEF p
      <3>1. views[p[1]] \in BookViews /\ views[p[2]] \in BookViews
        BY <2>2, ViewFacts DEF TypeInv
      <3> QED  BY <2>2, <3>1, EvaluateFacts
    <2> HIDE DEF p, found
    <2>5. opps' \in Seq(Pairings)
      BY <1>1, <2>3, <2>4 DEF TypedControl
    <2>6. Seq(Pairings) \subseteq Seq(Opportunities)
      BY DEF Pairings
    <2>7. TypedControl'
      BY <2>1, <2>3, <2>5, <2>6 DEF TypedControl, InLoop
    <2> QED  BY <1>1, <1>2, <1>3, <2>7, UntouchedTypes, TypeParts
  <1> QED  BY <1>4, <1>5, <1>6

\* The risk checks and the inventory check.
LEMMA CheckTypes ==
    TypeInv /\ (RiskCheckState \/ RiskCheckFresh \/ RiskCheckExposure) => TypeInv'
  <1> SUFFICES ASSUME TypeInv, RiskCheckState \/ RiskCheckFresh \/ RiskCheckExposure PROVE TypeInv'
    OBVIOUS
  <1>1. TypedTrade /\ TypedViews /\ TypedControl /\ TypedRisk /\ ledger \in Ledgers
    BY TypeParts
  <1>2. /\ UNCHANGED <<views, pairs, trade, ledger, risk>>
        /\ opps # <<>> /\ pc \in {"decide", "fresh", "exposure"}
        /\ \/ pc' \in {"fresh", "exposure", "submit"} /\ UNCHANGED opps
           \/ opps' = Tail(opps) /\ pc' = "decide"
    BY <1>1 DEF RiskCheckState, RiskCheckFresh, RiskCheckExposure, Reject, TypedControl, InLoop
  <1>3. TypedRisk'
    BY <1>1, <1>2 DEF TypedRisk
  <1>4. TypedControl'
    BY <1>1, <1>2, AtHand DEF TypedControl, InLoop
  <1> QED  BY <1>1, <1>2, <1>3, <1>4, UntouchedTypes, TypeParts

\* From the submission of the orders to the settlement.
LEMMA TradeTypes ==
    TypeInv /\ (SubmitOrders \/ FillFirst \/ FillSecond \/ CloseOrders \/ Settle) => TypeInv'
  <1> SUFFICES ASSUME TypeInv, SubmitOrders \/ FillFirst \/ FillSecond \/ CloseOrders \/ Settle
               PROVE  TypeInv'
    OBVIOUS
  <1>1. TypedTrade /\ TypedViews /\ TypedControl /\ TypedRisk /\ ledger \in Ledgers
    BY TypeParts
  <1>2. opps # <<>> /\ UNCHANGED <<views, pairs>>
    BY <1>1 DEF SubmitOrders, FillFirst, FillSecond, FillLeg, CloseOrders, Settle, TypedControl, InLoop
  <1>3. CASE SubmitOrders
    <2>1. TypedRisk'
      <3>1. pc = "submit" /\ risk \in RiskStates /\ risk.outstanding = 0
        BY <1>1, <1>3 DEF SubmitOrders, TypedRisk
      <3>2. NoteOrderOpened(risk) \in RiskStates /\ NoteOrderOpened(risk).outstanding = 1
        <4>1. NoteOrderOpened(risk).outstanding = risk.outstanding + 1
          BY <3>1, OutstandingFacts
        <4> QED  BY <3>1, <4>1, RiskOperations
      <3>3. NoteOrderOpened(NoteOrderOpened(risk)).outstanding = 2
        BY <3>2, OutstandingFacts
      <3>4. risk' \in RiskStates
        BY <1>3, <3>1, SubmitRisk
      <3> QED  BY <1>3, <3>3, <3>4 DEF SubmitOrders, TypedRisk
    <2>2. TypedControl'
      BY <1>1, <1>2, <1>3 DEF SubmitOrders, TypedControl, InLoop
    <2>3. TypedTrade'
      <3> DEFINE b == NewOrder("buy", "market", 0, TradeQty)
                 s == NewOrder("sell", "market", 0, TradeQty)
      <3>1. orders' = [buy |-> b, sell |-> s] /\ legs' = legs
        BY <1>2, <1>3, AtHand DEF SubmitOrders
      <3>2. /\ b \in Orders /\ b.filled <= b.qty /\ b.qty <= TradeQty
            /\ s \in Orders /\ s.filled <= s.qty /\ s.qty <= TradeQty
        BY TradingAssumption DEF NewOrder, Orders, OrderStates
      <3> HIDE DEF b, s
      <3>3. orders' \in [buy : Orders, sell : Orders] /\ orders'.buy = b /\ orders'.sell = s
        BY <3>1, <3>2
      <3> QED  BY <1>1, <3>1, <3>2, <3>3 DEF TypedTrade, OrdersInv, Sides
    <2>4. ledger' = ledger
      BY <1>3 DEF SubmitOrders
    <2> QED  BY <1>1, <1>2, <2>1, <2>2, <2>3, <2>4, UntouchedTypes, TypeParts
  <1>4. CASE FillFirst \/ FillSecond
    <2>1. PICK side \in Sides : FillLeg(side)
      BY <1>4 DEF FillFirst, FillSecond, FirstLeg, SecondLeg, Sides
    <2>2. TypedTrade'
      BY <1>2, <2>1, FillLegFacts DEF TypedTrade
    <2>3. /\ UNCHANGED <<opps, ledger, risk>> /\ pc \in {"leg1", "leg2"} /\ pc' \in {"leg2", "close"}
      BY <1>4 DEF FillFirst, FillSecond, FillLeg
    <2>4. TypedControl' /\ TypedRisk'
      BY <1>1, <1>2, <2>3 DEF TypedControl, TypedRisk, InLoop
    <2> QED  BY <1>1, <1>2, <2>2, <2>3, <2>4, UntouchedTypes, TypeParts
  <1>5. CASE CloseOrders
    <2> DEFINE success == legs.buy.filled > 0 /\ legs.sell.filled > 0
               first  == NoteOrderClosed(risk)
               closed == NoteOrderClosed(first)
               noted  == NoteExecutionResult(closed, success)
    <2>1. risk \in RiskStates /\ risk.outstanding = 2
      BY <1>1, <1>5 DEF CloseOrders, TypedRisk
    <2>2. first \in RiskStates /\ first.outstanding = 1
      <3>1. risk.outstanding > 0 => first.outstanding = risk.outstanding - 1
        BY <2>1, OutstandingFacts
      <3> QED  BY <2>1, <3>1, RiskOperations
    <2>3. closed \in RiskStates /\ closed.outstanding = 0
      <3> HIDE DEF first
      <3>1. first.outstanding > 0 => closed.outstanding = first.outstanding - 1
        BY <2>2, OutstandingFacts
      <3> QED  BY <2>2, <3>1, RiskOperations
    <2>4. noted \in RiskStates /\ noted.outstanding = 0
      <3> HIDE DEF closed
      <3> QED  BY <2>3, RiskOperations, OutstandingFacts
    <2>5. risk' = IF TooManyFails(noted) THEN ActivateKillSwitch(noted) ELSE noted
      BY <1>5 DEF CloseOrders
    <2>6. risk' \in RiskStates /\ risk'.outstanding = 0
      <3> HIDE DEF noted
      <3> QED  BY <2>4, <2>5, RiskOperations, OutstandingFacts
    <2>7. pc' = "settle" /\ UNCHANGED <<opps, trade, ledger>>
      BY <1>5 DEF CloseOrders
    <2>8. TypedControl' /\ TypedRisk'
      BY <1>1, <1>2, <2>6, <2>7 DEF TypedControl, TypedRisk, InLoop
    <2> QED  BY <1>1, <1>2, <2>7, <2>8, UntouchedTypes, TypeParts
  <1>6. CASE Settle
    <2>1. /\ pc = "settle" /\ pc' = "decide" /\ opps' = Tail(opps) /\ UNCHANGED risk
          /\ orders' = NoOrders /\ legs' = NoLegs
      BY <1>6 DEF Settle
    <2>2. TypedControl' /\ TypedRisk'
      BY <1>1, <1>2, <2>1, AtHand DEF TypedControl, TypedRisk, InLoop
    <2>3. TypedTrade'
      <3>1. orders' \in [buy : Orders, sell : Orders]
        BY <2>1 DEF NoOrders, NewOrder, Orders, OrderStates
      <3>2. legs' \in [buy : LegResults, sell : LegResults]
        BY <2>1 DEF NoLegs, NoLeg, LegResults
      <3>3. OrdersInv'
        BY <2>1, TradingAssumption DEF OrdersInv, NoOrders, NewOrder, NoLegs, NoLeg, Sides
      <3> QED  BY <3>1, <3>2, <3>3 DEF TypedTrade
    <2>4. ledger' \in Ledgers
      BY <1>2, <1>6, BookedFacts
    <2> QED  BY <1>1, <1>2, <2>2, <2>3, <2>4, UntouchedTypes, TypeParts
  <1> QED  BY <1>3, <1>4, <1>5, <1>6

\* Every step keeps the types.
LEMMA StepTypes == TypeInv /\ [Next]_vars => TypeInv'
  <1>1. TypeInv /\ UNCHANGED vars => TypeInv'
    BY TypeParts, UntouchedTypes DEF vars, trade
  <1> QED  BY <1>1, OthersTypes, ScanTypes, CheckTypes, TradeTypes DEF Next, Loop

\* TypeInv holds throughout.
LEMMA AlwaysTyped == Spec => []TypeInv
  BY InitTypes, StepTypes, PTL DEF Spec

\* The loop never works on an opportunity it does not have, fills more than
\* was ordered or leaves an order counted as outstanding, whatever the views.
THEOREM TradingTypeCorrect == Spec => []TypeOK
  <1>1. TypeInv => TypeOK
    BY DEF TypeInv
  <1> QED  BY <1>1, AlwaysTyped, PTL

-----------------------------------------------------------------------------
(* Settlement.  Only Settle writes the ledger. *)

\* The ledger belongs to the loop's last step.
LEMMA OnlySettleWrites == [Next]_vars => Settle \/ UNCHANGED ledger
  BY DEF Next, Others, Loop, Publish, KillHandler, KillResetHandler, EvaluateOnce, ScanPair,
         ScanDone, RiskCheckState, RiskCheckFresh, RiskCheckExposure, SubmitOrders, FillFirst,
         FillSecond, FillLeg, CloseOrders, vars

At(v, w, d) == IF w = v THEN d ELSE 0

\* A move, venue by venue.
MovesAt(l, l2, v, quote, base, w) ==
    /\ l2.quote[w] = l.quote[w] + At(v, w, quote)
    /\ l2.base[w] = l.base[w] + At(v, w, base)
    /\ l2.pos[w].qty = l.pos[w].qty + At(v, w, base)
    /\ l.quote[w] \in Int /\ l.base[w] \in Int /\ l.pos[w].qty \in Int

\* Moves, read at one venue.
LEMMA MovedFacts ==
    ASSUME NEW l \in Ledgers, NEW l2, NEW v \in VenueSet, NEW quote \in Int, NEW base \in Int,
           Moves(l, l2, v, quote, base), NEW w \in VenueSet
    PROVE  MovesAt(l, l2, v, quote, base, w)
  <1>1. /\ l.quote \in [VenueSet -> Int] /\ l.base \in [VenueSet -> Int]
        /\ l.quote[w] \in Int /\ l.base[w] \in Int /\ l.pos[w].qty \in Int
    BY DEF Ledgers
  <1> QED  BY <1>1 DEF Moves, At, MovesAt

\* The legs at hand in numbers.
LEMMA LegFacts ==
    ASSUME TypeInv
    PROVE  /\ legs.buy \in LegResults /\ legs.sell \in LegResults
           /\ legs.buy.filled \in Nat /\ legs.sell.filled \in Nat
           /\ legs.buy.filled <= TradeQty /\ legs.sell.filled <= TradeQty
           /\ -legs.sell.filled \in Int /\ legs.buy.filled \in Int
           /\ Cost(legs.buy) \in Nat /\ -Cost(legs.buy) \in Int /\ Proceeds(legs.sell) \in Int
  <1>1. legs.buy \in LegResults /\ legs.sell \in LegResults
    BY DEF TypeInv, TypeOK
  <1>2. legs.buy.filled \in Nat /\ legs.sell.filled \in Nat
    BY <1>1 DEF LegResults
  <1>3. legs.buy.filled <= TradeQty /\ legs.sell.filled <= TradeQty
    BY DEF TypeInv, OrdersInv, Sides
  <1>4. VenueSet # {}
    BY TradingAssumption, ElementFacts DEF VenueSet
  <1>5. Cost(legs.buy) \in Nat /\ Proceeds(legs.sell) \in Int
    <2>1. ledger \in Ledgers
      BY DEF TypeInv, TypeOK
    <2> QED  BY <1>1, <1>4, <2>1, SettledFacts
  <1> QED  BY <1>1, <1>2, <1>3, <1>5

\* What a settlement moves at each venue.
BaseIn(w) == IF SettledBuy THEN At(o.buyV, w, legs.buy.filled) ELSE 0
BaseOut(w) == IF SettledSell THEN At(o.sellV, w, legs.sell.filled) ELSE 0

\* A settlement moves balance and position of the base asset alike.
LEMMA SettleMoves ==
    ASSUME TypeInv, Settle, opps # <<>>, NEW w \in VenueSet
    PROVE  /\ ledger.base[w] \in Int /\ ledger.pos[w].qty \in Int
           /\ BaseIn(w) \in Nat /\ BaseOut(w) \in Nat
           /\ ledger'.base[w] = ledger.base[w] + BaseIn(w) - BaseOut(w)
           /\ ledger'.pos[w].qty = ledger.pos[w].qty + BaseIn(w) - BaseOut(w)
  <1> DEFINE b == Bought
             s == Sold
  <1>1. /\ ledger \in Ledgers /\ b \in Ledgers /\ s \in Ledgers
        /\ o.buyV \in VenueSet /\ o.sellV \in VenueSet
    BY AtHand, SettleFacts DEF TypeInv, TypeOK
  <1>2. BaseIn(w) \in Nat /\ BaseOut(w) \in Nat
    BY LegFacts DEF BaseIn, BaseOut, At
  <1>3. /\ b.base[w] = ledger.base[w] + BaseIn(w)
        /\ b.pos[w].qty = ledger.pos[w].qty + BaseIn(w)
        /\ ledger.base[w] \in Int /\ ledger.pos[w].qty \in Int
    <2>1. ledger.base[w] \in Int /\ ledger.pos[w].qty \in Int
      BY <1>1 DEF Ledgers
    <2>2. CASE SettledBuy
      <3>1. Moves(ledger, b, o.buyV, -Cost(legs.buy), legs.buy.filled)
        BY <2>2, SettleFacts
      <3>2. /\ b.base[w] = ledger.base[w] + At(o.buyV, w, legs.buy.filled)
            /\ b.pos[w].qty = ledger.pos[w].qty + At(o.buyV, w, legs.buy.filled)
        <4> DEFINE quote == -Cost(legs.buy)
                   base  == legs.buy.filled
        <4>1. quote \in Int /\ base \in Int /\ Moves(ledger, b, o.buyV, quote, base)
          BY <3>1, LegFacts
        <4> HIDE DEF b, quote, base
        <4>2. MovesAt(ledger, b, o.buyV, quote, base, w)
          BY <1>1, <4>1, MovedFacts
        <4> QED  BY <4>2 DEF base, MovesAt
      <3> QED  BY <2>1, <2>2, <3>2 DEF BaseIn
    <2>3. CASE ~SettledBuy
      BY <2>1, <2>3, SettleFacts DEF BaseIn
    <2> QED  BY <2>2, <2>3
  <1>4. /\ s.base[w] = b.base[w] - BaseOut(w)
        /\ s.pos[w].qty = b.pos[w].qty - BaseOut(w)
    <2>1. b.base[w] \in Int /\ b.pos[w].qty \in Int
      BY <1>1 DEF Ledgers
    <2>2. CASE SettledSell
      <3>1. Moves(b, s, o.sellV, Proceeds(legs.sell), -legs.sell.filled)
        BY <2>2, SettleFacts
      <3>2. /\ s.base[w] = b.base[w] + At(o.sellV, w, -legs.sell.filled)
            /\ s.pos[w].qty = b.pos[w].qty + At(o.sellV, w, -legs.sell.filled)
        <4> DEFINE quote == Proceeds(legs.sell)
                   base  == -legs.sell.filled
        <4>1. quote \in Int /\ base \in Int /\ Moves(b, s, o.sellV, quote, base)
          BY <3>1, LegFacts
        <4> HIDE DEF b, s, quote, base
        <4>2. MovesAt(b, s, o.sellV, quote, base, w)
          BY <1>1, <4>1, MovedFacts
        <4> QED  BY <4>2 DEF base, MovesAt
      <3>3. At(o.sellV, w, -legs.sell.filled) = -BaseOut(w)
        BY <2>2, LegFacts DEF BaseOut, At
      <3> QED  BY <1>2, <2>1, <3>2, <3>3
    <2>3. CASE ~SettledSell
      BY <2>1, <2>3, SettleFacts DEF BaseOut
    <2> QED  BY <2>2, <2>3
  <1>5. ledger'.base = s.base /\ ledger'.pos = s.pos
    BY BookedFacts
  <1> HIDE DEF b, s
  <1> QED  BY <1>2, <1>3, <1>4, <1>5

\* The balance of the base asset and the position are moved alike by every
\* settlement, the refused ones included.
THEOREM PositionIsBalance == Spec => []BaseMatchesPosition
  <1>1. Init => BaseMatchesPosition
    BY TradingAssumption DEF Init, NewLedger, BaseMatchesPosition
  <1>2. TypeInv /\ BaseMatchesPosition /\ [Next]_vars => BaseMatchesPosition'
    <2> SUFFICES ASSUME TypeInv, BaseMatchesPosition, [Next]_vars PROVE BaseMatchesPosition'
      OBVIOUS
    <2>1. CASE Settle
      <3>1. opps # <<>>
        BY <2>1 DEF Settle, TypeInv, TypeOK
      <3>2. ASSUME NEW w \in VenueSet
            PROVE  ledger'.base[w] - InitialBase[w] = ledger'.pos[w].qty
        <4>1. InitialBase[w] \in Int /\ ledger.base[w] - InitialBase[w] = ledger.pos[w].qty
          BY TradingAssumption DEF BaseMatchesPosition
        <4> QED  BY <2>1, <3>1, <4>1, SettleMoves
      <3> QED  BY <3>2 DEF BaseMatchesPosition
    <2>2. CASE UNCHANGED ledger
      BY <2>2 DEF BaseMatchesPosition
    <2> QED  BY <2>1, <2>2, OnlySettleWrites
  <1> QED  BY <1>1, <1>2, AlwaysTyped, PTL DEF Spec

-----------------------------------------------------------------------------
(* Cash.  The profit the engine books and the quote balances it pays with  *)
(* are computed apart: from the matched quantity, and leg by leg.          *)

Amounts == [VenueSet -> Int]

\* The partial sums of f in the order of the venues.
IsSum(f, s) ==
    /\ s[0] = 0 /\ Sum(f) = s[Len(VenueOrder)]
    /\ \A i \in 1..Len(VenueOrder) : s[i] = s[i - 1] + f[VenueOrder[i]]

\* Sum adds up the venues one by one.
LEMMA SumIsWalk ==
    ASSUME NEW f \in Amounts
    PROVE  \E s \in [0..Len(VenueOrder) -> Int] : IsSum(f, s)
  <1> DEFINE n == Len(VenueOrder)
             turn(acc, i) == acc + f[VenueOrder[i]]
             Walk(g) == [i \in 0..n |-> IF i = 0 THEN 0 ELSE turn(g[i - 1], i)]
             walk == CHOOSE g : g = Walk(g)
             step == [i \in 1..n |-> [acc \in Int |-> turn(acc, i)]]
  <1>1. Sum(f) = walk[n]
    BY DEF Sum
  <1>2. n \in Nat /\ \A i \in 1..n : VenueOrder[i] \in VenueSet
    BY TradingAssumption, ElementFacts
  <1>3. \A i \in 1..n : f[VenueOrder[i]] \in Int
    BY <1>2 DEF Amounts
  <1>4. ASSUME NEW i \in 1..n, NEW acc \in Int PROVE turn(acc, i) \in Int
    BY <1>3
  <1> HIDE DEF n, turn
  <1>5. step \in Steps(n, Int)
    BY <1>4 DEF Steps
  <1>6. PICK g \in [0..n -> Int] : g[0] = 0 /\ \A i \in 1..n : g[i] = step[i][g[i - 1]]
    <2> HIDE DEF step
    <2>1. HasWalk(n, Int, 0, step)
      BY <1>2, <1>5, WalkExists
    <2> QED  BY <2>1 DEF HasWalk
  <1>7. g = Walk(g)
    <2>1. ASSUME NEW i \in 1..n PROVE g[i] = turn(g[i - 1], i)
      <3>1. i - 1 \in 0..n
        BY <1>2
      <3>2. g[i - 1] \in Int /\ g[i] = step[i][g[i - 1]]
        BY <1>6, <3>1
      <3> QED  BY <3>2
    <2>2. \A i \in 0..n : i = 0 \/ i \in 1..n
      BY <1>2
    <2> QED  BY <1>6, <2>1, <2>2
  <1>8. walk = Walk(walk)
    <2> HIDE DEF Walk
    <2> QED  BY <1>7
  <1>9. walk[0] = 0 /\ \A i \in 1..n : walk[i] = turn(walk[i - 1], i)
    <2>1. 0 \in 0..n /\ \A i \in 1..n : i \in 0..n /\ i # 0
      BY <1>2
    <2> HIDE DEF walk
    <2> QED  BY <1>8, <2>1
  <1>10. walk = [i \in 0..n |-> walk[i]]
    <2> HIDE DEF walk
    <2> QED  BY <1>8
  <1> HIDE DEF walk
  <1> DEFINE S == {i \in 0..n : walk[i] \in Int}
  <1>11. 0 \in S
    BY <1>2, <1>9
  <1>12. ASSUME NEW i \in 1..n, i - 1 \in S PROVE i \in S
    <2>1. i \in 0..n /\ walk[i - 1] \in Int /\ walk[i] = turn(walk[i - 1], i)
      BY <1>2, <1>9, <1>12
    <2>2. turn(walk[i - 1], i) \in Int
      BY <1>4, <2>1
    <2> QED  BY <2>1, <2>2
  <1>13. walk \in [0..n -> Int]
    <2> HIDE DEF S
    <2>1. 0..n \subseteq S
      BY <1>2, <1>11, <1>12, Induction
    <2> QED  BY <1>10, <2>1 DEF S
  <1>14. IsSum(f, walk)
    BY <1>1, <1>9 DEF IsSum, n, turn
  <1> QED  BY <1>13, <1>14 DEF n

\* A sum of amounts is an integer.
LEMMA SumIsInt == \A f \in Amounts : Sum(f) \in Int
  <1>1. Len(VenueOrder) \in 0..Len(VenueOrder)
    BY TradingAssumption, ElementFacts
  <1> QED  BY <1>1, SumIsWalk DEF IsSum

\* An amount added at one venue is added to the sum.
SumGrows(f, g, d) == Sum(g) = Sum(f) + d

\* Adding at one venue adds to the sum, because no venue is listed twice.
LEMMA SumMoves ==
    ASSUME NEW f \in Amounts, NEW v \in VenueSet, NEW d \in Int, NEW g,
           g = [f EXCEPT ![v] = @ + d]
    PROVE  g \in Amounts /\ SumGrows(f, g, d)
  <1> DEFINE n == Len(VenueOrder)
  <1>1. n \in Nat /\ DOMAIN VenueOrder = 1..n /\ \A i \in 1..n : VenueOrder[i] \in VenueSet
    BY TradingAssumption, ElementFacts
  <1>2. PICK k \in 1..n : VenueOrder[k] = v
    BY <1>1 DEF VenueSet
  <1>3. \A i \in 1..n : VenueOrder[i] = v => i = k
    BY <1>1, <1>2, TradingAssumption
  <1>4. g \in Amounts
    BY DEF Amounts
  <1>5. PICK s \in [0..n -> Int] : IsSum(f, s)
    BY SumIsWalk
  <1>6. PICK t \in [0..n -> Int] : IsSum(g, t)
    BY <1>4, SumIsWalk
  <1>7. /\ s[0] = 0 /\ Sum(f) = s[n] /\ t[0] = 0 /\ Sum(g) = t[n]
        /\ \A i \in 1..n : s[i] = s[i - 1] + f[VenueOrder[i]]
        /\ \A i \in 1..n : t[i] = t[i - 1] + g[VenueOrder[i]]
    BY <1>5, <1>6 DEF IsSum
  <1> HIDE DEF n
  <1>8. ASSUME NEW i \in 1..n
        PROVE  /\ f[VenueOrder[i]] \in Int
               /\ g[VenueOrder[i]] = f[VenueOrder[i]] + (IF i = k THEN d ELSE 0)
    <2> DEFINE w == VenueOrder[i]
    <2>1. w \in VenueSet /\ (w = v <=> i = k)
      BY <1>1, <1>2, <1>3
    <2> HIDE DEF w
    <2>2. f[w] \in Int /\ g[w] = f[w] + (IF w = v THEN d ELSE 0)
      BY <2>1 DEF Amounts
    <2> QED  BY <2>1, <2>2 DEF w
  <1> DEFINE S == {i \in 0..n : t[i] = s[i] + (IF i >= k THEN d ELSE 0)}
  <1>9. 0 \in S
    BY <1>1, <1>2, <1>7
  <1>10. ASSUME NEW i \in 1..n, i - 1 \in S PROVE i \in S
    <2>1. i - 1 \in 0..n /\ i \in 0..n /\ s[i - 1] \in Int /\ t[i - 1] \in Int
      BY <1>1
    <2> DEFINE x == f[VenueOrder[i]]
    <2>2. x \in Int /\ s[i] = s[i - 1] + x /\ t[i] = t[i - 1] + (x + (IF i = k THEN d ELSE 0))
      BY <1>7, <1>8
    <2>3. t[i - 1] = s[i - 1] + (IF i - 1 >= k THEN d ELSE 0)
      BY <1>10
    <2> HIDE DEF x
    <2>4. t[i] = s[i] + (IF i >= k THEN d ELSE 0)
      <3>1. CASE i < k
        BY <1>1, <2>1, <2>2, <2>3, <3>1
      <3>2. CASE i = k
        BY <1>1, <2>1, <2>2, <2>3, <3>2
      <3>3. CASE i > k
        <4>1. i # k /\ i - 1 >= k /\ i >= k
          BY <1>1, <3>3
        <4>2. t[i] = t[i - 1] + x /\ t[i - 1] = s[i - 1] + d /\ s[i] = s[i - 1] + x
          BY <2>1, <2>2, <2>3, <4>1
        <4> QED  BY <2>1, <2>2, <4>1, <4>2
      <3> QED  BY <1>1, <3>1, <3>2, <3>3
    <2> QED  BY <2>1, <2>4
  <1>11. n \in S
    <2>1. n \in 0..n
      BY <1>1
    <2> HIDE DEF S
    <2> QED  BY <1>1, <1>9, <1>10, <2>1, Induction
  <1>12. t[n] = s[n] + d /\ s[n] \in Int
    BY <1>1, <1>2, <1>11
  <1> QED  BY <1>4, <1>7, <1>12 DEF SumGrows

\* RealizedIsCash with the sum in the step: a clean settlement moves both by
\* what the legs paid.
LEMMA CleanSettlement ==
    ASSUME TypeInv, Settle, opps # <<>>, clean'
    PROVE  Sum(ledger'.quote) - Sum(ledger.quote) = ledger'.realized - ledger.realized
  <1> DEFINE pnl  == RealizedPnL(legs.buy, legs.sell)
             cost == Cost(legs.buy)
             got  == Proceeds(legs.sell)
  <1>1. /\ clean /\ ~Refused /\ legs.buy.filled = legs.sell.filled
        /\ legs.buy.filled \in Nat /\ cost \in Int /\ -cost \in Int /\ got \in Int
    <2>1. clean' = (clean /\ ~Refused /\ legs.buy.filled = legs.sell.filled)
      BY DEF Settle
    <2>2. legs.buy.filled \in Nat /\ cost \in Int /\ -cost \in Int /\ got \in Int
      BY LegFacts
    <2> QED  BY <2>1, <2>2
  <1>2. /\ ledger \in Ledgers /\ o.buyV \in VenueSet /\ o.sellV \in VenueSet
        /\ ledger.quote \in Amounts /\ ledger.realized \in Int
        /\ Bought \in Ledgers /\ Bought.quote \in Amounts
    BY AtHand, SettleFacts DEF TypeInv, TypeOK, Ledgers, Amounts
  <1>3. /\ ledger'.quote = Sold.quote /\ ledger'.realized = Sold.realized + pnl
    BY BookedFacts
  <1>4. CASE legs.buy.filled = 0
    <2>1. Sold = ledger /\ pnl = 0
      BY <1>1, <1>4, LegFacts, SettleFacts, PnLFacts DEF SettledBuy, SettledSell
    <2>2. Sum(ledger.quote) \in Int
      BY <1>2, SumIsInt
    <2> QED  BY <1>2, <1>3, <2>1, <2>2
  <1>5. CASE legs.buy.filled > 0
    <2>1. SettledBuy /\ SettledSell
      BY <1>1, <1>5 DEF SettledBuy, SettledSell, Refused
    <2>2. /\ Moves(ledger, Bought, o.buyV, -cost, legs.buy.filled)
          /\ Moves(Bought, Sold, o.sellV, got, -legs.sell.filled)
      BY <2>1, SettleFacts
    <2>3. /\ Bought.quote = [ledger.quote EXCEPT ![o.buyV] = @ + (-cost)]
          /\ Sold.quote = [Bought.quote EXCEPT ![o.sellV] = @ + got]
          /\ Sold.realized = Bought.realized /\ Bought.realized = ledger.realized
      BY <2>2 DEF Moves
    <2>4. pnl = got - cost
      BY <1>1, <1>5, LegFacts, PnLFacts
    <2> DEFINE bq == Bought.quote
               sq == Sold.quote
               lq == ledger.quote
               low == -cost
               b  == o.buyV
               s  == o.sellV
    <2>5. /\ bq = [lq EXCEPT ![b] = @ + low] /\ sq = [bq EXCEPT ![s] = @ + got]
          /\ lq \in Amounts /\ bq \in Amounts /\ b \in VenueSet /\ s \in VenueSet
          /\ low \in Int /\ got \in Int
      BY <1>1, <1>2, <2>3
    <2>6. low = -cost /\ cost \in Int
      BY <1>1
    <2> HIDE DEF bq, sq, lq, low, b, s, cost, got, pnl
    <2>7. Sum(lq) \in Int /\ Sum(bq) = Sum(lq) + low /\ Sum(sq) = Sum(bq) + got
      <3>1. SumGrows(lq, bq, low) /\ SumGrows(bq, sq, got)
        BY <2>5, SumMoves
      <3> QED  BY <2>5, <3>1, SumIsInt DEF SumGrows
    <2>8. ledger'.quote = sq /\ ledger'.realized = ledger.realized + pnl /\ ledger.quote = lq
      BY <1>3, <2>3 DEF sq, lq
    <2>9. Sum(sq) - Sum(lq) = (ledger.realized + pnl) - ledger.realized
      BY <1>2, <2>4, <2>5, <2>6, <2>7
    <2> QED  BY <2>7, <2>8, <2>9
  <1> QED  BY <1>1, <1>4, <1>5

\* While every trade was matched and settled, the realized profit is what the
\* quote balances have gained, whatever the prices, fees and rounding.
THEOREM ProfitIsCash == Spec => []RealizedIsCash
  <1> DEFINE Cash == clean \in BOOLEAN /\ RealizedIsCash
  <1>1. Init => Cash
    <2> SUFFICES ASSUME Init PROVE Cash
      OBVIOUS
    <2>1. ledger.quote = InitialQuote /\ ledger.realized = 0 /\ clean \in BOOLEAN
      BY DEF Init, NewLedger
    <2>2. Sum(InitialQuote) \in Int
      <3>1. InitialQuote \in Amounts
        BY TradingAssumption DEF Amounts
      <3> QED  BY <3>1, SumIsInt
    <2> QED  BY <2>1, <2>2 DEF RealizedIsCash
  <1>2. TypeInv /\ Cash /\ [Next]_vars => Cash'
    <2> SUFFICES ASSUME TypeInv, Cash, [Next]_vars PROVE Cash'
      OBVIOUS
    <2>1. CASE Settle
      <3>1. opps # <<>> /\ clean' \in BOOLEAN /\ (clean' => clean)
        BY <2>1 DEF Settle, TypeInv, TypeOK
      <3>2. ASSUME clean' PROVE Sum(ledger'.quote) = Sum(InitialQuote) + ledger'.realized
        <4>1. Sum(ledger'.quote) - Sum(ledger.quote) = ledger'.realized - ledger.realized
          BY <2>1, <3>1, <3>2, CleanSettlement
        <4>2. /\ ledger \in Ledgers /\ ledger' \in Ledgers /\ InitialQuote \in Amounts
          BY <2>1, <3>1, BookedFacts, TradingAssumption DEF TypeInv, TypeOK, Amounts
        <4>3. /\ ledger.quote \in Amounts /\ ledger'.quote \in Amounts
              /\ ledger.realized \in Int /\ ledger'.realized \in Int
          BY <4>2 DEF Ledgers, Amounts
        <4>4. /\ Sum(ledger.quote) \in Int /\ Sum(ledger'.quote) \in Int /\ Sum(InitialQuote) \in Int
          BY <4>2, <4>3, SumIsInt
        <4>5. Sum(ledger.quote) = Sum(InitialQuote) + ledger.realized
          BY <3>1, <3>2 DEF RealizedIsCash
        <4> QED  BY <4>1, <4>3, <4>4, <4>5
      <3> QED  BY <3>1, <3>2 DEF RealizedIsCash
    <2>2. CASE ~Settle
      <3>1. UNCHANGED <<ledger, clean>>
        BY <2>2 DEF Next, Others, Loop, Publish, KillHandler, KillResetHandler, EvaluateOnce,
           ScanPair, ScanDone, RiskCheckState, RiskCheckFresh, RiskCheckExposure, SubmitOrders,
           FillFirst, FillSecond, FillLeg, CloseOrders, vars, history
      <3> QED  BY <3>1 DEF RealizedIsCash
    <2> QED  BY <2>1, <2>2
  <1>3. Cash => RealizedIsCash
    OBVIOUS
  <1> QED  BY <1>1, <1>2, <1>3, AlwaysTyped, PTL DEF Spec

-----------------------------------------------------------------------------
(* The contract of the ledger.  Settle is a trade between the two venues   *)
(* of the opportunity at hand; every other step is a stutter.              *)

\* What a settlement pays and earns at each venue.
QuoteOut(w) == IF SettledBuy THEN At(o.buyV, w, Cost(legs.buy)) ELSE 0
QuoteIn(w) == IF SettledSell THEN At(o.sellV, w, Proceeds(legs.sell)) ELSE 0

\* A settlement moves the quote balances by that.
LEMMA SettlePays ==
    ASSUME TypeInv, Settle, opps # <<>>, NEW w \in VenueSet
    PROVE  /\ ledger.quote[w] \in Int /\ QuoteOut(w) \in Nat /\ QuoteIn(w) \in Int
           /\ ledger'.quote[w] = ledger.quote[w] - QuoteOut(w) + QuoteIn(w)
  <1> DEFINE b == Bought
             s == Sold
  <1>1. /\ ledger \in Ledgers /\ b \in Ledgers /\ s \in Ledgers
        /\ o.buyV \in VenueSet /\ o.sellV \in VenueSet
    BY AtHand, SettleFacts DEF TypeInv, TypeOK
  <1>2. QuoteOut(w) \in Nat /\ QuoteIn(w) \in Int
    BY LegFacts DEF QuoteOut, QuoteIn, At
  <1>3. b.quote[w] = ledger.quote[w] - QuoteOut(w) /\ ledger.quote[w] \in Int
    <2>1. ledger.quote[w] \in Int
      BY <1>1 DEF Ledgers
    <2>2. CASE SettledBuy
      <3> DEFINE quote == -Cost(legs.buy)
                 base  == legs.buy.filled
      <3>1. quote \in Int /\ base \in Int /\ Moves(ledger, b, o.buyV, quote, base)
        BY <2>2, LegFacts, SettleFacts
      <3>2. At(o.buyV, w, quote) = -QuoteOut(w)
        BY <2>2, LegFacts DEF QuoteOut, At
      <3> HIDE DEF b, quote, base
      <3>3. MovesAt(ledger, b, o.buyV, quote, base, w)
        BY <1>1, <3>1, MovedFacts
      <3> QED  BY <1>2, <2>1, <3>2, <3>3 DEF MovesAt
    <2>3. CASE ~SettledBuy
      BY <2>1, <2>3, SettleFacts DEF QuoteOut
    <2> QED  BY <2>1, <2>2, <2>3
  <1>4. s.quote[w] = b.quote[w] + QuoteIn(w)
    <2>1. b.quote[w] \in Int
      BY <1>1 DEF Ledgers
    <2>2. CASE SettledSell
      <3> DEFINE quote == Proceeds(legs.sell)
                 base  == -legs.sell.filled
      <3>1. quote \in Int /\ base \in Int /\ Moves(b, s, o.sellV, quote, base)
        BY <2>2, LegFacts, SettleFacts
      <3>2. At(o.sellV, w, quote) = QuoteIn(w)
        BY <2>2 DEF QuoteIn
      <3> HIDE DEF b, s, quote, base
      <3>3. MovesAt(b, s, o.sellV, quote, base, w)
        BY <1>1, <3>1, MovedFacts
      <3> QED  BY <3>2, <3>3 DEF MovesAt
    <2>3. CASE ~SettledSell
      BY <2>1, <2>3, SettleFacts DEF QuoteIn
    <2> QED  BY <2>2, <2>3
  <1>5. ledger'.quote = s.quote
    BY BookedFacts
  <1> HIDE DEF b, s
  <1> QED  BY <1>2, <1>3, <1>4, <1>5

\* A settled leg was covered at its own venue.
LEMMA LegsAreCovered ==
    ASSUME TypeInv, opps # <<>>
    PROVE  /\ SettledBuy => ledger.quote[o.buyV] >= Cost(legs.buy) /\ legs.buy.filled > 0
           /\ SettledSell => ledger.base[o.sellV] >= legs.sell.filled /\ legs.sell.filled > 0
  <1>1. SettledBuy => ledger.quote[o.buyV] >= Cost(legs.buy) /\ legs.buy.filled > 0
    BY DEF SettledBuy, CanSettleBuy, Cost
  <1>2. SettledSell => Bought.base[o.sellV] >= legs.sell.filled /\ legs.sell.filled > 0
    BY DEF SettledSell, CanSettleSell
  <1>3. Bought.base[o.sellV] = ledger.base[o.sellV]
    <2> DEFINE b == Bought
               s == o.sellV
    <2>1. /\ ledger \in Ledgers /\ o.buyV \in VenueSet /\ s \in VenueSet /\ s # o.buyV
      BY AtHand DEF TypeInv, TypeOK
    <2>2. CASE SettledBuy
      <3> DEFINE quote == -Cost(legs.buy)
                 base  == legs.buy.filled
      <3>1. quote \in Int /\ base \in Int /\ Moves(ledger, b, o.buyV, quote, base)
        BY <2>2, LegFacts, SettleFacts
      <3> HIDE DEF b, s, quote, base
      <3>2. MovesAt(ledger, b, o.buyV, quote, base, s)
        BY <2>1, <3>1, MovedFacts
      <3> QED  BY <2>1, <3>2 DEF MovesAt, At, b, s
    <2>3. CASE ~SettledBuy
      BY <2>3, SettleFacts
    <2> QED  BY <2>2, <2>3
  <1> QED  BY <1>1, <1>2, <1>3

\* What a settlement books when both legs settle in the same quantity.
LEMMA MatchedProfit ==
    ASSUME TypeInv, Settle, opps # <<>>, SettledBuy, SettledSell,
           legs.buy.filled = legs.sell.filled
    PROVE  ledger'.realized = ledger.realized + (Proceeds(legs.sell) - Cost(legs.buy))
  <1>1. Bought.realized = ledger.realized /\ Sold.realized = Bought.realized
    BY SettleFacts DEF Moves
  <1>2. ledger'.realized = Sold.realized + RealizedPnL(legs.buy, legs.sell)
    BY BookedFacts
  <1>3. RealizedPnL(legs.buy, legs.sell) = Proceeds(legs.sell) - Cost(legs.buy)
    BY LegFacts, PnLFacts DEF SettledBuy
  <1> QED  BY <1>1, <1>2, <1>3

\* Settle is a trade of the contract.
LEMMA SettleIsTrade ==
    ASSUME TypeInv, Settle, opps # <<>>
    PROVE  Contract!Trade(o.buyV, o.sellV)
  <1> DEFINE b == o.buyV
             s == o.sellV
             base(w)   == ledger.base[w]
             base2(w)  == ledger'.base[w]
             quote(w)  == ledger.quote[w]
             quote2(w) == ledger'.quote[w]
             cost == Cost(legs.buy)
             got  == Proceeds(legs.sell)
             in   == legs.buy.filled
             out  == legs.sell.filled
  <1>1. b \in VenueSet /\ s \in VenueSet /\ b # s
    BY AtHand
  <1>2. ASSUME NEW w \in VenueSet
        PROVE  /\ base(w) \in Int /\ base2(w) = base(w) + BaseIn(w) - BaseOut(w)
               /\ quote(w) \in Int /\ quote2(w) = quote(w) - QuoteOut(w) + QuoteIn(w)
    BY SettleMoves, SettlePays
  <1>3. /\ in \in Nat /\ out \in Nat /\ in <= TradeQty /\ out <= TradeQty /\ TradeQty \in Nat
        /\ cost \in Nat /\ got \in Int
    BY LegFacts, TradingAssumption
  <1>4. /\ SettledBuy => BaseIn(b) = in /\ QuoteOut(b) = cost
        /\ ~SettledBuy => BaseIn(b) = 0 /\ QuoteOut(b) = 0
        /\ BaseOut(b) = 0 /\ QuoteIn(b) = 0
    BY <1>1 DEF BaseIn, BaseOut, QuoteIn, QuoteOut, At
  <1>5. /\ SettledSell => BaseOut(s) = out /\ QuoteIn(s) = got
        /\ ~SettledSell => BaseOut(s) = 0 /\ QuoteIn(s) = 0
        /\ BaseIn(s) = 0 /\ QuoteOut(s) = 0
    BY <1>1 DEF BaseIn, BaseOut, QuoteIn, QuoteOut, At
  <1>6. /\ SettledBuy => quote(b) >= cost /\ in > 0
        /\ SettledSell => base(s) >= out /\ out > 0
    BY LegsAreCovered
  <1>7. SettledBuy /\ SettledSell /\ in = out
           => ledger'.realized - ledger.realized = got - cost
    <2>1. ledger.realized \in Int
      BY DEF TypeInv, TypeOK, Ledgers
    <2>2. SettledBuy /\ SettledSell /\ in = out => ledger'.realized = ledger.realized + (got - cost)
      BY MatchedProfit
    <2> QED  BY <1>3, <2>1, <2>2
  <1>8. ASSUME NEW w \in VenueSet \ {b, s}
        PROVE  base2(w) - base(w) = 0 /\ quote2(w) - quote(w) = 0
    <2>1. BaseIn(w) = 0 /\ BaseOut(w) = 0 /\ QuoteIn(w) = 0 /\ QuoteOut(w) = 0
      BY DEF BaseIn, BaseOut, QuoteIn, QuoteOut, At
    <2> HIDE DEF base, base2, quote, quote2
    <2> QED  BY <1>2, <2>1
  <1> HIDE DEF b, s, base, base2, quote, quote2, cost, got, in, out
  <1>9. /\ ~SettledBuy => base2(b) - base(b) = 0 /\ quote2(b) - quote(b) = 0
        /\ SettledBuy => /\ base2(b) - base(b) = in /\ in \in 1..TradeQty
                         /\ quote2(b) - quote(b) = -cost /\ -cost <= 0 /\ quote2(b) >= 0
    <2>1. /\ base(b) \in Int /\ base2(b) = base(b) + BaseIn(b) - BaseOut(b)
          /\ quote(b) \in Int /\ quote2(b) = quote(b) - QuoteOut(b) + QuoteIn(b)
      BY <1>1, <1>2
    <2> QED  BY <1>3, <1>4, <1>6, <2>1
  <1>10. /\ ~SettledSell => base2(s) - base(s) = 0 /\ quote2(s) - quote(s) = 0
         /\ SettledSell => /\ -(base2(s) - base(s)) = out /\ out \in 1..TradeQty
                           /\ quote2(s) - quote(s) = got /\ base2(s) >= 0
    <2>1. /\ base(s) \in Int /\ base2(s) = base(s) + BaseIn(s) - BaseOut(s)
          /\ quote(s) \in Int /\ quote2(s) = quote(s) - QuoteOut(s) + QuoteIn(s)
      BY <1>1, <1>2
    <2> QED  BY <1>3, <1>5, <1>6, <2>1
  <1>11. /\ Contract!Gain(ledger.base, b) = base2(b) - base(b)
         /\ Contract!Gain(ledger.quote, b) = quote2(b) - quote(b)
         /\ Contract!Gain(ledger.base, s) = base2(s) - base(s)
         /\ Contract!Gain(ledger.quote, s) = quote2(s) - quote(s)
    BY DEF Contract!Gain, base, base2, quote, quote2
  <1>12. Contract!BuyLeg(b)
    BY <1>9, <1>11 DEF Contract!BuyLeg, quote2
  <1>13. Contract!SellLeg(s)
    BY <1>10, <1>11 DEF Contract!SellLeg, base2
  <1>14. \A v \in VenueSet \ {b, s} : /\ Contract!Gain(ledger.base, v) = 0
                                      /\ Contract!Gain(ledger.quote, v) = 0
    BY <1>8 DEF Contract!Gain, base, base2, quote, quote2
  <1>15. ASSUME Contract!Matched(b, s)
         PROVE  ledger'.realized - ledger.realized
                    = Contract!Gain(ledger.quote, b) + Contract!Gain(ledger.quote, s)
    <2>1. base2(b) - base(b) > 0 /\ base2(b) - base(b) = -(base2(s) - base(s))
      BY <1>11, <1>15 DEF Contract!Matched
    <2>2. SettledBuy
      BY <1>9, <2>1
    <2>3. SettledSell
      BY <1>10, <2>1
    <2>4. in = out
      BY <1>9, <1>10, <2>1, <2>2, <2>3
    <2> QED  BY <1>3, <1>7, <1>9, <1>10, <1>11, <2>2, <2>3, <2>4
  <1> QED  BY <1>1, <1>12, <1>13, <1>14, <1>15 DEF Contract!Trade, b, s

\* The evaluation loop implements the contract of the ledger: balances and
\* profit move by whole, covered, truthfully booked trades and by nothing else.
THEOREM LoopKeepsContract == Spec => KeepsLedgerContract
  <1>1. Init => Contract!Init
    BY DEF Init, NewLedger, Contract!Init
  <1>2. TypeInv /\ [Next]_vars
           => [\E b, s \in VenueSet : Contract!Trade(b, s)]_<<ledger.quote, ledger.base, ledger.realized>>
    <2> SUFFICES ASSUME TypeInv, [Next]_vars
                 PROVE  \/ \E b, s \in VenueSet : Contract!Trade(b, s)
                        \/ UNCHANGED <<ledger.quote, ledger.base, ledger.realized>>
      OBVIOUS
    <2>1. CASE Settle
      <3>1. opps # <<>>
        BY <2>1 DEF Settle, TypeInv, TypeOK
      <3>2. Contract!Trade(o.buyV, o.sellV)
        BY <2>1, <3>1, SettleIsTrade
      <3>3. PICK b, s \in VenueSet : b = o.buyV /\ s = o.sellV
        BY <3>1, AtHand
      <3>4. Contract!Trade(b, s)
        BY <3>2, <3>3 DEF Contract!Trade, Contract!BuyLeg, Contract!SellLeg, Contract!Matched, Contract!Gain
      <3> QED  BY <3>4
    <2>2. CASE UNCHANGED ledger
      BY <2>2
    <2> QED  BY <2>1, <2>2, OnlySettleWrites
  <1> QED  BY <1>1, <1>2, AlwaysTyped, PTL DEF Spec, KeepsLedgerContract, Contract!Spec

-----------------------------------------------------------------------------
(* Overdrafts.  A buy is checked with its fee before it is booked; a sale  *)
(* is checked for the base asset only, so that its fee must be covered by  *)
(* what it earns.                                                          *)

FeesAreCovered == legs.sell.fee <= Mul(legs.sell.vwap, legs.sell.filled)

NonNegative(l) == \A v \in VenueSet : l.quote[v] >= 0 /\ l.base[v] >= 0

\* A move that overdraws nothing at its venue overdraws nothing.
LEMMA MovesNonNegative ==
    ASSUME NEW l \in Ledgers, NEW l2, NEW v \in VenueSet, NEW quote \in Int, NEW base \in Int,
           Moves(l, l2, v, quote, base), NonNegative(l),
           l.quote[v] + quote >= 0, l.base[v] + base >= 0
    PROVE  NonNegative(l2)
  <1> SUFFICES ASSUME NEW w \in VenueSet PROVE l2.quote[w] >= 0 /\ l2.base[w] >= 0
    BY DEF NonNegative
  <1>1. MovesAt(l, l2, v, quote, base, w)
    BY MovedFacts
  <1>2. /\ l2.quote[w] = l.quote[w] + At(v, w, quote)
        /\ l2.base[w] = l.base[w] + At(v, w, base)
        /\ l.quote[w] >= 0 /\ l.base[w] >= 0
    BY <1>1 DEF MovesAt, NonNegative
  <1>3. CASE w = v
    BY <1>2, <1>3 DEF At
  <1>4. CASE w # v
    <2>1. l.quote[w] \in Int /\ l.base[w] \in Int
      BY <1>1 DEF MovesAt
    <2> QED  BY <1>2, <1>4, <2>1 DEF At
  <1> QED  BY <1>3, <1>4

\* No balance is overdrawn as long as no sale earns less than its fee:
\* whatever has happened to the prices since the inventory check, the ledger
\* refuses a leg it cannot pay.
THEOREM BalancesNeverNegative == Spec /\ []FeesAreCovered => []NoOverdraft
  <1>1. Init => NoOverdraft
    BY TradingAssumption DEF Init, NewLedger, NoOverdraft
  <1>2. TypeInv /\ FeesAreCovered /\ NoOverdraft /\ [Next]_vars => NoOverdraft'
    <2> SUFFICES ASSUME TypeInv, FeesAreCovered, NoOverdraft, [Next]_vars PROVE NoOverdraft'
      OBVIOUS
    <2>1. CASE Settle
      <3> DEFINE b == Bought
                 s == Sold
      <3>1. opps # <<>>
        BY <2>1 DEF Settle, TypeInv, TypeOK
      <3>2. /\ ledger \in Ledgers /\ b \in Ledgers /\ NonNegative(ledger)
            /\ o.buyV \in VenueSet /\ o.sellV \in VenueSet
        BY <3>1, AtHand, SettleFacts DEF TypeInv, TypeOK, NoOverdraft, NonNegative
      <3>3. NonNegative(b)
        <4>1. CASE SettledBuy
          <5> DEFINE quote == -Cost(legs.buy)
                     base  == legs.buy.filled
          <5>1. /\ quote \in Int /\ base \in Int /\ base \in Nat
                /\ Moves(ledger, b, o.buyV, quote, base)
            BY <3>1, <4>1, LegFacts, SettleFacts
          <5>2. ledger.quote[o.buyV] + quote >= 0
            <6>1. ledger.quote[o.buyV] >= Cost(legs.buy)
              BY <4>1 DEF SettledBuy, CanSettleBuy, Cost
            <6>2. ledger.quote[o.buyV] \in Int /\ Cost(legs.buy) \in Int
              BY <3>2, LegFacts DEF Ledgers
            <6> QED  BY <6>1, <6>2
          <5>3. ledger.base[o.buyV] + base >= 0
            <6>1. ledger.base[o.buyV] \in Int /\ ledger.base[o.buyV] >= 0
              BY <3>2 DEF NonNegative, Ledgers
            <6> HIDE DEF base
            <6> QED  BY <5>1, <6>1
          <5> HIDE DEF b, quote, base
          <5> QED  BY <3>2, <5>1, <5>2, <5>3, MovesNonNegative
        <4>2. CASE ~SettledBuy
          BY <3>1, <3>2, <4>2, SettleFacts
        <4> QED  BY <4>1, <4>2
      <3>4. NonNegative(s)
        <4>1. CASE SettledSell
          <5> DEFINE quote == Proceeds(legs.sell)
                     base  == -legs.sell.filled
          <5>1. /\ quote \in Int /\ base \in Int /\ Moves(b, s, o.sellV, quote, base)
            BY <3>1, <4>1, LegFacts, SettleFacts
          <5>2. b.quote[o.sellV] + quote >= 0
            <6>1. b.quote[o.sellV] \in Int /\ b.quote[o.sellV] >= 0
              <7> HIDE DEF b
              <7> QED  BY <3>2, <3>3 DEF NonNegative, Ledgers
            <6>2. quote >= 0
              <7> DEFINE value == Mul(legs.sell.vwap, legs.sell.filled)
              <7>1. legs.sell.vwap \in Nat /\ legs.sell.filled \in Nat /\ legs.sell.fee \in Nat
                BY LegFacts DEF LegResults
              <7>2. value \in Nat /\ legs.sell.fee <= value /\ quote = value - legs.sell.fee
                BY <7>1, DecimalFacts DEF FeesAreCovered, Proceeds
              <7> HIDE DEF value, quote
              <7> QED  BY <7>1, <7>2
            <6> HIDE DEF b, quote
            <6> QED  BY <5>1, <6>1, <6>2
          <5>3. b.base[o.sellV] + base >= 0
            <6>1. b.base[o.sellV] >= legs.sell.filled
              BY <4>1 DEF SettledSell, CanSettleSell
            <6>2. b.base[o.sellV] \in Int /\ legs.sell.filled \in Int
              <7> HIDE DEF b
              <7> QED  BY <3>2, LegFacts DEF Ledgers
            <6> HIDE DEF b
            <6> QED  BY <6>1, <6>2
          <5> HIDE DEF b, s, quote, base
          <5> QED  BY <3>2, <3>3, <5>1, <5>2, <5>3, MovesNonNegative
        <4>2. CASE ~SettledSell
          BY <3>1, <3>3, <4>2, SettleFacts
        <4> QED  BY <4>1, <4>2
      <3>5. ledger'.quote = s.quote /\ ledger'.base = s.base
        BY <2>1, <3>1, BookedFacts
      <3> QED  BY <3>4, <3>5 DEF NoOverdraft, NonNegative
    <2>2. CASE UNCHANGED ledger
      BY <2>2 DEF NoOverdraft
    <2> QED  BY <2>1, <2>2, OnlySettleWrites
  <1> QED  BY <1>1, <1>2, AlwaysTyped, PTL DEF Spec

-----------------------------------------------------------------------------
(* Exposure.  The check is made at the mid price of the moment, before the *)
(* trade, and two steps of the loop and any number of new views lie        *)
(* between it and the settlement.                                          *)

\* A negative quantity has no positive value.
LEMMA MulNegative ==
    ASSUME NEW a \in Int, a < 0, NEW m \in Nat PROVE Mul(a, m) <= 0
  <1> DEFINE x == Abs(a) * Abs(m)
             q == x \div Abs(Scale)
  <1>1. Mul(a, m) = -q
    BY DEF Mul, mulDiv
  <1>2. Abs(a) \in Nat /\ Abs(m) \in Nat /\ Abs(Scale) = Scale
    BY ScaleAssumption DEF Abs
  <1>3. x \in Nat
    BY <1>2
  <1> HIDE DEF x
  <1>4. q \in Nat
    BY <1>2, <1>3, ScaleAssumption
  <1> HIDE DEF q
  <1> QED  BY <1>1, <1>4

\* Every mid price is a natural, and LowestMid is the least of them.
LEMMA MidFacts ==
    ASSUME \A w \in AllViews : HasMid(w), AllViews # {}
    PROVE  /\ \A w \in AllViews : Mid(w) \in Nat /\ LowestMid <= Mid(w)
           /\ LowestMid \in Nat
  <1>1. ASSUME NEW w \in AllViews PROVE Mid(w) \in Nat
    <2> DEFINE bid == Head(w.bids).price
               ask == Head(w.asks).price
    <2>1. w \in BookViews
      BY TradingAssumption DEF AllViews
    <2>2. w.bids \in Seq(Quotes) /\ w.bids # <<>> /\ w.asks \in Seq(Quotes) /\ w.asks # <<>>
      BY <2>1 DEF BookViews, HasMid
    <2>3. Head(w.bids) \in Quotes /\ Head(w.asks) \in Quotes
      BY <2>2, TailFacts
    <2>4. bid \in Nat /\ ask \in Nat
      BY <2>3 DEF Quotes
    <2>5. Mid(w) = Div(bid + ask, 2 * Scale)
      BY DEF Mid
    <2> HIDE DEF bid, ask
    <2>6. bid + ask \in Nat /\ 2 * Scale \in Nat /\ 2 * Scale # 0
      BY <2>4, ScaleAssumption
    <2> QED  BY <2>5, <2>6, DecimalFacts
  <1> DEFINE T == {Mid(w) : w \in AllViews}
  <1>2. T \subseteq Nat /\ T # {}
    BY <1>1
  <1>3. PICK m \in T : \A x \in T : m <= x
    <2> HIDE DEF T
    <2> QED  BY <1>2, NatMinimum
  <1>4. \A w \in AllViews : m <= Mid(w)
    BY <1>3
  <1>5. LowestMid \in T /\ \A w \in AllViews : LowestMid <= Mid(w)
    <2> HIDE DEF T
    <2>1. LowestMid = CHOOSE x \in T : \A w \in AllViews : x <= Mid(w)
      BY DEF LowestMid, T
    <2> QED  BY <1>3, <1>4, <2>1
  <1> QED  BY <1>1, <1>2, <1>5

Traded == {"submit", "leg1", "leg2", "close", "settle"}

\* Until the trade is settled its venues are within the limit, at the lowest
\* price any view may have.
ExposureInv ==
    pc \in Traded => \A v \in {o.buyV, o.sellV} : Mul(VenueExposure(ledger, v), LowestMid) <= MaxVenueExposure

\* The exposure of a venue is a natural.
LEMMA HeldFacts ==
    ASSUME TypeInv, NEW v \in VenueSet
    PROVE  VenueExposure(ledger, v) \in Nat /\ ledger.pos[v].qty \in Int
  <1>1. ledger.pos[v].qty \in Int
    BY DEF TypeInv, TypeOK, Ledgers
  <1> QED  BY <1>1 DEF VenueExposure, Abs

\* ExposureInv is kept by every step.
LEMMA ExposureStep ==
    ASSUME MaxVenueExposure \in Nat \ {0}, \A w \in AllViews : HasMid(w),
           TypeInv, ExposureInv, [Next]_vars
    PROVE  ExposureInv'
  <1>1. AllViews # {}
    <2>1. VenueSet # {}
      BY TradingAssumption, ElementFacts DEF VenueSet
    <2> QED  BY <2>1, ViewFacts DEF TypeInv
  <1>2. CASE RiskCheckExposure
    <2> SUFFICES ASSUME pc' \in Traded
                 PROVE  ExposureInv'
      BY DEF ExposureInv
    <2>1. /\ CheckExposure(o, views, ledger) /\ UNCHANGED <<opps, ledger>> /\ opps # <<>>
      BY <1>2 DEF RiskCheckExposure, Reject, Traded, TypeInv, TypeOK
    <2>2. ASSUME NEW v \in {o.buyV, o.sellV}
          PROVE  Mul(VenueExposure(ledger, v), LowestMid) <= MaxVenueExposure
      <3> DEFINE held == VenueExposure(ledger, v)
                 mid  == Mid(views[v])
                 low  == LowestMid
      <3>1. v \in VenueSet
        BY <2>1, AtHand
      <3>2. views[v] \in AllViews /\ HasMid(views[v])
        BY <3>1, ViewFacts DEF TypeInv
      <3>3. ~Exceeds(Mul(held, mid), MaxVenueExposure)
        BY <2>1, <3>2 DEF CheckExposure
      <3>4. held \in Nat /\ mid \in Nat /\ low \in Nat /\ low <= mid
        BY <1>1, <3>1, <3>2, HeldFacts, MidFacts
      <3> HIDE DEF held, mid, low
      <3>5. Mul(held, low) <= Mul(held, mid) /\ Mul(held, low) \in Nat /\ Mul(held, mid) \in Nat
        <4>1. Mul(held, low) <= Mul(held, mid)
          <5>1. held <= held
            BY <3>4
          <5> QED  BY <3>4, <5>1, MulMonotone
        <4>2. Mul(held, low) \in Nat /\ Mul(held, mid) \in Nat
          BY <3>4, DecimalFacts
        <4> QED  BY <4>1, <4>2
      <3>6. Mul(held, low) <= MaxVenueExposure
        BY <3>3, <3>5 DEF Exceeds
      <3> QED  BY <3>6 DEF held, low
    <2> QED  BY <2>1, <2>2 DEF ExposureInv, o
  <1>3. CASE SubmitOrders \/ FillFirst \/ FillSecond \/ CloseOrders
    <2>1. pc \in Traded /\ UNCHANGED <<opps, ledger>>
      BY <1>3 DEF SubmitOrders, FillFirst, FillSecond, FillLeg, CloseOrders, Traded
    <2> QED  BY <2>1 DEF ExposureInv, o
  <1>4. CASE Others \/ UNCHANGED vars
    <2>1. UNCHANGED <<pc, opps, ledger>>
      BY <1>4 DEF Others, Publish, KillHandler, KillResetHandler, vars
    <2> QED  BY <2>1 DEF ExposureInv, o
  <1>5. CASE EvaluateOnce \/ ScanPair \/ ScanDone \/ RiskCheckState \/ RiskCheckFresh \/ Settle
    <2>1. pc' \notin Traded
      BY <1>5 DEF EvaluateOnce, ScanPair, ScanDone, RiskCheckState, RiskCheckFresh, Reject, Settle, Traded
    <2> QED  BY <2>1 DEF ExposureInv
  <1> QED  BY <1>2, <1>3, <1>4, <1>5 DEF Next, Loop

\* However the books move between the check and the fills, a venue ends up at
\* most one trade beyond its limit, valued at the lowest mid price.  Views
\* with both sides are assumed because the code skips the check without a mid
\* price, and a limit because it skips the check of a limit of zero.
THEOREM ExposureIsBounded ==
    ASSUME MaxVenueExposure \in Nat \ {0}, \A w \in AllViews : HasMid(w)
    PROVE  Spec => []ExposureWithinOneTrade
  <1>1. Init => ExposureInv /\ ExposureWithinOneTrade
    <2> SUFFICES ASSUME Init PROVE ExposureInv /\ ExposureWithinOneTrade
      OBVIOUS
    <2>1. TypeInv /\ pc = "idle"
      BY InitTypes DEF Init
    <2>2. ASSUME NEW v \in VenueSet
          PROVE  Mul(VenueExposure(ledger, v) - TradeQty, LowestMid) <= MaxVenueExposure
      <3>1. VenueExposure(ledger, v) = 0
        BY TradingAssumption DEF Init, NewLedger, VenueExposure, Abs
      <3> DEFINE e == VenueExposure(ledger, v) - TradeQty
      <3>2. e \in Int /\ e < 0
        BY <3>1, TradingAssumption
      <3>3. LowestMid \in Nat
        <4>1. AllViews # {}
          BY <2>1, ViewFacts DEF TypeInv
        <4> QED  BY <4>1, MidFacts
      <3> HIDE DEF e
      <3>4. Mul(e, LowestMid) <= 0
        BY <3>2, <3>3, MulNegative
      <3>5. Mul(e, LowestMid) \in Int
        BY <3>2, <3>3, DecimalFacts
      <3>6. Mul(e, LowestMid) <= MaxVenueExposure
        BY <3>4, <3>5
      <3> QED  BY <3>6 DEF e
    <2> QED  BY <2>1, <2>2 DEF ExposureInv, ExposureWithinOneTrade, Traded
  <1>2. TypeInv /\ ExposureInv /\ ExposureWithinOneTrade /\ [Next]_vars
        => (ExposureInv /\ ExposureWithinOneTrade)'
    <2> SUFFICES ASSUME TypeInv, ExposureInv, ExposureWithinOneTrade, [Next]_vars
                 PROVE  ExposureWithinOneTrade'
      BY ExposureStep
    <2>1. CASE UNCHANGED ledger
      BY <2>1 DEF ExposureWithinOneTrade
    <2>2. CASE Settle
      <3>1. opps # <<>> /\ pc \in Traded
        BY <2>2 DEF Settle, TypeInv, TypeOK, Traded
      <3>2. LowestMid \in Nat
        <4>1. VenueSet # {}
          BY TradingAssumption, ElementFacts DEF VenueSet
        <4>2. AllViews # {}
          BY <4>1, ViewFacts DEF TypeInv
        <4> QED  BY <4>2, MidFacts
      <3> SUFFICES ASSUME NEW v \in VenueSet
                   PROVE  Mul(VenueExposure(ledger', v) - TradeQty, LowestMid) <= MaxVenueExposure
        BY DEF ExposureWithinOneTrade
      <3> DEFINE q  == ledger.pos[v].qty
                 q2 == ledger'.pos[v].qty
                 in  == BaseIn(v)
                 out == BaseOut(v)
      <3>3. q \in Int /\ in \in Nat /\ out \in Nat /\ q2 = q + in - out
        BY <2>2, <3>1, SettleMoves
      <3>4. VenueExposure(ledger, v) = Abs(q) /\ VenueExposure(ledger', v) = Abs(q2)
        BY DEF VenueExposure
      <3>5. CASE v \notin {o.buyV, o.sellV}
        <4>1. in = 0 /\ out = 0
          BY <3>5 DEF BaseIn, BaseOut, At
        <4>2. q2 = q
          BY <3>3, <4>1
        <4>3. VenueExposure(ledger', v) = VenueExposure(ledger, v)
          BY <3>4, <4>2
        <4> QED  BY <4>3 DEF ExposureWithinOneTrade
      <3>6. CASE v \in {o.buyV, o.sellV}
        <4>1. Mul(VenueExposure(ledger, v), LowestMid) <= MaxVenueExposure
          BY <3>1, <3>6 DEF ExposureInv
        <4>2. (in = 0 \/ out = 0) /\ in <= TradeQty /\ out <= TradeQty
          BY <3>1, <3>6, AtHand, LegFacts, TradingAssumption DEF BaseIn, BaseOut, At
        <4> DEFINE e == Abs(q2) - TradeQty
        <4>3. e \in Int /\ Abs(q) \in Nat /\ e <= Abs(q)
          <5> HIDE DEF q, q2, in, out
          <5> QED  BY <3>3, <4>2, TradingAssumption DEF Abs
        <4> HIDE DEF e
        <4>4. Mul(e, LowestMid) \in Int /\ Mul(e, LowestMid) <= MaxVenueExposure
          <5>1. CASE e < 0
            <6>1. Mul(e, LowestMid) <= 0
              BY <3>2, <4>3, <5>1, MulNegative
            <6>2. Mul(e, LowestMid) \in Int
              BY <3>2, <4>3, DecimalFacts
            <6> QED  BY <6>1, <6>2
          <5>2. CASE e >= 0
            <6> DEFINE a == Abs(q)
            <6>1. e \in Nat /\ a \in Nat /\ e <= a /\ Mul(a, LowestMid) <= MaxVenueExposure
              BY <3>4, <4>1, <4>3, <5>2
            <6> HIDE DEF a
            <6>2. Mul(e, LowestMid) <= Mul(a, LowestMid)
              BY <3>2, <6>1, MulMonotone
            <6>3. Mul(e, LowestMid) \in Nat /\ Mul(a, LowestMid) \in Nat
              BY <3>2, <6>1, DecimalFacts
            <6> QED  BY <6>1, <6>2, <6>3
          <5> QED  BY <4>3, <5>1, <5>2
        <4>5. VenueExposure(ledger', v) - TradeQty = e
          BY <3>4 DEF e
        <4> QED  BY <4>4, <4>5
      <3> QED  BY <3>5, <3>6
    <2> QED  BY <2>1, <2>2, OnlySettleWrites
  <1> QED  BY <1>1, <1>2, AlwaysTyped, PTL DEF Spec

-----------------------------------------------------------------------------
(* The fills.  Each order of a trade is filled once, new, and by one step. *)

VenueOf(side) == IF side = "buy" THEN o.buyV ELSE o.sellV

FillOf(side) ==
    FillAgainstBook(NewOrder(side, "market", 0, TradeQty), views[VenueOf(side)], TakerBps[VenueOf(side)])

Unfilled(side) == orders[side] = NewOrder(side, "market", 0, TradeQty) /\ legs[side] = NoLeg

\* Where in the loop an order is still new, and where there are no legs.
NewInv ==
    /\ pc = "leg1" => Unfilled(FirstLeg) /\ Unfilled(SecondLeg)
    /\ pc = "leg2" => Unfilled(SecondLeg)
    /\ pc \notin {"leg1", "leg2", "close", "settle"} => legs = NoLegs

\* What a fill of one side does to the trade.
FillsNew(side) ==
    /\ side \in Sides
    /\ orders[side] = NewOrder(side, "market", 0, TradeQty)
    /\ \A x \in Sides : /\ orders'[x] = IF x = side THEN FillOf(side).order ELSE orders[x]
                        /\ legs'[x] = IF x = side THEN FillOf(side).leg ELSE legs[x]
    /\ opps # <<>> /\ UNCHANGED <<views, opps, ledger, history>>

\* The two sides of a trade.
LEMMA LegsOfTrade ==
    /\ FirstLeg \in Sides /\ SecondLeg \in Sides /\ FirstLeg # SecondLeg
    /\ \A side \in Sides : side = FirstLeg \/ side = SecondLeg
  BY DEF FirstLeg, SecondLeg, Sides

\* What the venue of a side charges, and what its lane has published.
LEMMA VenueFacts ==
    ASSUME TypeInv, opps # <<>>, NEW side \in Sides
    PROVE  /\ VenueOf(side) \in VenueSet /\ TakerBps[VenueOf(side)] \in Nat
           /\ views[VenueOf(side)] \in AllViews
           /\ views[VenueOf(side)].bids \in Seq(Quotes) /\ views[VenueOf(side)].asks \in Seq(Quotes)
  <1> DEFINE v == VenueOf(side)
  <1>1. v \in VenueSet
    BY AtHand DEF VenueOf
  <1> HIDE DEF v
  <1>2. TakerBps[v] \in Nat
    BY <1>1, TradingAssumption
  <1>3. views[v] \in BookViews /\ views[v] \in AllViews
    BY <1>1, ViewFacts DEF TypeInv
  <1>4. views[v].bids \in Seq(Quotes) /\ views[v].asks \in Seq(Quotes)
    BY <1>3 DEF BookViews
  <1> QED  BY <1>1, <1>2, <1>3, <1>4 DEF v

\* Both fills fill a new order.
LEMMA FillSteps ==
    ASSUME TypeInv, NewInv
    PROVE  /\ FillFirst => FillsNew(FirstLeg)
           /\ FillSecond => FillsNew(SecondLeg)
  <1>1. ASSUME NEW side \in Sides, FillLeg(side), Unfilled(side), opps # <<>>
        PROVE  FillsNew(side)
    <2> DEFINE r == FillOf(side)
    <2>1. orders' = [orders EXCEPT ![side] = r.order] /\ legs' = [legs EXCEPT ![side] = r.leg]
      BY <1>1 DEF FillLeg, FillOf, VenueOf, Unfilled
    <2> HIDE DEF r
    <2>2. orders \in [buy : Orders, sell : Orders] /\ legs \in [buy : LegResults, sell : LegResults]
      BY DEF TypeInv, TypeOK
    <2>3. \A x \in Sides : /\ orders'[x] = IF x = side THEN r.order ELSE orders[x]
                           /\ legs'[x] = IF x = side THEN r.leg ELSE legs[x]
      BY <2>1, <2>2 DEF Sides
    <2>4. UNCHANGED <<views, opps, ledger, history>>
      BY <1>1 DEF FillLeg
    <2> QED  BY <1>1, <2>3, <2>4 DEF FillsNew, Unfilled, r
  <1>2. FillFirst \/ FillSecond => opps # <<>>
    BY DEF FillFirst, FillSecond, TypeInv, TypeOK
  <1>3. FillFirst => Unfilled(FirstLeg) /\ FillLeg(FirstLeg)
    BY DEF FillFirst, NewInv
  <1>4. FillSecond => Unfilled(SecondLeg) /\ FillLeg(SecondLeg)
    BY DEF FillSecond, NewInv
  <1> QED  BY <1>1, <1>2, <1>3, <1>4, LegsOfTrade

\* NewInv is kept by every step.
LEMMA NewStep ==
    ASSUME TypeInv, NewInv, [Next]_vars
    PROVE  NewInv'
  <1>1. CASE SubmitOrders
    <2>1. /\ pc' = "leg1" /\ opps # <<>> /\ legs' = legs /\ legs = NoLegs
      BY <1>1 DEF SubmitOrders, TypeInv, TypeOK, NewInv
    <2>2. orders' = [buy  |-> NewOrder("buy", "market", 0, TradeQty),
                     sell |-> NewOrder("sell", "market", 0, TradeQty)]
      BY <1>1, <2>1, AtHand DEF SubmitOrders
    <2>3. \A side \in Sides : /\ orders'[side] = NewOrder(side, "market", 0, TradeQty)
                              /\ legs'[side] = NoLeg
      BY <2>1, <2>2 DEF Sides, NoLegs
    <2> QED  BY <2>1, <2>3, LegsOfTrade DEF NewInv, Unfilled, FirstLeg, SecondLeg
  <1>2. CASE FillFirst
    <2>1. pc = "leg1" /\ pc' = "leg2" /\ FillsNew(FirstLeg)
      BY <1>2, FillSteps DEF FillFirst
    <2>2. orders'[SecondLeg] = orders[SecondLeg] /\ legs'[SecondLeg] = legs[SecondLeg]
      BY <2>1, LegsOfTrade DEF FillsNew
    <2>3. Unfilled(SecondLeg)
      BY <2>1 DEF NewInv
    <2> QED  BY <2>1, <2>2, <2>3 DEF NewInv, Unfilled, SecondLeg
  <1>3. CASE FillSecond
    BY <1>3 DEF FillSecond, NewInv
  <1>4. CASE CloseOrders
    BY <1>4 DEF CloseOrders, NewInv
  <1>5. CASE Settle
    BY <1>5 DEF Settle, NewInv
  <1>6. CASE Others \/ UNCHANGED vars
    <2>1. UNCHANGED <<pc, orders, legs>>
      BY <1>6 DEF Others, Publish, KillHandler, KillResetHandler, trade, vars
    <2> QED  BY <2>1 DEF NewInv, Unfilled, FirstLeg, SecondLeg
  <1>7. CASE \/ EvaluateOnce \/ ScanPair \/ ScanDone
             \/ RiskCheckState \/ RiskCheckFresh \/ RiskCheckExposure
    <2>1. /\ UNCHANGED trade
          /\ pc \notin {"leg1", "leg2", "close", "settle"} /\ pc' \notin {"leg1", "leg2", "close", "settle"}
      BY <1>7 DEF EvaluateOnce, ScanPair, ScanDone, RiskCheckState, RiskCheckFresh,
         RiskCheckExposure, Reject
    <2> QED  BY <2>1 DEF NewInv, trade
  <1> QED  BY <1>1, <1>2, <1>3, <1>4, <1>5, <1>6, <1>7 DEF Next, Loop

\* NewInv holds throughout.
LEMMA AlwaysNew == Spec => [](TypeInv /\ NewInv)
  <1>1. Init => NewInv
    BY DEF Init, NewInv
  <1>2. TypeInv /\ NewInv /\ [Next]_vars => NewInv'
    BY NewStep
  <1> QED  BY <1>1, <1>2, AlwaysTyped, PTL DEF Spec

\* The steps that write the legs.
LEMMA LegsWritten ==
    ASSUME TypeInv, NewInv, [Next]_vars
    PROVE  \/ \E side \in Sides : FillsNew(side)
           \/ SubmitOrders
           \/ Settle
           \/ UNCHANGED trade
  BY FillSteps, LegsOfTrade
  DEF Next, Others, Loop, Publish, KillHandler, KillResetHandler, EvaluateOnce, ScanPair,
      ScanDone, RiskCheckState, RiskCheckFresh, RiskCheckExposure, CloseOrders, vars, trade

\* The orders and the legs agree on what was filled after every step of the
\* loop, and no order's state says more or less, whatever depth the books have
\* when the two legs reach them.
THEOREM FillsAreReported == Spec => []FillsAreAccounted
  <1> DEFINE Agreed == \A side \in Sides : Accounted(orders[side], legs[side])
  <1>1. Agreed <=> FillsAreAccounted
    BY DEF Accounted, FillsAreAccounted, Sides
  <1>2. ASSUME NEW side \in Sides, NEW qty \in Nat
        PROVE  Accounted(NewOrder(side, "market", 0, qty), NoLeg)
    BY DEF NewOrder, NoLeg, Accounted
  <1>3. Init => Agreed
    BY <1>2 DEF Init, NoOrders, NoLegs, Sides
  <1>4. TypeInv /\ NewInv /\ Agreed /\ [Next]_vars => Agreed'
    <2> SUFFICES ASSUME TypeInv, NewInv, Agreed, [Next]_vars PROVE Agreed'
      OBVIOUS
    <2>1. ASSUME NEW side \in Sides, FillsNew(side) PROVE Agreed'
      <3> DEFINE view == views[VenueOf(side)]
                 bps  == TakerBps[VenueOf(side)]
                 r    == FillOf(side)
      <3>1. view.bids \in Seq(Quotes) /\ view.asks \in Seq(Quotes) /\ bps \in Nat
        BY <2>1, VenueFacts DEF FillsNew
      <3>2. side \in {"buy", "sell"} /\ TradeQty \in Nat \ {0}
        BY TradingAssumption DEF Sides
      <3>3. r = FillAgainstBook(NewOrder(side, "market", 0, TradeQty), view, bps)
        BY DEF FillOf
      <3> HIDE DEF view, bps, r
      <3>4. Accounted(r.order, r.leg)
        BY <3>1, <3>2, <3>3, AccountedFill
      <3> QED  BY <2>1, <3>4 DEF FillsNew, r
    <2>2. CASE SubmitOrders
      <3>1. opps # <<>> /\ legs' = NoLegs
        BY <2>2 DEF SubmitOrders, TypeInv, TypeOK, NewInv
      <3>2. orders' = [buy  |-> NewOrder("buy", "market", 0, TradeQty),
                       sell |-> NewOrder("sell", "market", 0, TradeQty)]
        BY <2>2, <3>1, AtHand DEF SubmitOrders
      <3>3. \A side \in Sides : /\ orders'[side] = NewOrder(side, "market", 0, TradeQty)
                                /\ legs'[side] = NoLeg
        BY <3>1, <3>2 DEF Sides, NoLegs
      <3> QED  BY <1>2, <3>3, TradingAssumption
    <2>3. CASE Settle
      <3>1. \A side \in Sides : /\ orders'[side] = NewOrder(side, "market", 0, 0)
                                /\ legs'[side] = NoLeg
        BY <2>3 DEF Settle, NoOrders, NoLegs, Sides
      <3> QED  BY <1>2, <3>1
    <2>4. CASE UNCHANGED trade
      BY <2>4 DEF trade
    <2> QED  BY <2>1, <2>2, <2>3, <2>4, LegsWritten
  <1> QED  BY <1>1, <1>3, <1>4, AlwaysNew, PTL DEF Spec

\* No venue charges more than half of a trade, and no bid is so low that
\* rounding the average price takes the other half of the smallest fill.
FeesAreModest ==
    \A v \in VenueSet :
        /\ TakerBps[v] <= 5000
        /\ \A view \in Views[v] : \A i \in 1..Len(view.bids) :
              2 * RoundingLoss <= Mul(view.bids[i].price, 1) + 1

\* Under FeesAreModest no sale earns less than its fee.
LEMMA SalesCoverFees ==
    ASSUME FeesAreModest
    PROVE  Spec => []FeesAreCovered
  <1>1. NoLeg.fee <= Mul(NoLeg.vwap, NoLeg.filled)
    <2>1. Mul(0, 0) \in Nat
      BY DecimalFacts
    <2> QED  BY <2>1 DEF NoLeg
  <1>2. Init => FeesAreCovered
    BY <1>1 DEF Init, NoLegs, FeesAreCovered
  <1>3. TypeInv /\ NewInv /\ FeesAreCovered /\ [Next]_vars => FeesAreCovered'
    <2> SUFFICES ASSUME TypeInv, NewInv, FeesAreCovered, [Next]_vars PROVE FeesAreCovered'
      OBVIOUS
    <2>1. ASSUME FillsNew("sell") PROVE FeesAreCovered'
      <3> DEFINE v      == VenueOf("sell")
                 view   == views[v]
                 bps    == TakerBps[v]
                 levels == view.bids
                 leg    == FillOf("sell").leg
      <3>1. /\ view.bids \in Seq(Quotes) /\ view.asks \in Seq(Quotes) /\ bps \in Nat
            /\ v \in VenueSet /\ view \in Views[v]
        <4>1. opps # <<>> /\ "sell" \in Sides
          BY <2>1 DEF FillsNew
        <4>2. v \in VenueSet
          BY <4>1, VenueFacts
        <4>3. view \in Views[v]
          <5> HIDE DEF v
          <5> QED  BY <4>2, ViewFacts DEF TypeInv
        <4> QED  BY <4>1, <4>2, <4>3, VenueFacts
      <3>2. Dear(levels, TradeQty, bps)
        <4> HIDE DEF v
        <4> QED  BY <3>1 DEF FeesAreModest, Dear, RoundingLoss, Loss
      <3>3. levels = Levels(NewOrder("sell", "market", 0, TradeQty), view)
        BY DEF Levels, NewOrder
      <3>4. leg = FillAgainstBook(NewOrder("sell", "market", 0, TradeQty), view, bps).leg
        BY DEF FillOf
      <3>5. "sell" \in {"buy", "sell"} /\ TradeQty \in Nat \ {0}
        BY TradingAssumption
      <3> HIDE DEF v, view, bps, levels, leg
      <3>6. leg.fee <= Mul(leg.vwap, leg.filled)
        BY <3>1, <3>2, <3>3, <3>4, <3>5, CoveredFill DEF levels
      <3>7. legs'["sell"] = leg
        BY <2>1 DEF FillsNew, leg
      <3> QED  BY <3>6, <3>7 DEF FeesAreCovered
    <2>2. ASSUME NEW side \in Sides, FillsNew(side), side # "sell" PROVE FeesAreCovered'
      <3>1. legs'["sell"] = legs["sell"]
        BY <2>2 DEF FillsNew, Sides
      <3> QED  BY <3>1 DEF FeesAreCovered
    <2>3. CASE SubmitOrders
      BY <2>3 DEF SubmitOrders, FeesAreCovered
    <2>4. CASE Settle
      BY <1>1, <2>4 DEF Settle, NoLegs, FeesAreCovered
    <2>5. CASE UNCHANGED trade
      BY <2>5 DEF trade, FeesAreCovered
    <2> QED  BY <2>1, <2>2, <2>3, <2>4, <2>5, LegsWritten
  <1> QED  BY <1>2, <1>3, AlwaysNew, PTL DEF Spec

\* No balance is ever overdrawn: the buy is refused if it cannot be paid, and
\* a sale earns more than its fee whatever price it is filled at.
THEOREM NeverOverdrawn ==
    ASSUME FeesAreModest
    PROVE  Spec => []NoOverdraft
  BY SalesCoverFees, BalancesNeverNegative, PTL

-----------------------------------------------------------------------------
(* The trade that was detected.  vwapOf adds up costs and divides once, a  *)
(* fill divides after every level; both walk the same levels as long as no *)
(* view has changed.                                                       *)

\* The two walks after i levels.
Alike(i, qty, feeBps, acc, w) ==
    /\ acc \in NewAccs(qty) /\ w \in VwapAccs
    /\ acc.left = w.left /\ acc.filled = w.filled /\ acc.cost = w.cost
    /\ acc.fee <= MulBps(acc.cost, feeBps)
    /\ Booked(acc) \in Nat /\ Booked(acc) <= acc.cost /\ acc.cost <= Booked(acc) + i * Loss(qty)
    /\ acc.filled # 0 => acc.order.avg <= Div(acc.cost, acc.filled)

\* What a walk has of a quantity is a natural.
LEMMA AccNaturals ==
    ASSUME NEW qty \in Nat, NEW acc \in NewAccs(qty)
    PROVE  /\ acc.left \in Nat /\ acc.filled \in Nat /\ acc.cost \in Nat /\ acc.fee \in Nat
           /\ acc.filled + acc.left = qty /\ acc.order.avg \in Nat
           /\ acc.order.filled = acc.filled
  BY DEF NewAccs, Accs, Orders

\* What rounding takes is a natural.
LEMMA LossFacts ==
    ASSUME NEW qty \in Nat \ {0}
    PROVE  Loss(qty) \in Nat
  <1>1. qty + Scale - 2 \in Nat /\ Scale \in Nat \ {0}
    BY ScaleAssumption
  <1> QED  BY <1>1, QuotientFacts DEF Loss

\* They stay alike through a level.
LEMMA AlikeTurn ==
    ASSUME NEW qty \in Nat \ {0}, NEW feeBps \in Nat, NEW level \in Quotes, NEW i \in Nat \ {0},
           NEW acc, NEW w, NEW b,
           Alike(i - 1, qty, feeBps, acc, w), Takes(qty, acc, b, level, feeBps)
    PROVE  Alike(i, qty, feeBps, b, VwapTurn(level, w))
  <1> DEFINE take  == Lesser(level.qty, acc.left)
             value == Mul(level.price, take)
             fee   == MulBps(value, feeBps)
             x     == VwapTurn(level, w)
             loss  == Loss(qty)
             ba    == Booked(acc)
             bb    == Booked(b)
             bc    == ba + value
  <1>1. /\ acc \in NewAccs(qty) /\ w \in VwapAccs
        /\ acc.left = w.left /\ acc.filled = w.filled /\ acc.cost = w.cost
        /\ acc.fee <= MulBps(acc.cost, feeBps)
        /\ ba \in Nat /\ ba <= acc.cost /\ acc.cost <= ba + (i - 1) * loss
    BY DEF Alike
  <1>2. acc.filled # 0 => acc.order.avg <= Div(acc.cost, acc.filled)
    BY DEF Alike
  <1>3. /\ b \in NewAccs(qty)
        /\ take \in Nat /\ value \in Nat /\ fee \in Nat
        /\ b.left = acc.left - take /\ b.filled = acc.filled + take
        /\ b.cost = acc.cost + value /\ b.fee = acc.fee + fee
        /\ bb \in Nat /\ bb <= bc /\ bc <= bb + loss
    BY DEF Takes
  <1>4. /\ take = 0 => value = 0 /\ b.order = acc.order
        /\ take # 0 => b.order.avg = Div(bc, b.filled)
    BY DEF Takes
  <1>5. x = [left |-> acc.left - take, filled |-> acc.filled + take, cost |-> acc.cost + value]
    BY <1>1 DEF VwapTurn
  <1>6. x \in VwapAccs
    BY <1>1, VwapTurnFacts
  <1>7. loss \in Nat
    BY LossFacts
  <1> HIDE DEF take, value, x, loss, ba, bb
  <1>8. x.left = b.left /\ x.filled = b.filled /\ x.cost = b.cost
    BY <1>3, <1>5
  <1>9. /\ acc.filled \in Nat /\ acc.cost \in Nat /\ acc.fee \in Nat
        /\ b.filled \in Nat /\ b.cost \in Nat /\ b.fee \in Nat
    BY <1>1, <1>3, AccNaturals
  <1>10. b.fee <= MulBps(b.cost, feeBps)
    <2> DEFINE m == MulBps(acc.cost, feeBps)
               n == MulBps(acc.cost + value, feeBps)
    <2>1. m \in Nat /\ m + fee <= n
      BY <1>3, <1>9, DecimalFacts, FeesAddUp
    <2>2. n \in Nat
      <3>1. acc.cost + value \in Nat
        BY <1>3, <1>9
      <3> QED  BY <3>1, DecimalFacts
    <2>3. acc.fee <= m /\ MulBps(b.cost, feeBps) = n
      BY <1>1, <1>3
    <2> HIDE DEF m, n, fee
    <2> QED  BY <1>3, <1>9, <2>1, <2>2, <2>3
  <1>11. bb <= b.cost /\ b.cost <= bb + i * loss
    <2> DEFINE k == (i - 1) * loss
    <2>1. k \in Nat /\ i * loss = k + loss
      BY <1>7
    <2>2. acc.cost <= ba + k
      BY <1>1
    <2> HIDE DEF k
    <2>3. bb <= acc.cost + value /\ acc.cost + value <= bb + (k + loss)
      BY <1>1, <1>3, <1>7, <1>9, <2>1, <2>2
    <2> QED  BY <1>3, <2>1, <2>3
  <1>12. ASSUME b.filled # 0 PROVE b.order.avg <= Div(b.cost, b.filled)
    <2>1. CASE take = 0
      <3>1. b.order = acc.order /\ b.filled = acc.filled /\ b.cost = acc.cost
        BY <1>3, <1>4, <1>9, <2>1
      <3> QED  BY <1>2, <1>12, <3>1
    <2>2. CASE take # 0
      <3> DEFINE f == b.filled
                 c == b.cost
      <3>1. bc \in Nat /\ f \in Nat \ {0} /\ c \in Nat /\ bc <= c
        BY <1>1, <1>3, <1>9, <1>12
      <3>2. b.order.avg = Div(bc, f)
        BY <1>4, <2>2
      <3> HIDE DEF bc, f, c
      <3>3. Div(bc, f) <= Div(c, f)
        BY <3>1, AveragesGrow
      <3> QED  BY <3>2, <3>3 DEF f, c
    <2> QED  BY <2>1, <2>2
  <1> HIDE DEF fee
  <1>13. Alike(i, qty, feeBps, b, x)
    BY <1>3, <1>6, <1>8, <1>10, <1>11, <1>12 DEF Alike, bb, loss
  <1> QED  BY <1>13 DEF x

\* A leg that filled qty on n levels, as vwapOf said.
Fits(leg, v, n, qty, feeBps) ==
    /\ leg.filled = qty /\ leg.vwap <= v.vwap /\ leg.fee \in Nat
    /\ Mul(leg.vwap, qty) \in Nat /\ Mul(v.vwap, qty) \in Nat /\ v.cost \in Nat
    /\ Mul(leg.vwap, qty) <= v.cost /\ Mul(v.vwap, qty) <= v.cost
    /\ v.cost <= Mul(leg.vwap, qty) + n * Loss(qty)
    /\ leg.fee <= MulBps(v.cost, feeBps)

\* A new order takes from a book what vwapOf found in it.
LEMMA DetectedFill ==
    ASSUME NEW side \in {"buy", "sell"}, NEW qty \in Nat \ {0}, NEW view, NEW feeBps \in Nat,
           NEW levels \in Seq(Quotes), levels = Levels(NewOrder(side, "market", 0, qty), view),
           view.ready, vwapOf(levels, qty).ok
    PROVE  Fits(FillAgainstBook(NewOrder(side, "market", 0, qty), view, feeBps).leg,
                vwapOf(levels, qty), Len(levels), qty, feeBps)
  <1> DEFINE n   == Len(levels)
             v   == vwapOf(levels, qty)
             ord == NewOrder(side, "market", 0, qty)
             acc == TakeLevels(ord, levels, feeBps)
             leg == FillAgainstBook(ord, view, feeBps).leg
  <1>1. n \in Nat /\ \A i \in 1..n : levels[i] \in Quotes
    BY ElementFacts
  <1>2. qty \in Nat
    OBVIOUS
  <1>3. PICK walk : IsVwapWalk(levels, qty, walk)
    BY <1>2, VwapWalk
  <1>4. /\ \A i \in 0..n : walk[i] \in VwapAccs
        /\ walk[0] = VwapStart(qty)
        /\ \A i \in 1..n : walk[i] = VwapTurn(levels[i], walk[i - 1])
    BY <1>3 DEF IsVwapWalk
  <1> DEFINE good == [i \in 0..n |-> {a \in NewAccs(qty) : Alike(i, qty, feeBps, a, walk[i])}]
  <1>5. FillStart(ord) \in good[0]
    <2> DEFINE a == FillStart(ord)
    <2>1. a \in NewAccs(qty) /\ Booked(a) = 0 /\ ord.filled = 0 /\ ord.qty = qty
      BY NewOrderFacts
    <2>2. a.left = qty /\ a.filled = 0 /\ a.cost = 0 /\ a.fee = 0
      BY <2>1 DEF FillStart
    <2>3. walk[0].left = qty /\ walk[0].filled = 0 /\ walk[0].cost = 0 /\ walk[0] \in VwapAccs
      BY <1>1, <1>4 DEF VwapStart
    <2>4. MulBps(0, feeBps) \in Nat /\ 0 * Loss(qty) = 0
      <3>1. Loss(qty) \in Nat
        BY LossFacts
      <3>2. MulBps(0, feeBps) \in Nat
        BY DecimalFacts
      <3> QED  BY <3>1, <3>2
    <2> HIDE DEF a, ord
    <2>5. Alike(0, qty, feeBps, a, walk[0])
      BY <2>1, <2>2, <2>3, <2>4 DEF Alike
    <2> QED  BY <1>1, <2>1, <2>5 DEF a
  <1>6. ASSUME NEW i \in 1..n, NEW a \in good[i - 1], NEW b, Takes(qty, a, b, levels[i], feeBps)
        PROVE  b \in good[i]
    <2>1. i - 1 \in 0..n /\ i \in 0..n /\ i \in Nat \ {0}
      BY <1>1
    <2>2. Alike(i - 1, qty, feeBps, a, walk[i - 1])
      BY <2>1
    <2>3. Alike(i, qty, feeBps, b, VwapTurn(levels[i], walk[i - 1]))
      BY <1>1, <1>6, <2>1, <2>2, AlikeTurn
    <2>4. Alike(i, qty, feeBps, b, walk[i])
      BY <1>4, <2>3
    <2>5. b \in NewAccs(qty)
      BY <1>6 DEF Takes
    <2> QED  BY <2>1, <2>4, <2>5
  <1>7. acc \in NewAccs(qty) /\ Alike(n, qty, feeBps, acc, walk[n])
    <2>1. n \in 0..n
      BY <1>1
    <2>2. good[n] = {a \in NewAccs(qty) : Alike(n, qty, feeBps, a, walk[n])}
      BY <2>1
    <2> HIDE DEF good
    <2>3. acc \in NewAccs(qty) /\ acc \in good[n]
      BY <1>5, <1>6, NewInduction
    <2> QED  BY <2>2, <2>3
  <1>8. leg = [filled |-> acc.filled, vwap |-> acc.order.avg, cost |-> acc.cost, fee |-> acc.fee]
    <2> HIDE DEF acc
    <2>1. acc = TakeLevels(ord, Levels(ord, view), feeBps)
      BY DEF acc
    <2>2. FilledAs(FillAgainstBook(ord, view, feeBps), view, acc)
      BY <1>7, <2>1, FillNewFacts
    <2> QED  BY <2>2 DEF FilledAs
  <1>9. /\ v.cost = walk[n].cost /\ walk[n].filled # 0 /\ walk[n].left = 0
        /\ v.vwap = Div(walk[n].cost, walk[n].filled)
    BY <1>3 DEF IsVwapWalk
  <1> HIDE DEF acc, v, leg
  <1>10. /\ acc.left = walk[n].left /\ acc.filled = walk[n].filled /\ acc.cost = walk[n].cost
         /\ acc.fee <= MulBps(acc.cost, feeBps)
         /\ Booked(acc) \in Nat /\ Booked(acc) <= acc.cost /\ acc.cost <= Booked(acc) + n * Loss(qty)
         /\ acc.filled # 0 => acc.order.avg <= Div(acc.cost, acc.filled)
    BY <1>7 DEF Alike
  <1>11. /\ acc.filled = qty /\ acc.cost \in Nat /\ acc.fee \in Nat
         /\ acc.order.filled = acc.filled
    BY <1>2, <1>7, <1>9, <1>10, AccNaturals
  <1>12. Booked(acc) = Mul(leg.vwap, qty)
    BY <1>8, <1>11 DEF Booked
  <1>13. Mul(v.vwap, qty) \in Nat /\ Mul(v.vwap, qty) <= v.cost
    <2> DEFINE c == walk[n].cost
    <2>1. v.vwap = Div(c, qty) /\ v.cost = c /\ c \in Nat
      BY <1>9, <1>10, <1>11
    <2> HIDE DEF c
    <2>2. qty <= qty
      OBVIOUS
    <2> QED  BY <2>1, <2>2, <1>2, AverageLoss
  <1>14. /\ leg.filled = qty /\ leg.vwap <= v.vwap /\ leg.fee \in Nat /\ v.cost = acc.cost
         /\ leg.fee <= MulBps(v.cost, feeBps)
    BY <1>8, <1>9, <1>10, <1>11
  <1> HIDE DEF n
  <1>15. Fits(leg, v, n, qty, feeBps)
    BY <1>10, <1>11, <1>12, <1>13, <1>14 DEF Fits
  <1> QED  BY <1>15 DEF leg, v, n

Detected(x) == evaluatePair(x.buyV, x.sellV, views[x.buyV], views[x.sellV]) = <<x>>

\* As long as no view changes, every opportunity is what its pair would yield
\* again.
DetectInv ==
    /\ pc = "idle" => opps = <<>>
    /\ calm => \A i \in DOMAIN opps : Detected(opps[i])

SideOf(side) == IF side = "buy" THEN views[o.buyV].asks ELSE views[o.sellV].bids

FitsAt(side) ==
    Fits(legs[side], vwapOf(SideOf(side), TradeQty), Len(SideOf(side)), TradeQty,
         TakerBps[VenueOf(side)])

\* And a filled leg is the one that was detected.
FitInv ==
    /\ calm /\ pc \in {"leg2", "close", "settle"} => FitsAt(FirstLeg)
    /\ calm /\ pc \in {"close", "settle"} => FitsAt(SecondLeg)

\* What evaluatePair has seen of the views when it yields x.
DetectedFrom(x) ==
    LET buy  == vwapOf(views[x.buyV].asks, TradeQty)
        sell == vwapOf(views[x.sellV].bids, TradeQty)
    IN  /\ views[x.buyV].ready /\ views[x.sellV].ready
        /\ buy.ok /\ sell.ok
        /\ x.buyVWAP = buy.vwap /\ x.sellVWAP = sell.vwap
        /\ x.net = Net(x.buyV, x.sellV, buy, sell)

\* It yields one only of two books deep enough.
LEMMA DetectedFacts ==
    ASSUME NEW x, Detected(x)
    PROVE  DetectedFrom(x)
  <1> DEFINE buy  == vwapOf(views[x.buyV].asks, TradeQty)
             sell == vwapOf(views[x.sellV].bids, TradeQty)
             net  == Net(x.buyV, x.sellV, buy, sell)
             opp  == [buyV |-> x.buyV, sellV |-> x.sellV, qty |-> TradeQty,
                      buyVWAP |-> buy.vwap, sellVWAP |-> sell.vwap, net |-> net]
             seen == /\ Usable(views[x.buyV]) /\ Usable(views[x.sellV])
                     /\ buy.ok /\ sell.ok
                     /\ net > MinProfit
                     /\ EdgeBps(net, buy.cost) >= MinEdgeBps
                     /\ buy.vwap < sell.vwap
  <1>1. evaluatePair(x.buyV, x.sellV, views[x.buyV], views[x.sellV]) = IF seen THEN <<opp>> ELSE <<>>
    BY DEF evaluatePair
  <1> HIDE DEF seen, opp
  <1>2. seen /\ <<opp>> = <<x>>
    <2>1. <<x>> # <<>>
      OBVIOUS
    <2> QED  BY <1>1, <2>1 DEF Detected
  <1>3. opp = x
    <2>1. <<opp>>[1] = <<x>>[1]
      BY <1>2
    <2> QED  BY <2>1
  <1>4. x.buyVWAP = buy.vwap /\ x.sellVWAP = sell.vwap /\ x.net = net
    <2>1. opp.buyVWAP = buy.vwap /\ opp.sellVWAP = sell.vwap /\ opp.net = net
      BY DEF opp
    <2> QED  BY <1>3, <2>1
  <1>5. views[x.buyV].ready /\ views[x.sellV].ready /\ buy.ok /\ sell.ok
    BY <1>2 DEF seen, Usable
  <1> QED  BY <1>4, <1>5 DEF DetectedFrom

\* The pair of what evaluatePair yields.
LEMMA EvaluateDetects ==
    ASSUME NEW buyV, NEW sellV, NEW buyView, NEW sellView
    PROVE  \/ evaluatePair(buyV, sellV, buyView, sellView) = <<>>
           \/ \E x : /\ evaluatePair(buyV, sellV, buyView, sellView) = <<x>>
                     /\ x.buyV = buyV /\ x.sellV = sellV
  <1> DEFINE buy  == vwapOf(buyView.asks, TradeQty)
             sell == vwapOf(sellView.bids, TradeQty)
             opp  == [buyV |-> buyV, sellV |-> sellV, qty |-> TradeQty,
                      buyVWAP |-> buy.vwap, sellVWAP |-> sell.vwap,
                      net |-> Net(buyV, sellV, buy, sell)]
  <1>1. opp.buyV = buyV /\ opp.sellV = sellV
    OBVIOUS
  <1>2. \/ evaluatePair(buyV, sellV, buyView, sellView) = <<>>
        \/ evaluatePair(buyV, sellV, buyView, sellView) = <<opp>>
    BY DEF evaluatePair
  <1> HIDE DEF opp
  <1> QED  BY <1>1, <1>2

\* Whoever leaves the views and the opportunities alone, or drops the first
\* one, keeps what is known of them.
LEMMA DetectKept ==
    ASSUME TypeInv, DetectInv, calm' => calm /\ UNCHANGED views,
           \/ UNCHANGED opps /\ (pc' = "idle" => opps = <<>>)
           \/ opps # <<>> /\ opps' = Tail(opps) /\ pc' # "idle"
    PROVE  DetectInv'
  <1>1. opps \in Seq(Opportunities)
    BY DEF TypeInv, TypeOK
  <1>2. ASSUME calm', NEW i \in DOMAIN opps' PROVE Detected(opps[i])'
    <2>1. \E j \in DOMAIN opps : opps'[i] = opps[j]
      <3>1. CASE UNCHANGED opps
        BY <1>2, <3>1
      <3>2. CASE opps # <<>> /\ opps' = Tail(opps)
        <4>1. i \in DOMAIN Tail(opps)
          BY <1>2, <3>2
        <4>2. i + 1 \in DOMAIN opps /\ Tail(opps)[i] = opps[i + 1]
          BY <1>1, <3>2, <4>1, TailFacts
        <4> QED  BY <3>2, <4>2
      <3> QED  BY <3>1, <3>2
    <2>2. Detected(opps'[i])
      BY <1>2, <2>1 DEF DetectInv
    <2> QED  BY <1>2, <2>2 DEF Detected
  <1>3. pc' = "idle" => opps' = <<>>
    OBVIOUS
  <1> QED  BY <1>2, <1>3 DEF DetectInv

\* A scan adds what it detects.
LEMMA DetectScan ==
    ASSUME TypeInv, DetectInv, ScanPair
    PROVE  DetectInv'
  <1> DEFINE p == Head(pairs)
             found == evaluatePair(p[1], p[2], views[p[1]], views[p[2]])
  <1>1. /\ opps' = IF p[1] = p[2] THEN opps ELSE opps \o found
        /\ UNCHANGED <<views, calm>> /\ pc' # "idle"
    BY DEF ScanPair, history
  <1>2. opps \in Seq(Pairings)
    BY DEF TypeInv
  <1>3. CASE opps' = opps
    BY <1>1, <1>3, DetectKept DEF DetectInv
  <1>4. CASE opps' = opps \o found /\ p[1] # p[2]
    <2>1. p[1] \in VenueSet /\ p[2] \in VenueSet
      <3>1. p \in VenueSet \X VenueSet
        BY TailFacts DEF TypeInv, ScanPair
      <3> QED  BY <3>1
    <2>2. found \in Seq(Pairings)
      <3>1. views[p[1]] \in BookViews /\ views[p[2]] \in BookViews
        <4> HIDE DEF p
        <4> QED  BY <2>1, ViewFacts DEF TypeInv
      <3> HIDE DEF p
      <3> QED  BY <1>4, <2>1, <3>1, EvaluateFacts
    <2>3. \A i \in DOMAIN found : Detected(found[i])
      <3>1. \/ found = <<>>
            \/ \E x : found = <<x>> /\ x.buyV = p[1] /\ x.sellV = p[2]
        <4> HIDE DEF p
        <4> QED  BY EvaluateDetects
      <3>2. CASE found = <<>>
        <4>1. DOMAIN <<>> = {}
          OBVIOUS
        <4> QED  BY <3>2, <4>1
      <3>3. ASSUME NEW x, found = <<x>>, x.buyV = p[1], x.sellV = p[2]
            PROVE  \A i \in DOMAIN found : Detected(found[i])
        <4>1. Detected(x)
          BY <3>3 DEF Detected
        <4> HIDE DEF found
        <4>2. DOMAIN <<x>> = {1} /\ <<x>>[1] = x
          OBVIOUS
        <4> QED  BY <3>3, <4>1, <4>2
      <3> QED  BY <3>1, <3>2, <3>3
    <2> HIDE DEF found
    <2>4. \A i \in DOMAIN opps' : \/ i \in DOMAIN opps /\ opps'[i] = opps[i]
                                  \/ \E j \in DOMAIN found : opps'[i] = found[j]
      <3>1. ASSUME NEW i \in DOMAIN (opps \o found)
            PROVE  \/ i \in DOMAIN opps /\ (opps \o found)[i] = opps[i]
                   \/ i - Len(opps) \in DOMAIN found /\ (opps \o found)[i] = found[i - Len(opps)]
        BY <1>2, <2>2
      <3> QED  BY <1>4, <3>1
    <2>5. ASSUME calm', NEW i \in DOMAIN opps' PROVE Detected(opps[i])'
      <3>1. Detected(opps'[i])
        BY <1>1, <2>3, <2>4, <2>5 DEF DetectInv
      <3> QED  BY <1>1, <3>1 DEF Detected
    <2> QED  BY <1>1, <2>5 DEF DetectInv
  <1> QED  BY <1>1, <1>3, <1>4

\* DetectInv is kept by every step.
LEMMA DetectStep ==
    ASSUME TypeInv, DetectInv, [Next]_vars
    PROVE  DetectInv'
  <1>1. CASE EvaluateOnce
    <2>1. opps' = <<>> /\ pc' = "scan"
      BY <1>1 DEF EvaluateOnce, DetectInv
    <2>2. DOMAIN <<>> = {}
      OBVIOUS
    <2> QED  BY <2>1, <2>2 DEF DetectInv
  <1>2. CASE ScanPair
    BY <1>2, DetectScan
  <1>3. CASE Others \/ UNCHANGED vars
    <2>1. UNCHANGED <<pc, opps>> /\ (calm' => calm /\ UNCHANGED views)
      BY <1>3 DEF Others, Publish, KillHandler, KillResetHandler, vars, history
    <2> QED  BY <2>1, DetectKept DEF DetectInv
  <1>4. CASE ScanDone \/ SubmitOrders \/ FillFirst \/ FillSecond \/ CloseOrders
    <2>1. UNCHANGED <<opps, calm, views>> /\ (pc' = "idle" => opps = <<>>)
      BY <1>4 DEF ScanDone, SubmitOrders, FillFirst, FillSecond, FillLeg, CloseOrders, history
    <2> QED  BY <2>1, DetectKept
  <1>5. CASE RiskCheckState \/ RiskCheckFresh \/ RiskCheckExposure \/ Settle
    <2>1. /\ UNCHANGED <<calm, views>> /\ opps # <<>> /\ pc' # "idle"
          /\ UNCHANGED opps \/ opps' = Tail(opps)
      BY <1>5 DEF RiskCheckState, RiskCheckFresh, RiskCheckExposure, Reject, Settle, history,
         TypeInv, TypeOK
    <2> QED  BY <2>1, DetectKept
  <1> QED  BY <1>1, <1>2, <1>3, <1>4, <1>5 DEF Next, Loop

\* A fill on views that have not changed fits.
LEMMA FitFill ==
    ASSUME TypeInv, DetectInv, calm, NEW side \in Sides, FillsNew(side)
    PROVE  FitsAt(side)'
  <1> DEFINE v      == VenueOf(side)
             view   == views[v]
             bps    == TakerBps[v]
             levels == SideOf(side)
             leg    == FillOf(side).leg
  <1>1. opps # <<>> /\ UNCHANGED <<views, opps>>
    BY DEF FillsNew
  <1>2. /\ view.bids \in Seq(Quotes) /\ view.asks \in Seq(Quotes) /\ bps \in Nat
    BY <1>1, VenueFacts
  <1>3. levels = Levels(NewOrder(side, "market", 0, TradeQty), view) /\ levels \in Seq(Quotes)
    BY <1>2 DEF SideOf, VenueOf, Levels, NewOrder, Sides
  <1>4. view.ready /\ vwapOf(levels, TradeQty).ok
    <2>1. o = opps[1] /\ 1 \in DOMAIN opps
      BY <1>1, TailFacts DEF TypeInv, TypeOK, o
    <2>2. Detected(o)
      BY <2>1 DEF DetectInv
    <2>3. DetectedFrom(o)
      <3> DEFINE x == o
      <3>1. Detected(x)
        BY <2>2
      <3> HIDE DEF x
      <3>2. DetectedFrom(x)
        BY <3>1, DetectedFacts
      <3> QED  BY <3>2 DEF x
    <2> QED  BY <2>3 DEF DetectedFrom, VenueOf, SideOf
  <1>5. side \in {"buy", "sell"} /\ TradeQty \in Nat \ {0}
    BY TradingAssumption DEF Sides
  <1>6. leg = FillAgainstBook(NewOrder(side, "market", 0, TradeQty), view, bps).leg
    BY DEF FillOf
  <1>7. legs'[side] = leg /\ SideOf(side)' = levels /\ VenueOf(side)' = v
    BY <1>1 DEF FillsNew, SideOf, VenueOf, o
  <1> HIDE DEF view, bps, levels, leg, v
  <1>8. Fits(leg, vwapOf(levels, TradeQty), Len(levels), TradeQty, bps)
    BY <1>2, <1>3, <1>4, <1>5, <1>6, DetectedFill
  <1> QED  BY <1>7, <1>8 DEF FitsAt, bps

\* A leg still fits when neither it nor the view has changed.
LEMMA FitKept ==
    ASSUME NEW side \in Sides, FitsAt(side), legs'[side] = legs[side], UNCHANGED <<views, opps>>
    PROVE  FitsAt(side)'
  <1>1. SideOf(side)' = SideOf(side) /\ VenueOf(side)' = VenueOf(side)
    BY DEF SideOf, VenueOf, o
  <1> QED  BY <1>1 DEF FitsAt

\* FitInv is kept by every step.
LEMMA FitStep ==
    ASSUME TypeInv, NewInv, DetectInv, FitInv, [Next]_vars
    PROVE  FitInv'
  <1>1. CASE FillFirst
    <2>1. FillsNew(FirstLeg) /\ pc' = "leg2" /\ UNCHANGED calm
      BY <1>1, FillSteps DEF FillFirst, FillsNew, history
    <2>2. calm => FitsAt(FirstLeg)'
      BY <2>1, FitFill, LegsOfTrade
    <2> QED  BY <2>1, <2>2 DEF FitInv, FirstLeg
  <1>2. CASE FillSecond
    <2>1. FillsNew(SecondLeg) /\ pc = "leg2" /\ pc' = "close" /\ UNCHANGED calm
      BY <1>2, FillSteps DEF FillSecond, FillsNew, history
    <2>2. calm => FitsAt(SecondLeg)'
      BY <2>1, FitFill, LegsOfTrade
    <2>3. calm => FitsAt(FirstLeg)'
      <3>1. legs'[FirstLeg] = legs[FirstLeg] /\ UNCHANGED <<views, opps>>
        BY <2>1, LegsOfTrade DEF FillsNew
      <3>2. calm => FitsAt(FirstLeg)
        BY <2>1 DEF FitInv
      <3> QED  BY <3>1, <3>2, FitKept, LegsOfTrade
    <2> QED  BY <2>1, <2>2, <2>3 DEF FitInv, FirstLeg, SecondLeg
  <1>3. CASE Others \/ CloseOrders \/ UNCHANGED vars
    <2>1. /\ UNCHANGED <<opps, legs>> /\ (calm' => calm /\ UNCHANGED views)
          /\ UNCHANGED pc \/ (pc = "close" /\ pc' = "settle")
      BY <1>3 DEF Others, Publish, KillHandler, KillResetHandler, CloseOrders, vars, history, trade
    <2>2. \A side \in Sides : calm' /\ FitsAt(side) => FitsAt(side)'
      BY <2>1, FitKept
    <2>3. /\ calm' /\ pc' \in {"leg2", "close", "settle"} => FitsAt(FirstLeg)'
          /\ calm' /\ pc' \in {"close", "settle"} => FitsAt(SecondLeg)'
      BY <2>1, <2>2, LegsOfTrade DEF FitInv
    <2> QED  BY <2>3 DEF FitInv, FirstLeg, SecondLeg
  <1>4. CASE \/ EvaluateOnce \/ ScanPair \/ ScanDone \/ SubmitOrders \/ Settle
             \/ RiskCheckState \/ RiskCheckFresh \/ RiskCheckExposure
    <2>1. pc' \notin {"leg2", "close", "settle"}
      BY <1>4 DEF EvaluateOnce, ScanPair, ScanDone, SubmitOrders, Settle, RiskCheckState,
         RiskCheckFresh, RiskCheckExposure, Reject
    <2> QED  BY <2>1 DEF FitInv
  <1> QED  BY <1>1, <1>2, <1>3, <1>4 DEF Next, Loop

\* Two legs that fit earn what was expected, but for the rounding.
LEMMA FittingTrade ==
    ASSUME NEW qty \in Nat \ {0}, NEW buy \in LegResults, NEW sell \in LegResults,
           NEW b, NEW s, NEW m, NEW n \in Nat, NEW buyBps \in Nat, NEW sellBps \in Nat,
           Fits(buy, b, m, qty, buyBps), Fits(sell, s, n, qty, sellBps),
           NEW slip \in Nat, NEW net,
           net = s.cost - b.cost - (MulBps(b.cost, buyBps) + MulBps(s.cost, sellBps)) - slip
    PROVE  RealizedPnL(buy, sell) + n * Loss(qty) >= net
  <1> DEFINE bought  == Mul(buy.vwap, qty)
             sold    == Mul(sell.vwap, qty)
             buyFee  == MulBps(b.cost, buyBps)
             sellFee == MulBps(s.cost, sellBps)
             lost    == n * Loss(qty)
             pnl     == RealizedPnL(buy, sell)
             c == b.cost
             d == s.cost
             e == buy.fee
             f == sell.fee
  <1>1. /\ buy.filled = qty /\ bought \in Nat /\ c \in Nat /\ e \in Nat
        /\ bought <= c /\ e <= buyFee
    BY DEF Fits
  <1>2. /\ sell.filled = qty /\ sold \in Nat /\ d \in Nat /\ f \in Nat
        /\ d <= sold + lost /\ f <= sellFee
    BY DEF Fits
  <1>3. buyFee \in Nat /\ sellFee \in Nat
    BY <1>1, <1>2, DecimalFacts
  <1>4. lost \in Nat
    <2>1. Loss(qty) \in Nat
      BY LossFacts
    <2> QED  BY <2>1
  <1>5. pnl = (sold - f) - (bought + e)
    <2>1. pnl = Proceeds(sell) - Cost(buy)
      BY <1>1, <1>2, PnLFacts
    <2> QED  BY <1>1, <1>2, <2>1 DEF Proceeds, Cost
  <1>6. net = d - c - (buyFee + sellFee) - slip
    OBVIOUS
  <1> HIDE DEF bought, sold, buyFee, sellFee, lost, pnl, c, d, e, f
  <1>7. pnl + lost >= net
    BY <1>1, <1>2, <1>3, <1>4, <1>5, <1>6
  <1> QED  BY <1>7 DEF pnl, lost

\* A leg that fits is as detected.
LEMMA FittingLeg ==
    ASSUME NEW leg, NEW levels \in Seq(Quotes), NEW feeBps,
           Fits(leg, vwapOf(levels, TradeQty), Len(levels), TradeQty, feeBps)
    PROVE  AsDetected(leg, vwapOf(levels, TradeQty).vwap, levels)
  <1> DEFINE v    == vwapOf(levels, TradeQty)
             a    == Mul(leg.vwap, TradeQty)
             b    == Mul(v.vwap, TradeQty)
             c    == v.cost
             lost == Len(levels) * RoundingLoss
  <1>1. /\ leg.filled = TradeQty /\ leg.vwap <= v.vwap
        /\ a \in Nat /\ b \in Nat /\ c \in Nat /\ b <= c
        /\ c <= a + Len(levels) * Loss(TradeQty)
    BY DEF Fits
  <1>2. lost = Len(levels) * Loss(TradeQty) /\ lost \in Nat
    <2>1. RoundingLoss = Loss(TradeQty) /\ Loss(TradeQty) \in Nat /\ Len(levels) \in Nat
      BY LossFacts, TradingAssumption DEF Loss, RoundingLoss
    <2> QED  BY <2>1
  <1> HIDE DEF a, b, c, v, lost
  <1>3. b <= a + lost
    BY <1>1, <1>2
  <1> QED  BY <1>1, <1>3 DEF AsDetected, a, b, v, lost

\* While no view changes, a trade fills at the prices it was detected at and
\* earns what was expected of it, less what rounding the average price takes
\* at each level: whatever the books, the fees and the size.
THEOREM CalmTradesAreAsDetected == Spec => []CalmTradeIsAsDetected
  <1>1. Init => DetectInv /\ FitInv
    <2>1. DOMAIN <<>> = {}
      OBVIOUS
    <2> QED  BY <2>1 DEF Init, DetectInv, FitInv
  <1>2. TypeInv /\ NewInv /\ DetectInv /\ FitInv /\ [Next]_vars => DetectInv' /\ FitInv'
    BY DetectStep, FitStep
  <1>3. TypeInv /\ DetectInv /\ FitInv => CalmTradeIsAsDetected
    <2> SUFFICES ASSUME TypeInv, DetectInv, FitInv, pc = "settle", calm
                 PROVE  /\ AsDetected(legs.buy, o.buyVWAP, views[o.buyV].asks)
                        /\ AsDetected(legs.sell, o.sellVWAP, views[o.sellV].bids)
                        /\ RealizedPnL(legs.buy, legs.sell)
                              + Len(views[o.sellV].bids) * RoundingLoss >= o.net
      BY DEF CalmTradeIsAsDetected
    <2> DEFINE asks == views[o.buyV].asks
               bids == views[o.sellV].bids
               b    == vwapOf(asks, TradeQty)
               s    == vwapOf(bids, TradeQty)
               buyBps  == TakerBps[o.buyV]
               sellBps == TakerBps[o.sellV]
    <2>1. opps # <<>>
      BY DEF TypeInv, TypeOK
    <2>2. /\ Fits(legs.buy, b, Len(asks), TradeQty, buyBps)
          /\ Fits(legs.sell, s, Len(bids), TradeQty, sellBps)
      <3>1. FitsAt("buy") /\ FitsAt("sell")
        BY DEF FitInv, FirstLeg, SecondLeg
      <3> QED  BY <3>1 DEF FitsAt, SideOf, VenueOf
    <2>3. /\ asks \in Seq(Quotes) /\ bids \in Seq(Quotes)
          /\ buyBps \in Nat /\ sellBps \in Nat
      <3>1. "buy" \in Sides /\ "sell" \in Sides
        BY DEF Sides
      <3> QED  BY <2>1, <3>1, VenueFacts DEF VenueOf
    <2>4. /\ o.buyVWAP = b.vwap /\ o.sellVWAP = s.vwap /\ o.net = Net(o.buyV, o.sellV, b, s)
      <3> DEFINE x == o
      <3>1. x = opps[1] /\ 1 \in DOMAIN opps
        BY <2>1, TailFacts DEF TypeInv, TypeOK, o
      <3>2. Detected(x)
        BY <3>1 DEF DetectInv
      <3> HIDE DEF x
      <3>3. DetectedFrom(x)
        BY <3>2, DetectedFacts
      <3> QED  BY <3>3 DEF DetectedFrom, x
    <2>5. legs.buy \in LegResults /\ legs.sell \in LegResults
      BY LegFacts
    <2>6. MulBps(b.cost, SlippageBps) \in Nat
      <3>1. b.cost \in Nat
        BY <2>2 DEF Fits
      <3> QED  BY <3>1, TradingAssumption, DecimalFacts
    <2>7. o.net = s.cost - b.cost - (MulBps(b.cost, buyBps) + MulBps(s.cost, sellBps))
                    - MulBps(b.cost, SlippageBps)
      BY <2>4 DEF Net
    <2> DEFINE n == Len(bids)
    <2>8. n \in Nat /\ TradeQty \in Nat \ {0}
      BY <2>3, TradingAssumption
    <2> HIDE DEF asks, bids, b, s, buyBps, sellBps
    <2>9. /\ AsDetected(legs.buy, b.vwap, asks) /\ AsDetected(legs.sell, s.vwap, bids)
      BY <2>2, <2>3, FittingLeg DEF b, s
    <2>10. RealizedPnL(legs.buy, legs.sell) + n * Loss(TradeQty) >= o.net
      <3> DEFINE slip == MulBps(b.cost, SlippageBps)
                 net  == o.net
      <3>1. slip \in Nat
        BY <2>6
      <3>2. net = s.cost - b.cost - (MulBps(b.cost, buyBps) + MulBps(s.cost, sellBps)) - slip
        BY <2>7
      <3> HIDE DEF slip, net
      <3>3. Fits(legs.sell, s, n, TradeQty, sellBps)
        BY <2>2
      <3> HIDE DEF n
      <3>4. RealizedPnL(legs.buy, legs.sell) + n * Loss(TradeQty) >= net
        BY <2>2, <2>3, <2>5, <2>8, <3>1, <3>2, <3>3, FittingTrade
      <3> QED  BY <3>4 DEF net
    <2> QED  BY <2>4, <2>9, <2>10 DEF asks, bids, Loss, RoundingLoss
  <1> QED  BY <1>1, <1>2, <1>3, AlwaysNew, PTL DEF Spec
=============================================================================
