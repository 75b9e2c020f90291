-------------------------- MODULE Execution_proofs --------------------------
(***************************************************************************)
(* What the fixed-point operations and the simulated fills return, for     *)
(* every order and every depth of book.                                    *)
(***************************************************************************)
EXTENDS Execution, SequenceFacts, InductionFacts

\* The rounded quotient is an integer, and a natural of naturals.
LEMMA MulDivFacts ==
    ASSUME NEW a \in Int, NEW b \in Int, NEW c \in Int, c # 0
    PROVE  /\ mulDiv(a, b, c) \in Int
           /\ a >= 0 /\ b >= 0 => mulDiv(a, b, c) \in Nat
  <1> DEFINE x == Abs(a) * Abs(b)
             y == Abs(c)
  <1>1. Abs(a) \in Nat /\ Abs(b) \in Nat /\ y \in Nat /\ y # 0
    BY DEF Abs
  <1>2. x \in Nat
    BY <1>1
  <1>3. mulDiv(a, b, c) = IF (a < 0) # (b < 0) THEN -(x \div y) ELSE x \div y
    BY DEF mulDiv
  <1> HIDE DEF x, y
  <1>4. x \div y \in Nat
    BY <1>1, <1>2
  <1> QED  BY <1>3, <1>4

\* The same for the operations built on it.
LEMMA DecimalFacts ==
    /\ \A a, b \in Int : Mul(a, b) \in Int
    /\ \A a, b \in Nat : Mul(a, b) \in Nat
    /\ \A a, b \in Int : b # 0 => Div(a, b) \in Int
    /\ \A a, b \in Nat : b # 0 => Div(a, b) \in Nat
    /\ \A a, b \in Nat : MulBps(a, b) \in Nat
  <1>1. Scale \in Int /\ Scale # 0 /\ Scale >= 0 /\ 10000 \in Int /\ 10000 # 0
    BY ScaleAssumption
  <1>2. ASSUME NEW a \in Int, NEW b \in Int
        PROVE  Mul(a, b) \in Int /\ (a >= 0 /\ b >= 0 => Mul(a, b) \in Nat)
    BY <1>1, MulDivFacts DEF Mul
  <1>3. ASSUME NEW a \in Int, NEW b \in Int, b # 0
        PROVE  Div(a, b) \in Int /\ (a >= 0 => Div(a, b) \in Nat)
    BY <1>1, <1>3, MulDivFacts DEF Div
  <1>4. ASSUME NEW a \in Nat, NEW b \in Nat PROVE MulBps(a, b) \in Nat
    BY <1>1, MulDivFacts DEF MulBps
  <1> QED  BY <1>2, <1>3, <1>4

-----------------------------------------------------------------------------
(* The quotient. *)

\* A natural quotient is the largest whose product with the divisor fits.
LEMMA QuotientFits ==
    ASSUME NEW x \in Nat, NEW y \in Nat, y # 0
    PROVE  x \div y \in Nat /\ (x \div y) * y <= x /\ x < ((x \div y) + 1) * y
  OBVIOUS

\* The magnitude of a product is the product of the magnitudes.
LEMMA AbsOfProduct ==
    ASSUME NEW a \in Int, NEW b \in Int
    PROVE  Abs(a * b) = Abs(a) * Abs(b)
  <1>1. CASE a >= 0 /\ b >= 0
    BY <1>1 DEF Abs
  <1>2. CASE a >= 0 /\ b < 0
    BY <1>2 DEF Abs
  <1>3. CASE a < 0 /\ b >= 0
    BY <1>3 DEF Abs
  <1>4. CASE a < 0 /\ b < 0
    BY <1>4 DEF Abs
  <1> QED  BY <1>1, <1>2, <1>3, <1>4

\* mulDiv rounds the exact quotient toward zero; with a positive divisor it is
\* on the exact quotient's side of zero, and a negative divisor is taken for
\* its magnitude.
THEOREM RoundsTowardZero ==
    ASSUME NEW a \in Int, NEW b \in Int, NEW c \in Int, c # 0
    PROVE  /\ Abs(mulDiv(a, b, c)) * Abs(c) <= Abs(a * b)
           /\ Abs(a * b) < (Abs(mulDiv(a, b, c)) + 1) * Abs(c)
           /\ mulDiv(a, b, c) > 0 => a * b > 0
           /\ mulDiv(a, b, c) < 0 => a * b < 0
           /\ mulDiv(a, b, -c) = mulDiv(a, b, c)
  <1> DEFINE x == Abs(a) * Abs(b)
             y == Abs(c)
             q == x \div y
  <1>1. x \in Nat /\ y \in Nat /\ y # 0 /\ Abs(-c) = y
    BY DEF Abs
  <1>2. x = Abs(a * b)
    BY AbsOfProduct
  <1>3. mulDiv(a, b, c) = IF (a < 0) # (b < 0) THEN -q ELSE q
    BY DEF mulDiv
  <1>4. mulDiv(a, b, -c) = mulDiv(a, b, c)
    BY <1>1 DEF mulDiv
  <1>5. x # 0 => /\ a # 0 /\ b # 0
                 /\ (a < 0) # (b < 0) => a * b < 0
                 /\ ~((a < 0) # (b < 0)) => a * b > 0
    BY DEF Abs
  <1> HIDE DEF x, y
  <1>6. q \in Nat /\ q * y <= x /\ x < (q + 1) * y
    BY <1>1, QuotientFits
  <1>7. x = 0 => q = 0
    BY <1>1
  <1> HIDE DEF q
  <1>8. Abs(mulDiv(a, b, c)) = q
    BY <1>3, <1>6 DEF Abs
  <1>9. mulDiv(a, b, c) # 0 => x # 0
    BY <1>3, <1>6, <1>7
  <1>10. mulDiv(a, b, c) > 0 => a * b > 0
    <2> SUFFICES ASSUME mulDiv(a, b, c) > 0 PROVE a * b > 0
      OBVIOUS
    <2>1. ~((a < 0) # (b < 0))
      BY <1>3, <1>6
    <2> QED  BY <1>5, <1>9, <2>1
  <1>11. mulDiv(a, b, c) < 0 => a * b < 0
    <2> SUFFICES ASSUME mulDiv(a, b, c) < 0 PROVE a * b < 0
      OBVIOUS
    <2>1. (a < 0) # (b < 0)
      BY <1>3, <1>6
    <2> QED  BY <1>5, <1>9, <2>1
  <1>12. Abs(mulDiv(a, b, c)) * y <= Abs(a * b) /\ Abs(a * b) < (Abs(mulDiv(a, b, c)) + 1) * y
    BY <1>2, <1>6, <1>8
  <1> QED  BY <1>4, <1>10, <1>11, <1>12 DEF y

-----------------------------------------------------------------------------
(* Orders. *)

\* A transition leaves everything but the state alone.
LEMMA TransitionFacts ==
    ASSUME NEW ord \in Orders, NEW to \in OrderStates
    PROVE  /\ Transition(ord, to).order \in Orders
           /\ Transition(ord, to).err \in BOOLEAN
           /\ Transition(ord, to).order.filled = ord.filled
           /\ Transition(ord, to).order.qty = ord.qty
  BY DEF Transition, Orders

\* Fill never books more than was ordered.
LEMMA FillFacts ==
    ASSUME NEW ord \in Orders, ord.filled <= ord.qty, NEW price \in Nat, NEW qty \in Nat
    PROVE  LET r == Fill(ord, price, qty)
           IN  /\ r.order \in Orders /\ r.err \in BOOLEAN
               /\ r.order.qty = ord.qty /\ r.order.filled <= r.order.qty
  <1> DEFINE filled == ord.filled + qty
             cost   == Mul(ord.avg, ord.filled) + Mul(price, qty)
             booked == [ord EXCEPT !.filled = filled, !.avg = Div(cost, filled)]
             open   == IF ord.state = "pending" THEN Transition(booked, "accepted").order ELSE booked
             to     == IF filled = ord.qty THEN "filled" ELSE "partially_filled"
  <1>1. CASE qty <= 0 \/ filled > ord.qty
    BY <1>1 DEF Fill
  <1>2. CASE ~(qty <= 0 \/ filled > ord.qty)
    <2>1. ord.filled \in Nat /\ ord.avg \in Nat /\ ord.qty \in Nat
      BY DEF Orders
    <2>2. filled \in Nat /\ filled # 0 /\ filled <= ord.qty
      BY <1>2, <2>1
    <2>3. cost \in Nat
      <3>1. Mul(ord.avg, ord.filled) \in Nat /\ Mul(price, qty) \in Nat
        BY <2>1, DecimalFacts
      <3> QED  BY <3>1
    <2> HIDE DEF filled, cost
    <2>4. Div(cost, filled) \in Nat
      BY <2>2, <2>3, DecimalFacts
    <2>5. booked \in Orders /\ booked.filled = filled /\ booked.qty = ord.qty
      BY <2>2, <2>4 DEF Orders
    <2> HIDE DEF booked
    <2>6. {"accepted", "filled", "partially_filled"} \subseteq OrderStates
      BY DEF OrderStates
    <2>7. open \in Orders /\ open.filled = filled /\ open.qty = ord.qty
      BY <2>5, <2>6, TransitionFacts
    <2> HIDE DEF open
    <2>8. to \in OrderStates
      BY <2>6
    <2>9. Fill(ord, price, qty) = Transition(open, to)
      BY <1>2 DEF Fill, open, booked, filled, cost
    <2> HIDE DEF to
    <2> QED  BY <2>2, <2>7, <2>8, <2>9, TransitionFacts
  <1> QED  BY <1>1, <1>2
-----------------------------------------------------------------------------
(* The walk over the levels. *)

\* The states of the walk of an order for qty of which left is still open.
Accs(qty, left) ==
    {acc \in [order : Orders, left : Nat, filled : Nat, cost : Nat, fee : Nat,
              done : BOOLEAN, err : BOOLEAN] :
        /\ acc.order.qty = qty /\ acc.order.filled <= acc.order.qty
        /\ acc.filled + acc.left = left}

\* One turn of the loop.
LEMMA TakeLevelFacts ==
    ASSUME NEW qty \in Nat, NEW left \in Nat, NEW acc \in Accs(qty, left),
           NEW level \in Quotes, NEW feeBps \in Nat
    PROVE  TakeLevel(acc, level, feeBps) \in Accs(qty, left)
  <1> DEFINE take == Lesser(level.qty, acc.left)
             r    == Fill(acc.order, level.price, take)
             value == Mul(level.price, take)
  <1>1. /\ acc \in [order : Orders, left : Nat, filled : Nat, cost : Nat, fee : Nat,
                    done : BOOLEAN, err : BOOLEAN]
        /\ acc.order.qty = qty /\ acc.order.filled <= acc.order.qty
        /\ acc.filled + acc.left = left
    BY DEF Accs
  <1>2. /\ acc.left \in Nat /\ acc.filled \in Nat /\ acc.cost \in Nat /\ acc.fee \in Nat
        /\ acc.order \in Orders /\ level.price \in Nat /\ level.qty \in Nat
    BY <1>1 DEF Quotes
  <1>3. take \in Nat /\ take <= acc.left
    BY <1>2 DEF Lesser
  <1> HIDE DEF take
  <1>4. /\ r.order \in Orders /\ r.err \in BOOLEAN
        /\ r.order.qty = qty /\ r.order.filled <= r.order.qty
    <2>1. acc.order \in Orders /\ acc.order.filled <= acc.order.qty /\ level.price \in Nat
      BY <1>1, <1>2
    <2> QED  BY <1>1, <1>3, <2>1, FillFacts
  <1>5. value \in Nat /\ MulBps(value, feeBps) \in Nat
    <2>1. value \in Nat
      BY <1>2, <1>3, DecimalFacts
    <2> HIDE DEF value
    <2> QED  BY <2>1, DecimalFacts
  <1> HIDE DEF r, value
  <1>6. CASE TakeLevel(acc, level, feeBps) = [acc EXCEPT !.done = TRUE]
    BY <1>1, <1>6 DEF Accs
  <1>7. CASE TakeLevel(acc, level, feeBps) =
               [acc EXCEPT !.order = r.order, !.err = r.err,
                           !.left = @ - take, !.filled = @ + take,
                           !.cost = @ + value, !.fee = @ + MulBps(value, feeBps)]
    <2> DEFINE b == TakeLevel(acc, level, feeBps)
    <2>1. /\ acc.left - take \in Nat /\ acc.filled + take \in Nat
          /\ acc.cost + value \in Nat /\ acc.fee + MulBps(value, feeBps) \in Nat
          /\ (acc.filled + take) + (acc.left - take) = left
      BY <1>1, <1>2, <1>3, <1>5
    <2>2. /\ b.order = r.order /\ b.left = acc.left - take /\ b.filled = acc.filled + take
          /\ b \in [order : Orders, left : Nat, filled : Nat, cost : Nat, fee : Nat,
                    done : BOOLEAN, err : BOOLEAN]
      BY <1>1, <1>4, <1>7, <2>1
    <2> HIDE DEF b
    <2> QED  BY <1>4, <2>1, <2>2 DEF Accs, b
  <1> QED  BY <1>6, <1>7 DEF TakeLevel, take, r, value

\* Where the walk starts.
FillStart(ord) ==
    [order |-> ord, left |-> ord.qty - ord.filled, filled |-> 0, cost |-> 0,
     fee |-> 0, done |-> FALSE, err |-> FALSE]

\* What holds of the start of the walk, and of each turn if it held of the one
\* before, holds of its end.  What holds may depend on the turn.
LEMMA FillInduction ==
    ASSUME NEW ord \in Orders, ord.filled <= ord.qty,
           NEW levels \in Seq(Quotes), NEW feeBps \in Nat,
           NEW good, FillStart(ord) \in good[0],
           \A i \in 1..Len(levels) : \A acc \in good[i - 1] :
               TakeLevel(acc, levels[i], feeBps) \in good[i]
    PROVE  TakeLevels(ord, levels, feeBps) \in good[Len(levels)]
  <1> DEFINE n == Len(levels)
             left == ord.qty - ord.filled
             start == FillStart(ord)
             Walk(f) == [i \in 0..n |->
                            IF i = 0 THEN start ELSE TakeLevel(f[i - 1], levels[i], feeBps)]
             after == CHOOSE f : f = Walk(f)
             A == Accs(ord.qty, left)
             step == [i \in 1..n |-> [acc \in A |-> TakeLevel(acc, levels[i], feeBps)]]
  <1>1. TakeLevels(ord, levels, feeBps) = after[n]
    BY DEF TakeLevels, FillStart
  <1>2. n \in Nat /\ \A i \in 1..n : levels[i] \in Quotes
    BY ElementFacts
  <1>3. left \in Nat /\ ord.qty \in Nat
    BY DEF Orders
  <1>4. start \in A
    BY <1>3 DEF Accs, FillStart
  <1>5. \A i \in 1..n : \A acc \in A : TakeLevel(acc, levels[i], feeBps) \in A
    BY <1>2, <1>3, TakeLevelFacts
  <1>6. /\ start \in good[0]
        /\ \A i \in 1..n : \A acc \in good[i - 1] : TakeLevel(acc, levels[i], feeBps) \in good[i]
    OBVIOUS
  <1> HIDE DEF n, left, start, A
  <1>7. step \in Steps(n, A)
    BY <1>5 DEF Steps
  <1>8. PICK f \in [0..n -> A] : f[0] = start /\ \A i \in 1..n : f[i] = step[i][f[i - 1]]
    <2> HIDE DEF step
    <2>1. HasWalk(n, A, start, step)
      BY <1>2, <1>4, <1>7, WalkExists
    <2> QED  BY <2>1 DEF HasWalk
  <1>9. f = Walk(f)
    <2>1. ASSUME NEW i \in 1..n PROVE f[i] = TakeLevel(f[i - 1], levels[i], feeBps)
      <3>1. i - 1 \in 0..n
        BY <1>2
      <3>2. f[i - 1] \in A /\ f[i] = step[i][f[i - 1]]
        BY <1>8, <3>1
      <3> QED  BY <3>2
    <2>2. \A i \in 0..n : i = 0 \/ i \in 1..n
      BY <1>2
    <2> QED  BY <1>8, <2>1, <2>2
  <1>10. after = Walk(after)
    <2> HIDE DEF Walk
    <2> QED  BY <1>9
  <1>11. after[0] = start /\ \A i \in 1..n : after[i] = TakeLevel(after[i - 1], levels[i], feeBps)
    <2>1. 0 \in 0..n /\ \A i \in 1..n : i \in 0..n /\ i # 0
      BY <1>2
    <2> HIDE DEF after
    <2> QED  BY <1>10, <2>1
  <1> HIDE DEF after
  <1> DEFINE S == {i \in 0..n : after[i] \in good[i]}
  <1>12. 0 \in S
    BY <1>2, <1>6, <1>11
  <1>13. ASSUME NEW i \in 1..n, i - 1 \in S PROVE i \in S
    BY <1>2, <1>6, <1>11, <1>13
  <1>14. n \in S
    <2>1. n \in Nat /\ n \in 0..n
      BY <1>2
    <2> HIDE DEF S
    <2>2. 0..n \subseteq S
      BY <1>12, <1>13, <2>1, Induction
    <2> QED  BY <2>1, <2>2
  <1> QED  BY <1>1, <1>14 DEF n

\* The whole walk.
LEMMA TakeLevelsFacts ==
    ASSUME NEW ord \in Orders, ord.filled <= ord.qty,
           NEW levels \in Seq(Quotes), NEW feeBps \in Nat
    PROVE  TakeLevels(ord, levels, feeBps) \in Accs(ord.qty, ord.qty - ord.filled)
  <1> DEFINE n == Len(levels)
             A == Accs(ord.qty, ord.qty - ord.filled)
             good == [i \in 0..n |-> A]
  <1>1. n \in Nat /\ \A i \in 1..n : levels[i] \in Quotes
    BY ElementFacts
  <1>2. ord.qty - ord.filled \in Nat /\ ord.qty \in Nat
    BY DEF Orders
  <1>3. FillStart(ord) \in A
    BY <1>2 DEF Accs, FillStart
  <1>4. \A i \in 1..n : \A acc \in A : TakeLevel(acc, levels[i], feeBps) \in A
    BY <1>1, <1>2, TakeLevelFacts
  <1> HIDE DEF A
  <1>5. /\ good[0] = A /\ good[n] = A
        /\ \A i \in 1..n : good[i - 1] = A /\ good[i] = A
    BY <1>1
  <1>6. \A i \in 1..n : \A acc \in good[i - 1] : TakeLevel(acc, levels[i], feeBps) \in good[i]
    BY <1>4, <1>5
  <1>7. FillStart(ord) \in good[0]
    BY <1>3, <1>5
  <1> HIDE DEF good
  <1>8. TakeLevels(ord, levels, feeBps) \in good[n]
    BY <1>6, <1>7, FillInduction
  <1> QED  BY <1>5, <1>8 DEF A

\* FillAgainstBook reports an order and a leg, and no more than was open.
LEMMA FillAgainstBookFacts ==
    ASSUME NEW ord \in Orders, ord.filled <= ord.qty, NEW view, NEW feeBps \in Nat,
           view.bids \in Seq(Quotes),
           view.asks \in Seq(Quotes)
    PROVE  LET r == FillAgainstBook(ord, view, feeBps)
           IN  /\ r.order \in Orders /\ r.order.filled <= r.order.qty /\ r.order.qty = ord.qty
               /\ r.leg \in LegResults /\ r.leg.filled <= ord.qty
  <1> DEFINE rejected == Transition(ord, "rejected")
             acc      == TakeLevels(ord, Levels(ord, view), feeBps)
             final    == IF ord.type = "ioc_limit" /\ acc.order.state = "partially_filled"
                         THEN Transition(acc.order, "cancelled").order ELSE acc.order
             leg      == [filled |-> acc.filled, vwap |-> final.avg,
                          cost |-> acc.cost, fee |-> acc.fee]
             r        == FillAgainstBook(ord, view, feeBps)
  <1>0. ord.qty \in Nat /\ ord.filled \in Nat /\ {"rejected", "cancelled"} \subseteq OrderStates
    BY DEF Orders, OrderStates
  <1>1. /\ rejected.order \in Orders /\ rejected.order.filled <= rejected.order.qty
        /\ rejected.order.qty = ord.qty
    BY <1>0, TransitionFacts
  <1>2. acc \in Accs(ord.qty, ord.qty - ord.filled)
    BY TakeLevelsFacts DEF Levels
  <1> HIDE DEF acc
  <1>3. /\ acc.order \in Orders /\ acc.order.filled <= acc.order.qty /\ acc.order.qty = ord.qty
        /\ acc.filled \in Nat /\ acc.left \in Nat /\ acc.cost \in Nat /\ acc.fee \in Nat
        /\ acc.filled + acc.left = ord.qty - ord.filled
    BY <1>2 DEF Accs
  <1>4. final \in Orders /\ final.filled <= final.qty /\ final.qty = ord.qty
    BY <1>0, <1>3, TransitionFacts
  <1> HIDE DEF final, rejected
  <1>5. leg \in LegResults /\ leg.filled <= ord.qty
    <2>1. final.avg \in Nat
      BY <1>4 DEF Orders
    <2>2. acc.filled <= ord.qty
      BY <1>0, <1>3
    <2> QED  BY <1>3, <2>1, <2>2 DEF LegResults
  <1>6. NoLeg \in LegResults /\ NoLeg.filled <= ord.qty
    BY <1>0 DEF NoLeg, LegResults
  <1>7. \/ r.order = rejected.order /\ r.leg = NoLeg
        \/ r.order = acc.order /\ r.leg = NoLeg
        \/ r.order = final /\ r.leg = leg
    BY DEF FillAgainstBook, final, acc, rejected
  <1> HIDE DEF r, leg
  <1> QED  BY <1>1, <1>3, <1>4, <1>5, <1>6, <1>7 DEF r

-----------------------------------------------------------------------------
(* Rounding. *)

\* The quotient is the last one whose product does not exceed x.
LEMMA QuotientFacts ==
    ASSUME NEW x \in Nat, NEW y \in Nat \ {0}
    PROVE  /\ x \div y \in Nat
           /\ \A k \in Nat : y * k <= x <=> k <= x \div y
  <1> DEFINE q == x \div y
  <1>1. q \in Nat /\ y * q <= x /\ x < y * (q + 1)
    OBVIOUS
  <1> HIDE DEF q
  <1>2. ASSUME NEW k \in Nat, k <= q PROVE y * k <= x
    <2>1. y * k <= y * q /\ y * k \in Nat /\ y * q \in Nat
      BY <1>1, <1>2
    <2> QED  BY <1>1, <2>1
  <1>3. ASSUME NEW k \in Nat, k >= q + 1 PROVE ~(y * k <= x)
    <2>1. y * k >= y * (q + 1) /\ y * k \in Nat /\ y * (q + 1) \in Nat
      BY <1>1, <1>3
    <2> QED  BY <1>1, <2>1
  <1>4. \A k \in Nat : k <= q \/ k >= q + 1
    BY <1>1
  <1>5. \A k \in Nat : y * k <= x <=> k <= q
    BY <1>2, <1>3, <1>4
  <1> QED  BY <1>1, <1>5 DEF q

\* The operations on naturals are such quotients.
LEMMA RoundedFacts ==
    /\ \A a, b \in Nat : a * b \in Nat /\ Mul(a, b) = (a * b) \div Scale
    /\ \A a, b \in Nat : b # 0 => a * Scale \in Nat /\ Div(a, b) = (a * Scale) \div b
    /\ \A a, b \in Nat : a * b \in Nat /\ MulBps(a, b) = (a * b) \div 10000
  <1>1. ASSUME NEW a \in Nat, NEW b \in Nat, NEW c \in Nat \ {0}
        PROVE  a * b \in Nat /\ mulDiv(a, b, c) = (a * b) \div c
    BY DEF mulDiv, Abs
  <1>2. Scale \in Nat \ {0} /\ Scale \in Nat /\ 10000 \in Nat \ {0}
    BY ScaleAssumption
  <1> QED  BY <1>1, <1>2 DEF Mul, Div, MulBps

\* Mul grows with both arguments.
LEMMA MulMonotone ==
    ASSUME NEW a \in Nat, NEW b \in Nat, NEW m \in Nat, NEW n \in Nat, a <= b, m <= n
    PROVE  Mul(a, m) <= Mul(b, n)
  <1> DEFINE x == a * m
             y == b * n
             q == x \div Scale
             r == y \div Scale
  <1>1. Mul(a, m) = q /\ Mul(b, n) = r
    BY ScaleAssumption DEF Mul, mulDiv, Abs
  <1>2. x \in Nat /\ y \in Nat /\ x <= y
    <2>1. a * m <= b * m
      OBVIOUS
    <2>2. b * m <= b * n
      OBVIOUS
    <2>3. a * m \in Nat /\ b * m \in Nat /\ b * n \in Nat
      OBVIOUS
    <2> QED  BY <2>1, <2>2, <2>3
  <1> HIDE DEF x, y
  <1>3. q \in Nat /\ r \in Nat /\ Scale * q <= x /\ y < Scale * (r + 1)
    BY <1>2, ScaleAssumption
  <1> HIDE DEF q, r
  <1>4. q <= r
    <2> SUFFICES ASSUME q >= r + 1 PROVE FALSE
      BY <1>3
    <2>1. Scale * q >= Scale * (r + 1)
      BY <1>3, ScaleAssumption
    <2>2. Scale * q \in Int /\ Scale * (r + 1) \in Int
      BY <1>3, ScaleAssumption
    <2> QED  BY <1>2, <1>3, <2>1, <2>2
  <1> QED  BY <1>1, <1>4

\* Fees taken fill by fill are no more than the fee on the whole.
LEMMA FeesAddUp ==
    ASSUME NEW a \in Nat, NEW b \in Nat, NEW bps \in Nat
    PROVE  MulBps(a, bps) + MulBps(b, bps) <= MulBps(a + b, bps)
  <1> DEFINE x == a * bps
             y == b * bps
             z == (a + b) * bps
             p == x \div 10000
             q == y \div 10000
             r == z \div 10000
  <1>1. x \in Nat /\ y \in Nat /\ z \in Nat /\ z = x + y
    OBVIOUS
  <1>2. MulBps(a, bps) = p /\ MulBps(b, bps) = q
    BY RoundedFacts
  <1>3. MulBps(a + b, bps) = r
    <2>1. a + b \in Nat
      OBVIOUS
    <2> QED  BY <2>1, RoundedFacts
  <1> HIDE DEF x, y, z
  <1>4. p \in Nat /\ q \in Nat /\ 10000 * p <= x /\ 10000 * q <= y
    BY <1>1, QuotientFacts
  <1>5. \A k \in Nat : 10000 * k <= z => k <= r
    BY <1>1, QuotientFacts
  <1> HIDE DEF p, q, r
  <1>6. p + q \in Nat /\ 10000 * (p + q) <= z
    BY <1>1, <1>4
  <1> QED  BY <1>2, <1>3, <1>5, <1>6

\* A fee grows with what it is charged on.
LEMMA FeesGrow ==
    ASSUME NEW a \in Nat, NEW b \in Nat, NEW bps \in Nat, a <= b
    PROVE  MulBps(a, bps) <= MulBps(b, bps)
  <1> DEFINE d == b - a
  <1>1. d \in Nat /\ a + d = b
    OBVIOUS
  <1> HIDE DEF d
  <1>2. MulBps(a, bps) + MulBps(d, bps) <= MulBps(b, bps)
    BY <1>1, FeesAddUp
  <1>3. MulBps(a, bps) \in Nat /\ MulBps(d, bps) \in Nat /\ MulBps(b, bps) \in Nat
    BY <1>1, DecimalFacts
  <1> QED  BY <1>2, <1>3

\* The average price of a quantity grows with what it costs.
LEMMA AveragesGrow ==
    ASSUME NEW a \in Nat, NEW b \in Nat, NEW c \in Nat \ {0}, a <= b
    PROVE  Div(a, c) <= Div(b, c)
  <1> DEFINE x == a * Scale
             y == b * Scale
             q == x \div c
             r == y \div c
  <1>1. x \in Nat /\ y \in Nat /\ x <= y
    BY ScaleAssumption
  <1>2. Div(a, c) = q /\ Div(b, c) = r
    BY RoundedFacts
  <1> HIDE DEF x, y
  <1>3. q \in Nat /\ c * q <= x
    BY <1>1, QuotientFacts
  <1>4. \A k \in Nat : c * k <= y => k <= r
    BY <1>1, QuotientFacts
  <1> HIDE DEF q, r
  <1>5. c * q <= y
    BY <1>1, <1>3
  <1> QED  BY <1>2, <1>3, <1>4, <1>5

\* A cost divided by the quantity it is for and multiplied by it again: what
\* the running average price loses.
LEMMA AverageLoss ==
    ASSUME NEW cost \in Nat, NEW filled \in Nat \ {0}, NEW qty \in Nat, filled <= qty
    PROVE  LET value == Mul(Div(cost, filled), filled)
           IN  /\ value \in Nat /\ value <= cost
               /\ (qty + Scale - 2) \div Scale \in Nat
               /\ cost <= value + (qty + Scale - 2) \div Scale
  <1> DEFINE x     == cost * Scale
             avg   == Div(cost, filled)
             y     == avg * filled
             value == Mul(avg, filled)
             z     == qty + Scale - 2
             loss  == z \div Scale
  <1>1. Scale \in Nat \ {0} /\ Scale \in Nat /\ filled \in Nat /\ filled # 0
    BY ScaleAssumption
  <1>2. x \in Nat /\ avg = x \div filled
    BY <1>1, RoundedFacts
  <1>3. avg \in Nat /\ \A k \in Nat : filled * k <= x <=> k <= avg
    BY <1>2, QuotientFacts
  <1>4. x = cost * Scale
    OBVIOUS
  <1> HIDE DEF x, avg
  <1>5. y \in Nat /\ value = y \div Scale
    BY <1>1, <1>3, RoundedFacts
  <1>6. y <= x /\ x < y + filled
    <2>1. filled * avg <= x
      BY <1>3
    <2>2. ~(filled * (avg + 1) <= x)
      <3>1. avg + 1 \in Nat /\ ~(avg + 1 <= avg)
        BY <1>3
      <3> QED  BY <1>3, <3>1
    <2>3. filled * avg = y /\ filled * (avg + 1) = y + filled
      BY <1>1, <1>3
    <2> QED  BY <1>1, <1>2, <1>5, <2>1, <2>2, <2>3
  <1> HIDE DEF y
  <1>7. value \in Nat /\ \A k \in Nat : Scale * k <= y <=> k <= value
    BY <1>1, <1>5, QuotientFacts
  <1> HIDE DEF value
  <1>8. Scale * value <= y /\ y < Scale * value + Scale
    <2>1. ~(Scale * (value + 1) <= y)
      <3>1. value + 1 \in Nat /\ ~(value + 1 <= value)
        BY <1>7
      <3> QED  BY <1>7, <3>1
    <2>2. Scale * (value + 1) = Scale * value + Scale /\ Scale * value \in Nat
      BY <1>1, <1>7
    <2> QED  BY <1>1, <1>5, <1>7, <2>1, <2>2
  <1>9. z \in Nat
    BY <1>1
  <1>10. loss \in Nat /\ \A k \in Nat : Scale * k <= z <=> k <= loss
    BY <1>1, <1>9, QuotientFacts
  <1>11. value <= cost
    <2> SUFFICES ASSUME value >= cost + 1 PROVE FALSE
      BY <1>7
    <2>1. Scale * value >= Scale * (cost + 1)
      BY <1>1, <1>7
    <2>2. Scale * (cost + 1) = x + Scale /\ Scale * value \in Nat
      BY <1>1, <1>4, <1>7
    <2> QED  BY <1>1, <1>2, <1>5, <1>6, <1>8, <2>1, <2>2
  <1>12. cost <= value + loss
    <2> DEFINE k == cost - value
    <2>1. k \in Nat
      BY <1>7, <1>11
    <2>2. Scale * k = x - Scale * value /\ Scale * value \in Nat
      BY <1>1, <1>4, <1>7
    <2> HIDE DEF k
    <2>3. Scale * k <= z
      <3> DEFINE v == Scale * value
                 sk == Scale * k
      <3>1. v \in Nat /\ sk = x - v /\ v <= y /\ y < v + Scale /\ x < y + filled
        BY <1>6, <1>8, <2>2
      <3> HIDE DEF v, sk
      <3>2. sk <= Scale + filled - 2
        BY <1>1, <1>2, <1>5, <3>1
      <3>3. sk <= z
        BY <1>1, <1>2, <3>1, <3>2
      <3> QED  BY <3>3 DEF sk
    <2>4. k <= loss
      BY <1>10, <2>1, <2>3
    <2> HIDE DEF loss
    <2> QED  BY <1>7, <1>10, <2>1, <2>4 DEF k
  <1> QED  BY <1>7, <1>10, <1>11, <1>12 DEF value, avg

-----------------------------------------------------------------------------
(* The walk of a new market order: it meets no error and breaks off only   *)
(* when nothing is left, so that the leg is told of every fill.            *)

StateOf(ord) ==
    IF ord.filled = 0 THEN "pending"
    ELSE IF ord.filled = ord.qty THEN "filled" ELSE "partially_filled"

MarketOrders == {ord \in Orders : /\ ord.type = "market" /\ ord.filled <= ord.qty
                                  /\ ord.state = StateOf(ord)}

\* A legal fill of a market order raises no error and leaves the state that
\* says how much of it is filled.
LEMMA MarketFill ==
    ASSUME NEW ord \in MarketOrders, NEW price \in Nat, NEW take \in Nat \ {0},
           ord.filled + take <= ord.qty
    PROVE  LET r == Fill(ord, price, take)
           IN  /\ r.order \in MarketOrders /\ r.err = FALSE
               /\ r.order.qty = ord.qty /\ r.order.filled = ord.filled + take
               /\ r.order.avg = Div(Mul(ord.avg, ord.filled) + Mul(price, take), ord.filled + take)
  <1> DEFINE filled == ord.filled + take
             cost   == Mul(ord.avg, ord.filled) + Mul(price, take)
             avg    == Div(cost, filled)
             booked == [ord EXCEPT !.filled = filled, !.avg = avg]
             open   == IF ord.state = "pending" THEN Transition(booked, "accepted").order ELSE booked
             to     == IF filled = ord.qty THEN "filled" ELSE "partially_filled"
             r      == Fill(ord, price, take)
  <1>1. /\ ord \in Orders /\ ord.type = "market" /\ ord.state = StateOf(ord)
        /\ ord.filled \in Nat /\ ord.avg \in Nat /\ ord.qty \in Nat
    BY DEF MarketOrders, Orders
  <1>2. filled \in Nat /\ filled # 0 /\ ord.filled # ord.qty /\ filled <= ord.qty /\ ~(take <= 0)
    BY <1>1
  <1>3. avg \in Nat
    <2>1. Mul(ord.avg, ord.filled) \in Nat /\ Mul(price, take) \in Nat
      BY <1>1, DecimalFacts
    <2>2. cost \in Nat
      BY <2>1
    <2> HIDE DEF cost, filled
    <2> QED  BY <1>2, <2>2, DecimalFacts
  <1>4. r = Transition(open, to)
    <2>1. ~(take <= 0 \/ filled > ord.qty)
      BY <1>1, <1>2
    <2> QED  BY <2>1 DEF Fill
  <1> HIDE DEF filled, avg, r
  <1>5. /\ booked \in Orders /\ booked.filled = filled /\ booked.avg = avg
        /\ booked.qty = ord.qty /\ booked.type = "market" /\ booked.state = ord.state
    BY <1>1, <1>2, <1>3 DEF Orders
  <1> HIDE DEF booked
  <1>6. ord.state \in {"pending", "partially_filled"}
    BY <1>1, <1>2 DEF StateOf
  <1>7. /\ open \in Orders /\ open.filled = filled /\ open.avg = avg
        /\ open.qty = ord.qty /\ open.type = "market"
        /\ open.state \in {"accepted", "partially_filled"}
    BY <1>5, <1>6 DEF Transition, CanTransition, validTransitions, OrderStates, Orders
  <1> HIDE DEF open
  <1>8. CanTransition(open.state, to) /\ to \in OrderStates
    BY <1>7 DEF CanTransition, validTransitions, OrderStates
  <1>9. r.order = [open EXCEPT !.state = to] /\ r.err = FALSE
    BY <1>4, <1>8 DEF Transition
  <1>10. /\ r.order \in Orders /\ r.order.filled = filled /\ r.order.avg = avg
         /\ r.order.qty = ord.qty /\ r.order.type = "market" /\ r.order.state = to
    BY <1>7, <1>8, <1>9 DEF Orders
  <1>11. r.order.state = StateOf(r.order)
    BY <1>2, <1>10 DEF StateOf
  <1> QED  BY <1>2, <1>9, <1>10, <1>11 DEF MarketOrders, r, filled, avg

\* The states of the walk of a new market order for qty.
NewAccs(qty) ==
    {acc \in Accs(qty, qty) : /\ acc.order \in MarketOrders /\ acc.err = FALSE
                              /\ acc.order.filled = acc.filled
                              /\ acc.done => acc.left = 0}

\* What the order is worth at its average price.
Booked(acc) == Mul(acc.order.avg, acc.order.filled)

Loss(qty) == (qty + Scale - 2) \div Scale

\* What one turn moves.
Takes(qty, acc, b, level, feeBps) ==
    LET take  == Lesser(level.qty, acc.left)
        value == Mul(level.price, take)
    IN  /\ b \in NewAccs(qty)
        /\ take \in Nat /\ (take = 0 <=> acc.left = 0) /\ value \in Nat /\ MulBps(value, feeBps) \in Nat
        /\ b.left = acc.left - take /\ b.filled = acc.filled + take
        /\ b.cost = acc.cost + value /\ b.fee = acc.fee + MulBps(value, feeBps)
        /\ Booked(acc) \in Nat /\ Booked(b) \in Nat /\ Booked(b) <= Booked(acc) + value
        /\ take = 0 => value = 0 /\ MulBps(value, feeBps) = 0 /\ Booked(b) = Booked(acc)
        /\ take = 0 => b.order = acc.order
        /\ take # 0 => b.order.avg = Div(Booked(acc) + value, b.filled)
        /\ Booked(acc) + value <= Booked(b) + Loss(qty)

\* One turn of the loop over the levels, for a new order.
LEMMA TakeNewFacts ==
    ASSUME NEW qty \in Nat \ {0}, NEW acc \in NewAccs(qty), NEW level \in Quotes, NEW feeBps \in Nat
    PROVE  Takes(qty, acc, TakeLevel(acc, level, feeBps), level, feeBps)
  <1> DEFINE take  == Lesser(level.qty, acc.left)
             value == Mul(level.price, take)
             r     == Fill(acc.order, level.price, take)
             b     == TakeLevel(acc, level, feeBps)
  <1>1. /\ acc \in Accs(qty, qty) /\ acc.order \in MarketOrders /\ acc.err = FALSE
        /\ acc.order.filled = acc.filled /\ (acc.done => acc.left = 0)
    BY DEF NewAccs
  <1>2. /\ acc \in [order : Orders, left : Nat, filled : Nat, cost : Nat, fee : Nat,
                    done : BOOLEAN, err : BOOLEAN]
        /\ acc.order.qty = qty /\ acc.filled + acc.left = qty
    BY <1>1 DEF Accs
  <1>3. /\ acc.left \in Nat /\ acc.filled \in Nat /\ acc.cost \in Nat /\ acc.fee \in Nat
        /\ acc.order.avg \in Nat /\ acc.order.filled \in Nat
        /\ level.price \in Nat /\ level.qty \in Nat /\ level.qty # 0
    BY <1>1, <1>2 DEF Quotes, Orders
  <1>4. take \in Nat /\ (take = 0 <=> acc.left = 0) /\ take <= acc.left
    BY <1>3 DEF Lesser
  <1>5. b \in Accs(qty, qty)
    BY <1>1, TakeLevelFacts
  <1>6. ~BeyondLimit(acc.order, level.price)
    BY <1>1 DEF BeyondLimit, MarketOrders
  <1> HIDE DEF take
  <1>7. value \in Nat /\ MulBps(value, feeBps) \in Nat
    <2>1. value \in Nat
      BY <1>3, <1>4, DecimalFacts
    <2> HIDE DEF value
    <2> QED  BY <2>1, DecimalFacts
  <1>8. Booked(acc) \in Nat /\ Booked(acc) = Mul(acc.order.avg, acc.order.filled)
    BY <1>3, DecimalFacts DEF Booked
  <1>9. CASE acc.left = 0
    <2>1. b = [acc EXCEPT !.done = TRUE]
      BY <1>9 DEF TakeLevel
    <2>2. /\ b.order = acc.order /\ b.left = acc.left /\ b.filled = acc.filled /\ b.cost = acc.cost
          /\ b.fee = acc.fee /\ b.err = FALSE
      BY <1>1, <1>2, <2>1
    <2>3. value = 0
      <3>1. take = 0
        BY <1>4, <1>9
      <3>2. 0 \in Nat /\ level.price * 0 = 0
        BY <1>3
      <3>3. Mul(level.price, 0) = 0 \div Scale
        BY <1>3, <3>2, RoundedFacts
      <3> QED  BY <3>1, <3>3, ScaleAssumption
    <2>4. MulBps(value, feeBps) = 0
      <3>1. MulBps(0, feeBps) = (0 * feeBps) \div 10000
        BY RoundedFacts
      <3>2. 0 * feeBps = 0 /\ 0 \div 10000 = 0
        OBVIOUS
      <3> QED  BY <2>3, <3>1, <3>2
    <2> HIDE DEF b, value
    <2>5. b \in NewAccs(qty)
      BY <1>1, <1>5, <1>9, <2>2 DEF NewAccs
    <2>6. Booked(b) = Booked(acc)
      BY <2>2 DEF Booked
    <2>7. Loss(qty) \in Nat
      <3>1. qty + Scale - 2 \in Nat /\ Scale \in Nat \ {0}
        BY ScaleAssumption
      <3> QED  BY <3>1, QuotientFacts DEF Loss
    <2>8. take = 0
      BY <1>4, <1>9
    <2>9. /\ b.left = acc.left - take /\ b.filled = acc.filled + take
          /\ b.cost = acc.cost + value /\ b.fee = acc.fee + MulBps(value, feeBps)
      BY <1>3, <2>2, <2>3, <2>4, <2>8
    <2>10. Booked(b) <= Booked(acc) + value /\ Booked(acc) + value <= Booked(b) + Loss(qty)
      BY <1>8, <2>3, <2>6, <2>7
    <2> QED  BY <1>4, <1>7, <1>8, <1>9, <2>2, <2>3, <2>4, <2>5, <2>6, <2>8, <2>9, <2>10
             DEF Takes, take, value, b
  <1>10. CASE acc.left # 0
    <2>1. acc.done = FALSE /\ take \in Nat \ {0}
      BY <1>1, <1>2, <1>4, <1>10
    <2>2. acc.order.filled + take <= acc.order.qty
      BY <1>1, <1>2, <1>3, <1>4
    <2>3. /\ r.order \in MarketOrders /\ r.err = FALSE
          /\ r.order.qty = qty /\ r.order.filled = acc.order.filled + take
          /\ r.order.avg = Div(Mul(acc.order.avg, acc.order.filled) + Mul(level.price, take),
                               acc.order.filled + take)
      <3> DEFINE ord == acc.order
      <3>1. ord \in MarketOrders /\ ord.filled + take <= ord.qty /\ ord.qty = qty
        BY <1>1, <1>2, <2>2
      <3>2. level.price \in Nat /\ take \in Nat \ {0}
        BY <1>3, <2>1
      <3> HIDE DEF ord
      <3>3. LET x == Fill(ord, level.price, take)
            IN  /\ x.order \in MarketOrders /\ x.err = FALSE
                /\ x.order.qty = ord.qty /\ x.order.filled = ord.filled + take
                /\ x.order.avg = Div(Mul(ord.avg, ord.filled) + Mul(level.price, take),
                                     ord.filled + take)
        BY <3>1, <3>2, MarketFill
      <3> QED  BY <3>1, <3>3 DEF ord
    <2> DEFINE cost   == Booked(acc) + value
               filled == acc.order.filled + take
    <2>4. r.order.avg = Div(cost, filled) /\ r.order.filled = filled
      BY <1>8, <2>3
    <2>5. cost \in Nat /\ filled \in Nat \ {0} /\ filled <= qty
      BY <1>2, <1>3, <1>7, <1>8, <2>1, <2>2
    <2>6. b = [acc EXCEPT !.order = r.order, !.err = r.err,
                          !.left = @ - take, !.filled = @ + take,
                          !.cost = @ + value, !.fee = @ + MulBps(value, feeBps)]
      BY <1>1, <1>6, <1>10, <2>1 DEF TakeLevel, take
    <2> HIDE DEF r, value, cost, filled
    <2>7. /\ b.order = r.order /\ b.left = acc.left - take /\ b.filled = acc.filled + take
          /\ b.cost = acc.cost + value /\ b.fee = acc.fee + MulBps(value, feeBps)
          /\ b.err = FALSE /\ b.done = FALSE
      BY <1>2, <2>1, <2>3, <2>6
    <2> HIDE DEF b
    <2>8. b \in NewAccs(qty)
      BY <1>1, <1>5, <2>3, <2>7 DEF NewAccs
    <2>9. Booked(b) = Mul(Div(cost, filled), filled)
      BY <2>4, <2>7 DEF Booked
    <2>10. Booked(b) \in Nat /\ Booked(b) <= cost /\ cost <= Booked(b) + Loss(qty)
      BY <2>5, <2>9, AverageLoss DEF Loss
    <2>11. b.order.avg = Div(Booked(acc) + value, b.filled)
      BY <1>1, <2>4, <2>7 DEF cost, filled
    <2> QED  BY <1>4, <1>7, <1>8, <1>10, <2>7, <2>8, <2>10, <2>11 DEF Takes, cost, take, value, b
  <1> QED  BY <1>9, <1>10

\* A new order, and the start of its walk.
LEMMA NewOrderFacts ==
    ASSUME NEW side \in {"buy", "sell"}, NEW qty \in Nat \ {0}
    PROVE  LET ord == NewOrder(side, "market", 0, qty)
           IN  /\ ord \in MarketOrders /\ ord \in Orders /\ ord.filled = 0 /\ ord.qty = qty
               /\ FillStart(ord) \in NewAccs(qty)
               /\ Booked(FillStart(ord)) = 0
  <1> DEFINE ord == NewOrder(side, "market", 0, qty)
             acc == FillStart(ord)
  <1>1. /\ ord \in Orders /\ ord.filled = 0 /\ ord.avg = 0 /\ ord.qty = qty
        /\ ord.type = "market" /\ ord.state = "pending" /\ 0 <= qty /\ qty - 0 = qty
    BY DEF NewOrder, Orders, OrderStates
  <1> HIDE DEF ord
  <1>2. ord \in MarketOrders
    BY <1>1 DEF MarketOrders, StateOf
  <1>3. /\ acc.order = ord /\ acc.left = qty /\ acc.filled = 0 /\ acc.err = FALSE
        /\ acc.done = FALSE /\ acc \in Accs(qty, qty)
    BY <1>1 DEF FillStart, Accs
  <1>4. Mul(0, 0) = 0
    <2>1. 0 * 0 = 0 /\ 0 \div Scale = 0
      BY ScaleAssumption
    <2> QED  BY <2>1, RoundedFacts
  <1> HIDE DEF acc
  <1>5. acc \in NewAccs(qty) /\ Booked(acc) = 0
    BY <1>1, <1>2, <1>3, <1>4 DEF NewAccs, Booked
  <1> QED  BY <1>1, <1>2, <1>5 DEF ord, acc

\* A walk of a new order that keeps good from turn to turn.
LEMMA NewInduction ==
    ASSUME NEW side \in {"buy", "sell"}, NEW qty \in Nat \ {0},
           NEW levels \in Seq(Quotes), NEW feeBps \in Nat,
           NEW good,
           FillStart(NewOrder(side, "market", 0, qty)) \in good[0],
           \A i \in 1..Len(levels) : \A acc \in good[i - 1] : \A b :
               acc \in NewAccs(qty) /\ Takes(qty, acc, b, levels[i], feeBps) => b \in good[i]
    PROVE  LET acc == TakeLevels(NewOrder(side, "market", 0, qty), levels, feeBps)
           IN  acc \in NewAccs(qty) /\ acc \in good[Len(levels)]
  <1> DEFINE n == Len(levels)
             ord == NewOrder(side, "market", 0, qty)
             both == [i \in 0..n |-> NewAccs(qty) \cap good[i]]
  <1>1. n \in Nat /\ \A i \in 1..n : levels[i] \in Quotes
    BY ElementFacts
  <1>2. ord \in Orders /\ ord.filled <= ord.qty /\ FillStart(ord) \in NewAccs(qty)
    BY NewOrderFacts DEF MarketOrders
  <1>3. FillStart(ord) \in both[0]
    BY <1>1, <1>2
  <1>4. ASSUME NEW i \in 1..n, NEW acc \in both[i - 1]
        PROVE  TakeLevel(acc, levels[i], feeBps) \in both[i]
    <2> DEFINE b == TakeLevel(acc, levels[i], feeBps)
    <2>1. i - 1 \in 0..n /\ i \in 0..n
      BY <1>1
    <2>2. acc \in NewAccs(qty) /\ acc \in good[i - 1]
      BY <2>1
    <2>3. Takes(qty, acc, b, levels[i], feeBps)
      BY <1>1, <2>2, TakeNewFacts
    <2> HIDE DEF b
    <2>4. b \in good[i] /\ b \in NewAccs(qty)
      BY <2>2, <2>3 DEF Takes
    <2> QED  BY <2>1, <2>4 DEF b
  <1>5. both[n] = NewAccs(qty) \cap good[n]
    BY <1>1
  <1> HIDE DEF both, ord
  <1>6. TakeLevels(ord, levels, feeBps) \in both[n]
    BY <1>2, <1>3, <1>4, FillInduction
  <1> QED  BY <1>5, <1>6 DEF ord

\* What FillAgainstBook makes of the end of the walk.
FilledAs(r, view, acc) ==
    /\ view.ready => /\ r.order = acc.order
                     /\ r.leg = [filled |-> acc.filled, vwap |-> acc.order.avg,
                                 cost |-> acc.cost, fee |-> acc.fee]
    /\ ~view.ready => /\ r.order.filled = 0 /\ r.order.avg = 0 /\ r.order.state = "rejected"
                      /\ r.leg = NoLeg

\* Filling a new market order reports the end of its walk.
LEMMA FillNewFacts ==
    ASSUME NEW side \in {"buy", "sell"}, NEW qty \in Nat \ {0}, NEW view, NEW feeBps \in Nat,
           NEW acc \in NewAccs(qty),
           acc = TakeLevels(NewOrder(side, "market", 0, qty),
                            Levels(NewOrder(side, "market", 0, qty), view), feeBps)
    PROVE  FilledAs(FillAgainstBook(NewOrder(side, "market", 0, qty), view, feeBps), view, acc)
  <1> DEFINE ord == NewOrder(side, "market", 0, qty)
             rejected == Transition(ord, "rejected")
             r == FillAgainstBook(ord, view, feeBps)
  <1>1. ord.type = "market" /\ acc.err = FALSE
    BY DEF NewOrder, NewAccs
  <1>2. ~view.ready => r.order = rejected.order /\ r.leg = NoLeg
    BY DEF FillAgainstBook
  <1>3. /\ rejected.order.filled = 0 /\ rejected.order.avg = 0
        /\ rejected.order.state = "rejected"
    BY DEF Transition, CanTransition, validTransitions, OrderStates, NewOrder
  <1>4. view.ready => /\ r.order = acc.order
                      /\ r.leg = [filled |-> acc.filled, vwap |-> acc.order.avg,
                                  cost |-> acc.cost, fee |-> acc.fee]
    BY <1>1 DEF FillAgainstBook
  <1> HIDE DEF r, rejected
  <1> QED  BY <1>2, <1>3, <1>4 DEF FilledAs, r

\* An order and its leg agree on what was filled, and the state says how much.
Accounted(ord, leg) ==
    /\ leg.filled = ord.filled /\ leg.vwap = ord.avg
    /\ ord.qty > 0 =>
          /\ ord.state = "filled" <=> ord.filled = ord.qty
          /\ ord.state = "partially_filled" <=> ord.filled \in 1..(ord.qty - 1)

\* A new order is accounted for however much of it the book fills.
LEMMA AccountedFill ==
    ASSUME NEW side \in {"buy", "sell"}, NEW qty \in Nat \ {0}, NEW view, NEW feeBps \in Nat,
           view.bids \in Seq(Quotes), view.asks \in Seq(Quotes)
    PROVE  LET r == FillAgainstBook(NewOrder(side, "market", 0, qty), view, feeBps)
           IN  Accounted(r.order, r.leg)
  <1> DEFINE ord == NewOrder(side, "market", 0, qty)
             levels == Levels(ord, view)
             acc == TakeLevels(ord, levels, feeBps)
             r == FillAgainstBook(ord, view, feeBps)
             good == [i \in 0..Len(levels) |-> NewAccs(qty)]
  <1>1. levels \in Seq(Quotes)
    BY DEF Levels
  <1>2. acc \in NewAccs(qty)
    <2> HIDE DEF levels
    <2>1. Len(levels) \in Nat
      BY <1>1
    <2>2. FillStart(ord) \in good[0]
      BY <2>1, NewOrderFacts
    <2>3. \A i \in 1..Len(levels) : good[i] = NewAccs(qty)
      BY <2>1
    <2> HIDE DEF good
    <2>4. \A i \in 1..Len(levels) : \A a \in good[i - 1] : \A b :
             a \in NewAccs(qty) /\ Takes(qty, a, b, levels[i], feeBps) => b \in good[i]
      BY <2>3 DEF Takes
    <2> QED  BY <1>1, <2>2, <2>4, NewInduction
  <1>3. FilledAs(r, view, acc)
    <2> HIDE DEF acc
    <2>1. acc = TakeLevels(ord, levels, feeBps)
      BY DEF acc
    <2> QED  BY <1>2, <2>1, FillNewFacts
  <1>4. r.order.qty = qty
    <2>1. ord \in Orders /\ ord.filled <= ord.qty /\ ord.qty = qty
      BY NewOrderFacts DEF MarketOrders
    <2> HIDE DEF ord
    <2> QED  BY <2>1, FillAgainstBookFacts
  <1> HIDE DEF acc, r
  <1>5. CASE view.ready
    <2>1. /\ r.order = acc.order /\ r.leg.filled = acc.filled /\ r.leg.vwap = acc.order.avg
      BY <1>3, <1>5 DEF FilledAs
    <2>2. acc.order \in MarketOrders /\ acc.order.filled = acc.filled
      BY <1>2 DEF NewAccs
    <2>3. /\ acc.order.state = StateOf(acc.order) /\ acc.order.filled <= acc.order.qty
          /\ acc.order.filled \in Nat /\ acc.order.qty = qty
      BY <1>4, <2>1, <2>2 DEF MarketOrders, Orders
    <2>4. /\ acc.order.state = "filled" <=> acc.order.filled = qty
          /\ acc.order.state = "partially_filled" <=> acc.order.filled \in 1..(qty - 1)
      BY <2>3 DEF StateOf
    <2> QED  BY <2>1, <2>2, <2>3, <2>4 DEF Accounted, r
  <1>6. CASE ~view.ready
    <2>1. /\ r.order.filled = 0 /\ r.order.avg = 0 /\ r.order.state = "rejected"
          /\ r.leg.filled = 0 /\ r.leg.vwap = 0
      BY <1>3, <1>6 DEF FilledAs, NoLeg
    <2> QED  BY <1>4, <2>1 DEF Accounted, r
  <1> QED  BY <1>5, <1>6

\* The fee on a value, and what rounding takes from it, are within the value.
LEMMA FeeWithinValue ==
    ASSUME NEW value \in Nat, NEW bps \in Nat, bps <= 5000, NEW loss \in Nat,
           2 * loss <= value + 1
    PROVE  MulBps(value, bps) + loss <= value
  <1> DEFINE x == value * bps
             fee == x \div 10000
  <1>1. x \in Nat /\ MulBps(value, bps) = fee
    BY RoundedFacts
  <1>2. x <= value * 5000
    OBVIOUS
  <1> HIDE DEF x
  <1>3. fee \in Nat /\ 10000 * fee <= x
    BY <1>1, QuotientFacts
  <1> HIDE DEF fee
  <1>4. 10000 * fee <= 5000 * value
    BY <1>1, <1>2, <1>3
  <1> QED  BY <1>1, <1>3, <1>4

\* A fill is worth no less than its smallest unit.
LEMMA UnitValue ==
    ASSUME NEW price \in Nat, NEW take \in Nat, take # 0
    PROVE  /\ Mul(price, 1) \in Nat /\ Mul(price, take) \in Nat
           /\ Mul(price, 1) <= Mul(price, take)
  <1>1. 1 \in Nat /\ 1 <= take
    OBVIOUS
  <1>2. Mul(price, 1) <= Mul(price, take)
    BY <1>1, MulMonotone
  <1>3. Mul(price, 1) \in Nat /\ Mul(price, take) \in Nat
    BY <1>1, DecimalFacts
  <1> QED  BY <1>2, <1>3

\* No fee is more than half of the value of a fill, and no price so small that
\* rounding takes the other half.
Dear(levels, qty, feeBps) ==
    /\ feeBps <= 5000
    /\ \A i \in 1..Len(levels) : 2 * Loss(qty) <= Mul(levels[i].price, 1) + 1

\* The fees of a fill are covered by what it is worth.
LEMMA CoveredFill ==
    ASSUME NEW side \in {"buy", "sell"}, NEW qty \in Nat \ {0}, NEW view, NEW feeBps \in Nat,
           view.bids \in Seq(Quotes), view.asks \in Seq(Quotes),
           NEW levels, levels = Levels(NewOrder(side, "market", 0, qty), view),
           Dear(levels, qty, feeBps)
    PROVE  LET leg == FillAgainstBook(NewOrder(side, "market", 0, qty), view, feeBps).leg
           IN  leg.fee <= Mul(leg.vwap, leg.filled)
  <1> DEFINE ord == NewOrder(side, "market", 0, qty)
             acc == TakeLevels(ord, levels, feeBps)
             r == FillAgainstBook(ord, view, feeBps)
             covered == {a \in NewAccs(qty) : a.fee <= Booked(a)}
             good == [i \in 0..Len(levels) |-> covered]
  <1>1. levels \in Seq(Quotes)
    BY DEF Levels
  <1>2. Len(levels) \in Nat /\ \A i \in 1..Len(levels) : levels[i] \in Quotes
    BY <1>1, ElementFacts
  <1>3. Loss(qty) \in Nat
    <2>1. qty + Scale - 2 \in Nat /\ Scale \in Nat \ {0}
      BY ScaleAssumption
    <2> QED  BY <2>1, QuotientFacts DEF Loss
  <1>4. FillStart(ord) \in covered
    <2>1. FillStart(ord) \in NewAccs(qty) /\ Booked(FillStart(ord)) = 0
      BY NewOrderFacts
    <2>2. FillStart(ord).fee = 0
      BY DEF FillStart
    <2> QED  BY <2>1, <2>2
  <1>5. ASSUME NEW i \in 1..Len(levels), NEW a \in covered, NEW b,
               Takes(qty, a, b, levels[i], feeBps)
        PROVE  b \in covered
    <2> DEFINE take  == Lesser(levels[i].qty, a.left)
               value == Mul(levels[i].price, take)
               fee   == MulBps(value, feeBps)
               low   == Mul(levels[i].price, 1)
    <2>1. /\ b \in NewAccs(qty)
          /\ take \in Nat /\ value \in Nat /\ fee \in Nat /\ b.fee = a.fee + fee
          /\ Booked(a) \in Nat /\ Booked(b) \in Nat
          /\ take = 0 => fee = 0 /\ Booked(b) = Booked(a)
          /\ Booked(a) + value <= Booked(b) + Loss(qty)
      BY <1>5 DEF Takes
    <2>2. a.fee \in Nat /\ a.fee <= Booked(a)
      BY DEF NewAccs, Accs
    <2>3. take # 0 => fee + Loss(qty) <= value
      <3> SUFFICES ASSUME take # 0 PROVE fee + Loss(qty) <= value
        OBVIOUS
      <3>1. levels[i].price \in Nat
        BY <1>2 DEF Quotes
      <3> HIDE DEF take
      <3>2. low \in Nat /\ low <= value
        <4> DEFINE price == levels[i].price
        <4>1. price \in Nat /\ take \in Nat /\ take # 0
          BY <2>1, <3>1
        <4> HIDE DEF price
        <4>2. /\ Mul(price, 1) \in Nat /\ Mul(price, take) \in Nat
              /\ Mul(price, 1) <= Mul(price, take)
          BY <4>1, UnitValue
        <4> QED  BY <4>2 DEF price
      <3>3. 2 * Loss(qty) <= low + 1
        BY DEF Dear
      <3> HIDE DEF value, low
      <3>4. 2 * Loss(qty) <= value + 1
        BY <1>3, <2>1, <3>2, <3>3
      <3> QED  BY <1>3, <2>1, <3>4, FeeWithinValue DEF Dear
    <2> HIDE DEF take, value, fee
    <2>4. b.fee <= Booked(b)
      <3>1. CASE take = 0
        BY <2>1, <2>2, <3>1
      <3>2. CASE take # 0
        BY <1>3, <2>1, <2>2, <2>3, <3>2
      <3> QED  BY <3>1, <3>2
    <2> QED  BY <2>1, <2>4
  <1>6. acc \in NewAccs(qty) /\ acc \in covered
    <2> HIDE DEF covered
    <2>1. good[0] = covered /\ good[Len(levels)] = covered
      BY <1>2
    <2>2. \A i \in 1..Len(levels) : good[i - 1] = covered /\ good[i] = covered
      BY <1>2
    <2> HIDE DEF good
    <2>3. \A i \in 1..Len(levels) : \A a \in good[i - 1] : \A b :
             a \in NewAccs(qty) /\ Takes(qty, a, b, levels[i], feeBps) => b \in good[i]
      BY <1>5, <2>2
    <2> QED  BY <1>1, <1>4, <2>1, <2>3, NewInduction
  <1>7. FilledAs(r, view, acc)
    <2> HIDE DEF acc
    <2>1. acc = TakeLevels(ord, Levels(ord, view), feeBps)
      BY DEF acc
    <2> QED  BY <1>6, <2>1, FillNewFacts
  <1>8. acc.fee <= Mul(acc.order.avg, acc.filled)
    <2> HIDE DEF acc
    <2> QED  BY <1>6 DEF Booked, NewAccs
  <1>9. Mul(0, 0) = 0
    <2>1. 0 * 0 = 0 /\ 0 \div Scale = 0
      BY ScaleAssumption
    <2> QED  BY <2>1, RoundedFacts
  <1> HIDE DEF acc, r
  <1>10. r.leg.fee <= Mul(r.leg.vwap, r.leg.filled)
    <2>1. CASE view.ready
      BY <1>7, <1>8, <2>1 DEF FilledAs
    <2>2. CASE ~view.ready
      BY <1>7, <1>9, <2>2 DEF FilledAs, NoLeg
    <2> QED  BY <2>1, <2>2
  <1> QED  BY <1>10 DEF r

=============================================================================
