------------------------------ MODULE Decimal -------------------------------
(***************************************************************************)
(* The fixed-point numbers of pkg/decimal: an integer counts units of      *)
(* 1/Scale.  Add, Sub and Cmp are those of the integers; what overflows    *)
(* panics and is out of the range modelled here.                           *)
(***************************************************************************)
EXTENDS Integers

CONSTANT Scale

ASSUME ScaleAssumption == Scale \in Nat \ {0}

Abs(n) == IF n < 0 THEN -n ELSE n

Lesser(m, n) == IF n < m THEN n ELSE m

\* a * b / c on magnitudes, rounded toward zero.  The sign is that of a * b:
\* the sign of c is not looked at.
mulDiv(a, b, c) ==
    LET q == (Abs(a) * Abs(b)) \div Abs(c)
    IN  IF (a < 0) # (b < 0) THEN -q ELSE q

Mul(a, b) == mulDiv(a, b, Scale)

Div(a, b) == mulDiv(a, Scale, b)

MulBps(a, bps) == mulDiv(a, bps, 10000)
=============================================================================
