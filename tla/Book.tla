-------------------------------- MODULE Book --------------------------------
(***************************************************************************)
(* The order book of internal/book/book.go as a value: its State plus its  *)
(* depth.  The content of a price level is abstracted to the sequence      *)
(* number of the venue update that last wrote it (0: nothing is known of   *)
(* the level), so two depths are equal exactly when they are made of the   *)
(* same updates; a removal (zero quantity) is a write like any other.      *)
(* Every mutator ends by publishing the whole view, so the book value is   *)
(* also what readers see.                                                  *)
(***************************************************************************)
EXTENDS Integers

CONSTANT Levels     \* price levels, both sides together

Depths == [Levels -> Nat]

EmptyDepth == [l \in Levels |-> 0]

\* What update number seq does to the levels it names.
Patch(depth, levels, seq) == [l \in Levels |-> IF l \in levels THEN seq ELSE depth[l]]

\* What is left of a depth when only the levels of top are sent.
TopOf(depth, top) == [l \in Levels |-> IF l \in top THEN depth[l] ELSE 0]

NewBook == [ready |-> FALSE, stale |-> FALSE, seq |-> 0, at |-> 0, depth |-> EmptyDepth]

LoadSnapshot(b, s) ==
    [ready |-> TRUE, stale |-> FALSE, seq |-> s.seq, at |-> s.at, depth |-> s.depth]

\* Faulty: stamps the book with the delta's PrevSequence.
ApplyDeltaPrev(b, d) ==
    [b EXCEPT !.seq = d.prev, !.at = d.at, !.depth = Patch(b.depth, d.levels, d.seq)]

\* Sequence, time and depth move; readiness does not.
ApplyDelta(b, d) ==
    [b EXCEPT !.seq = d.seq, !.at = d.at, !.depth = Patch(b.depth, d.levels, d.seq)]

\* Faulty: leaves the book as it is, or forgets that it was stale.
InvalidateNothing(b) == b
InvalidateUnstales(b) == [b EXCEPT !.ready = FALSE, !.stale = FALSE]

\* The depth is kept for diagnostics.
Invalidate(b) == [b EXCEPT !.ready = FALSE]

MarkStale(b, flag) == [b EXCEPT !.stale = flag]
=============================================================================
