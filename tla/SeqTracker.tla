----------------------------- MODULE SeqTracker -----------------------------
(***************************************************************************)
(* The per-venue sequence trackers of internal/book/seq.go.  A tracker is  *)
(* the record [ready, lastSeq]; Check returns only the verdict and Advance *)
(* the tracker Check leaves behind (the Go method does both at once).      *)
(***************************************************************************)
EXTENDS Integers

\* Venues that have a tracker.  Every other venue is an error of NewForVenue.
Venues == {"binance", "okx", "bybit", "synthetic"}

Verdicts == {"apply", "duplicate", "gap", "need_snapshot"}

NewTracker == [ready |-> FALSE, lastSeq |-> 0]

\* OKX, Bybit and the synthetic venue (which is given an OKXTracker) share
\* one rule; Binance has its own.
UsesBinanceRule(venue) == venue = "binance"

\* A Binance snapshot may raise lastSeq but never lowers it.
BinanceOnSnapshot(t, seq) ==
    [ready |-> TRUE, lastSeq |-> IF seq > t.lastSeq THEN seq ELSE t.lastSeq]

ChainOnSnapshot(t, seq) == [ready |-> TRUE, lastSeq |-> seq]

OnSnapshot(venue, t, seq) ==
    IF UsesBinanceRule(venue) THEN BinanceOnSnapshot(t, seq)
                              ELSE ChainOnSnapshot(t, seq)

\* Faulty: the first id may be one further on than the contract allows.
BinanceCheckOffByOne(t, d) ==
    CASE ~t.ready                                  -> "apply"
      [] t.ready /\ d.seq <= t.lastSeq             -> "duplicate"
      [] t.ready /\ d.seq > t.lastSeq
                 /\ d.prev > t.lastSeq + 2         -> "gap"
      [] OTHER                                     -> "apply"

\* PrevSequence of a Binance delta is U, the first id it covers.
BinanceCheck(t, d) ==
    CASE ~t.ready                                  -> "apply"
      [] t.ready /\ d.seq <= t.lastSeq             -> "duplicate"
      [] t.ready /\ d.seq > t.lastSeq
                 /\ d.prev > t.lastSeq + 1         -> "gap"
      [] OTHER                                     -> "apply"

\* Faulty: any newer delta is taken.
ChainCheckNoGap(t, d) ==
    CASE ~t.ready             -> "need_snapshot"
      [] t.ready /\ d.seq <= t.lastSeq -> "duplicate"
      [] OTHER                -> "apply"

\* Faulty: an old delta is taken again.
ChainCheckNoDuplicate(t, d) ==
    CASE ~t.ready             -> "need_snapshot"
      [] t.ready /\ (d.seq <= t.lastSeq + 1 \/ d.prev = t.lastSeq) -> "apply"
      [] OTHER                -> "gap"

ChainCheck(t, d) ==
    CASE ~t.ready                                  -> "need_snapshot"
      [] t.ready /\ d.seq <= t.lastSeq             -> "duplicate"
      [] t.ready /\ d.seq > t.lastSeq
                 /\ (d.seq = t.lastSeq + 1 \/ d.prev = t.lastSeq) -> "apply"
      [] OTHER                                     -> "gap"

Check(venue, t, d) ==
    IF UsesBinanceRule(venue) THEN BinanceCheck(t, d) ELSE ChainCheck(t, d)

\* Only an applied delta moves a tracker.
Advance(venue, t, d) ==
    IF Check(venue, t, d) = "apply" THEN [ready |-> TRUE, lastSeq |-> d.seq] ELSE t
=============================================================================
