------------------------------ MODULE Recorder ------------------------------
(***************************************************************************)
(* The recording of internal/replay as a value: the envelopes given to     *)
(* Record, and how much of them is in the file.  The writer buffers and    *)
(* writes when its buffer is full, wherever that falls in a line.          *)
(***************************************************************************)
EXTENDS Integers, Sequences

Version == 1

NewRecorder == [open |-> TRUE, seq |-> 0, written |-> <<>>, lines |-> 0, torn |-> FALSE]

Envelope(n, ev, body) ==
    [v |-> Version, seq |-> n, type |-> ev.type, venue |-> ev.venue,
     receiveTime |-> ev.at, body |-> body]

\* Faulty: the delta's PrevSequence is not written and reads back as zero.
FromEventNoPrev(n, ev) ==
    Envelope(n, ev,
        CASE ev.type = "snapshot" -> [sequence |-> ev.seq, levels |-> ev.depth]
          [] ev.type = "delta"    -> [sequence |-> ev.seq, prevSequence |-> 0, levels |-> ev.levels]
          [] ev.type = "trade"    -> [sequence |-> 0])

\* Prices and quantities are written as their raw integers: exactly.
FromEvent(n, ev) ==
    Envelope(n, ev,
        CASE ev.type = "snapshot" -> [sequence |-> ev.seq, levels |-> ev.depth]
          [] ev.type = "delta"    -> [sequence |-> ev.seq, prevSequence |-> ev.prev, levels |-> ev.levels]
          [] ev.type = "trade"    -> [sequence |-> 0])

ToEvent(re) ==
    CASE re.type = "snapshot" -> [type |-> "snapshot", venue |-> re.venue, seq |-> re.body.sequence,
                                  depth |-> re.body.levels, at |-> re.receiveTime]
      [] re.type = "delta"    -> [type |-> "delta", venue |-> re.venue, seq |-> re.body.sequence,
                                  prev |-> re.body.prevSequence, levels |-> re.body.levels,
                                  at |-> re.receiveTime]
      [] re.type = "trade"    -> [type |-> "trade", venue |-> re.venue, at |-> re.receiveTime]

\* After Close the number is still used up, and the line stays in a buffer
\* that nobody writes.
Record(r, ev) ==
    IF r.open THEN [r EXCEPT !.seq = @ + 1, !.written = Append(@, FromEvent(r.seq + 1, ev))]
              ELSE [r EXCEPT !.seq = @ + 1]

\* The buffer is written up to some point of some line.
Flushed(r, lines, torn) == [r EXCEPT !.lines = lines, !.torn = torn]

Close(r) == [r EXCEPT !.open = FALSE, !.lines = Len(r.written), !.torn = FALSE]
=============================================================================
