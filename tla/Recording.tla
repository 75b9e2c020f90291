----------------------------- MODULE Recording ------------------------------
(***************************************************************************)
(* A live run that records its market data, its end in an orderly close or *)
(* a crash, and two replays of what is left of the recording.              *)
(*                                                                         *)
(*   adapters --raw--> Record, Submit --queues--> lanes          (live)    *)
(*                       |                                                 *)
(*                     file --> Reader --> ApplySync, EvaluateOnce (replay)*)
(*                                                                         *)
(* Live, every book has a goroutine and a bounded channel of its own; a    *)
(* replay applies one event after the other on one goroutine.              *)
(***************************************************************************)
EXTENDS FiniteSets, SeqTracker, Book, Recorder

CONSTANTS
    Feeds,          \* the enabled venues
    Skips,          \* by how much a sequence number may advance
    RawCap,         \* capacity of the raw channel
    QueueSize,      \* capacity of a lane's channel
    MaxQuoteAge,    \* age at which a quote is no longer evaluated
    MaxEmits,       \* bound: events the venues produce
    MaxTime         \* bound: last clock tick

ASSUME RecordingAssumption ==
    /\ Feeds \subseteq Venues
    /\ Skips \subseteq Nat \ {0}
    /\ {RawCap, QueueSize, MaxQuoteAge, MaxEmits, MaxTime} \subseteq Nat

VARIABLES
    phase,      \* "live", "closing" (the recorder is closed), "ended"
    now,        \* the wall clock
    clk,        \* the clock replays decide by: the wall clock or a pinned one
    vseq,       \* venue -> its last sequence number
    raw,        \* the raw channel
    ingest,     \* <<the event recorded and not yet submitted>>, or <<>>
    queue,      \* venue -> its lane's channel
    lane,       \* venue -> tracker and book
    rec,        \* the recorder and its file
    replays,    \* the replays so far
    \* history
    emits,      \* events produced
    seen,       \* venue -> the states its lane has been in, oldest first
    overloaded  \* venues whose lane has refused an event

live == <<vseq, raw, ingest, queue, lane, emits, seen, overloaded>>
vars == <<phase, now, clk, live, rec, replays>>

NewLane == [tracker |-> NewTracker, book |-> NewBook]
NewLanes == [v \in Feeds |-> NewLane]
NewReplay == [pos |-> 0, lanes |-> NewLanes, stream |-> <<>>, status |-> "running"]

Init ==
    /\ phase = "live" /\ now = 0 /\ clk \in {"real", "manual"}
    /\ vseq = [v \in Feeds |-> 1]
    /\ raw = <<>> /\ ingest = <<>> /\ queue = [v \in Feeds |-> <<>>]
    /\ lane = NewLanes
    /\ rec = NewRecorder /\ replays = <<>>
    /\ emits = 0 /\ seen = [v \in Feeds |-> <<NewLane>>] /\ overloaded = {}

-----------------------------------------------------------------------------
(* Pipeline.apply, which live and replay share. *)

ApplySnapshotTo(l, e) ==
    [tracker |-> OnSnapshot(e.venue, l.tracker, e.seq),
     book    |-> MarkStale(LoadSnapshot(l.book, e), FALSE)]

ApplyDeltaTo(l, e) ==
    LET v == Check(e.venue, l.tracker, e) IN
    [tracker |-> Advance(e.venue, l.tracker, e),
     book    |-> CASE v = "apply"                    -> MarkStale(ApplyDelta(l.book, e), FALSE)
                   [] v \in {"gap", "need_snapshot"} -> Invalidate(l.book)
                   [] OTHER                          -> l.book]

\* Trades pass through.
Apply(l, e) ==
    CASE e.type = "snapshot" -> ApplySnapshotTo(l, e)
      [] e.type = "delta"    -> ApplyDeltaTo(l, e)
      [] e.type = "trade"    -> l

-----------------------------------------------------------------------------
(* The live run. *)

\* Binance sends the levels at the top of its book only.
Snapshot(v, top) ==
    [type |-> "snapshot", venue |-> v, seq |-> vseq[v], at |-> now,
     depth |-> TopOf([l \in Levels |-> vseq[v]], IF UsesBinanceRule(v) THEN top ELSE Levels)]
Delta(v, skip) == [type |-> "delta", venue |-> v, seq |-> vseq[v] + skip,
                   prev |-> IF UsesBinanceRule(v) THEN vseq[v] + 1 ELSE vseq[v],
                   levels |-> Levels, at |-> now]
Trade(v) == [type |-> "trade", venue |-> v, at |-> now]

\* Faulty: the channel has no capacity to run out of.
SendUnbounded(e) ==
    /\ phase # "ended" /\ emits < MaxEmits
    /\ emits' = emits + 1
    /\ raw' = Append(raw, e)
    /\ UNCHANGED <<phase, now, clk, ingest, queue, lane, seen, overloaded, rec, replays>>

\* An adapter's send: a full channel loses the event.
Send(e) ==
    /\ phase # "ended" /\ emits < MaxEmits
    /\ emits' = emits + 1
    /\ raw' = IF Len(raw) < RawCap THEN Append(raw, e) ELSE raw
    /\ UNCHANGED <<phase, now, clk, ingest, queue, lane, seen, overloaded, rec, replays>>

SendSnapshot(v, top) == Send(Snapshot(v, top)) /\ UNCHANGED vseq
SendTrade(v) == Send(Trade(v)) /\ UNCHANGED vseq
SendDelta(v, skip) ==
    /\ Send(Delta(v, skip))
    /\ vseq' = [vseq EXCEPT ![v] = @ + skip]

\* Faulty: the tee to the recorder is lost.
IngestRecordNoTee ==
    /\ phase # "ended" /\ raw # <<>> /\ ingest = <<>>
    /\ raw' = Tail(raw) /\ ingest' = <<Head(raw)>>
    /\ UNCHANGED <<phase, now, clk, vseq, queue, lane, emits, seen, overloaded, rec, replays>>

\* Ingest tees the event to the recorder first ...
IngestRecord ==
    /\ phase # "ended" /\ raw # <<>> /\ ingest = <<>>
    /\ raw' = Tail(raw) /\ ingest' = <<Head(raw)>>
    /\ rec' = Record(rec, Head(raw))
    /\ UNCHANGED <<phase, now, clk, vseq, queue, lane, emits, seen, overloaded, replays>>

\* ... and submits it.
Submit ==
    /\ phase # "ended" /\ ingest # <<>>
    /\ LET e == Head(ingest) IN
       /\ Len(queue[e.venue]) < QueueSize
       /\ queue' = [queue EXCEPT ![e.venue] = Append(@, e)]
    /\ ingest' = <<>>
    /\ UNCHANGED <<phase, now, clk, vseq, raw, lane, emits, seen, overloaded, rec, replays>>

\* The lane is full: the book is invalidated and the event dropped.
SubmitOverload ==
    /\ phase # "ended" /\ ingest # <<>>
    /\ LET v == Head(ingest).venue IN
       /\ Len(queue[v]) >= QueueSize
       /\ lane' = [lane EXCEPT ![v].book = Invalidate(@)]
       /\ overloaded' = overloaded \cup {v}
    /\ ingest' = <<>>
    /\ UNCHANGED <<phase, now, clk, vseq, raw, queue, emits, seen, rec, replays>>

LaneApply(v) ==
    /\ phase # "ended" /\ queue[v] # <<>>
    /\ lane' = [lane EXCEPT ![v] = Apply(@, Head(queue[v]))]
    /\ queue' = [queue EXCEPT ![v] = Tail(@)]
    /\ seen' = [seen EXCEPT ![v] = Append(@, lane'[v])]
    /\ UNCHANGED <<phase, now, clk, vseq, raw, ingest, emits, overloaded, rec, replays>>

\* sweepStale.  A replay has no sweeper.
Sweep(v) ==
    /\ phase # "ended" /\ lane[v].book.ready
    /\ lane' = [lane EXCEPT ![v].book = MarkStale(@, now - @.at > MaxQuoteAge)]
    /\ lane' # lane
    /\ UNCHANGED <<phase, now, clk, vseq, raw, ingest, queue, emits, seen, overloaded, rec, replays>>

Tick ==
    /\ now < MaxTime
    /\ now' = now + 1
    /\ UNCHANGED <<phase, clk, live, rec, replays>>

\* The writer's buffer is full, or the system writes part of it.
Flush(lines, torn) ==
    /\ phase = "live"
    /\ lines > rec.lines \/ (lines = rec.lines /\ torn /\ ~rec.torn)
    /\ torn => lines < Len(rec.written)
    /\ rec' = Flushed(rec, lines, torn)
    /\ UNCHANGED <<phase, now, clk, live, replays>>

\* main closes the recorder without waiting for the fan-in goroutine.
CloseRecorder ==
    /\ phase = "live"
    /\ phase' = "closing" /\ rec' = Close(rec)
    /\ UNCHANGED <<now, clk, live, replays>>

\* The process exits, or crashes with lines in the buffer.
End ==
    /\ phase # "ended"
    /\ phase' = "ended"
    /\ UNCHANGED <<now, clk, live, rec, replays>>

-----------------------------------------------------------------------------
(* Replays, one after the other. *)

StartReplay ==
    /\ phase = "ended" /\ Len(replays) < 2
    /\ \A i \in DOMAIN replays : replays[i].status # "running"
    /\ replays' = Append(replays, NewReplay)
    /\ UNCHANGED <<phase, now, clk, live, rec>>

\* A pinned clock stands still while events are applied.
DecisionTime == IF clk = "manual" THEN MaxTime ELSE now

Usable(book, t) == book.ready /\ ~book.stale /\ t - book.at <= MaxQuoteAge

\* The pairs of books that EvaluateOnce compares at time t; which of them
\* are opportunities depends on the depths alone.
Compared(lanes, t) ==
    {p \in Feeds \X Feeds : p[1] # p[2] /\ \A i \in 1..2 : Usable(lanes[p[i]].book, t)}

Current == replays[Len(replays)]

\* runDeterministic: read, ApplySync, EvaluateOnce.
ReplayEvent ==
    /\ replays # <<>> /\ Current.status = "running" /\ Current.pos < rec.lines
    /\ LET e     == ToEvent(rec.written[Current.pos + 1])
           after == [Current.lanes EXCEPT ![e.venue] = Apply(@, e)]
       IN  replays' = [replays EXCEPT ![Len(replays)] =
                          [pos |-> Current.pos + 1, lanes |-> after, status |-> "running",
                           stream |-> Append(Current.stream, Compared(after, DecisionTime))]]
    /\ UNCHANGED <<phase, now, clk, live, rec>>

\* The end of the file, or half a line that is not JSON.
ReplayEnd ==
    /\ replays # <<>> /\ Current.status = "running" /\ Current.pos = rec.lines
    /\ replays' = [replays EXCEPT ![Len(replays)].status = IF rec.torn THEN "error" ELSE "eof"]
    /\ UNCHANGED <<phase, now, clk, live, rec>>

-----------------------------------------------------------------------------
Live ==
    \/ \E v \in Feeds :
          \/ SendTrade(v) \/ LaneApply(v) \/ Sweep(v)
          \/ \E top \in SUBSET Levels : SendSnapshot(v, top)
          \/ \E skip \in Skips : SendDelta(v, skip)
    \/ IngestRecord \/ Submit \/ SubmitOverload
    \/ \E lines \in 0..Len(rec.written), torn \in BOOLEAN : Flush(lines, torn)
    \/ CloseRecorder \/ End

Replay == StartReplay \/ ReplayEvent \/ ReplayEnd

Next == Live \/ Replay \/ Tick

Spec == Init /\ [][Next]_vars
-----------------------------------------------------------------------------
(* Properties. *)

\* How many of the first n entries of a recording are for venue v.
Count(s, n, v) == Cardinality({i \in 1..n : s[i].venue = v})

Events ==
    [type : {"snapshot"}, venue : Feeds, seq : Nat, depth : Depths, at : Nat]
        \cup [type : {"delta"}, venue : Feeds, seq : Nat, prev : Nat, levels : SUBSET Levels, at : Nat]
        \cup [type : {"trade"}, venue : Feeds, at : Nat]
LaneStates == [tracker : [ready : BOOLEAN, lastSeq : Nat],
               book : [ready : BOOLEAN, stale : BOOLEAN, seq : Nat, at : Nat, depth : Depths]]
Replays == [pos : Nat, lanes : [Feeds -> LaneStates], stream : Seq(SUBSET (Feeds \X Feeds)),
            status : {"running", "eof", "error"}]

\* Every variable has its type, the channels keep to their capacities, and
\* the file holds no more than what was recorded.
TypeOK ==
    /\ phase \in {"live", "closing", "ended"}
    /\ now \in Nat /\ clk \in {"real", "manual"}
    /\ vseq \in [Feeds -> Nat]
    /\ raw \in Seq(Events) /\ Len(raw) <= RawCap
    /\ ingest \in Seq(Events) /\ Len(ingest) <= 1
    /\ queue \in [Feeds -> Seq(Events)] /\ \A v \in Feeds : Len(queue[v]) <= QueueSize
    /\ lane \in [Feeds -> LaneStates] /\ seen \in [Feeds -> Seq(LaneStates)]
    /\ rec.open \in BOOLEAN /\ rec.torn \in BOOLEAN
    /\ \A i \in DOMAIN rec.written : ToEvent(rec.written[i]) \in Events
    /\ rec.lines \in 0..Len(rec.written) /\ Len(rec.written) <= rec.seq
    /\ replays \in Seq(Replays) /\ Len(replays) <= 2
    /\ \A i \in DOMAIN replays : replays[i].pos <= rec.lines
    /\ emits \in Nat /\ overloaded \subseteq Feeds

\* All of a lane but the stale mark.
Content(l) == [l EXCEPT !.book.stale = FALSE]

\* A replay takes every book through the states the live book went through,
\* event by event, whatever the crash has left of the file and however the
\* lanes were interleaved: tracker, readiness, depth, sequence and time.
\* Excepted are the stale mark, since a replay does not sweep, and a book
\* whose lane has refused an event, since the recorder has seen that event
\* (Ingest and runLane against runDeterministic, FromEvent against ToEvent).
ReplayRetracesLive ==
    \A i \in DOMAIN replays : \A v \in Feeds \ overloaded :
        LET n == Count(rec.written, replays[i].pos, v)
        IN  n < Len(seen[v]) => Content(replays[i].lanes[v]) = Content(seen[v][n + 1])

\* As long as the recorder is open no book is ahead of it: an event is
\* recorded before a lane can apply it (the order of calls in Ingest).
RecordedBeforeApplied ==
    rec.open => \A v \in Feeds : Len(seen[v]) - 1 <= Count(rec.written, Len(rec.written), v)

\* A lane that is full loses events the recording has, and goes on by
\* itself: its book may be invalid, or old, where the replay's is not.  The
\* other way round does not happen: over a file that lost nothing, a replay
\* ends with a book at least as new as the live one, level by level, however
\* many events the full lane refused (Submit's overload branch and Check).
\* Excepted are Binance's books, which a snapshot may take back in time.
ReplayIsNotBehind ==
    \A i \in DOMAIN replays : replays[i].status = "eof" /\ rec.lines = rec.seq =>
        \A v \in Feeds : ~UsesBinanceRule(v) =>
            LET b == replays[i].lanes[v].book IN
            /\ lane[v].book.seq <= b.seq
            /\ \A l \in Levels : lane[v].book.depth[l] <= b.depth[l]

\* "the following are identical across runs: [...] opportunity stream (IDs
\* and order)", whichever clock the tool gives to the engine; cmd/replay
\* gives none, which is the wall clock.
ReplaysAgree ==
    Len(replays) = 2 /\ replays[2].status # "running" => replays[1].stream = replays[2].stream
=============================================================================
