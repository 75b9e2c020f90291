------------------------------ MODULE BookLane ------------------------------
(***************************************************************************)
(* One order book from the venue to the published view: the WebSocket      *)
(* session of internal/venue/wsbase, the venue handler, the engine's raw   *)
(* channel and fan-in goroutine, Pipeline.Submit, the lane goroutine, the  *)
(* overload path and the staleness sweeper of internal/marketdata.         *)
(*                                                                         *)
(*   venue --wire--> read loop --raw--> ingest --queue--> lane --> book    *)
(*     ^                                  |                 |              *)
(*     +---- session drop <- resync slot -+-----------------+              *)
(*                                                                         *)
(* The venue is external: image records, for every sequence number it has  *)
(* ever emitted, the depth of its own book at that number.                 *)
(***************************************************************************)
EXTENDS Sequences, FiniteSets, SeqTracker, Book

CONSTANTS
    Venue,          \* whose tracker and message format
    Skips,          \* by how much the venue's sequence number may advance
    SnapshotLag,    \* how far a Binance depth20 image may trail the deltas
    TopLevels,      \* how many levels a depth20 image carries
    MaxSeq,         \* bound: last sequence number of the venue
    WireCap,        \* bound: frames in flight on the socket
    RawCap,         \* capacity of the engine's raw channel
    QueueSize,      \* capacity of the lane channel
    MaxBookAge,     \* staleness threshold
    MaxTime,        \* bound: last clock tick
    FaultKinds,     \* which faults of the environment may happen
    MaxFaults       \* bound: how many of them

AllFaultKinds == {"disconnect", "malformed", "redeliver", "other_lane"}

ASSUME LaneAssumption ==
    /\ Venue \in Venues \ {"synthetic"}
    /\ Skips \subseteq Nat \ {0}
    /\ SnapshotLag \in Nat /\ TopLevels \in Nat /\ MaxSeq \in Nat /\ WireCap \in Nat
    /\ RawCap \in Nat /\ QueueSize \in Nat
    /\ MaxBookAge \in Nat /\ MaxTime \in Nat /\ MaxFaults \in Nat
    /\ FaultKinds \subseteq AllFaultKinds

VARIABLES
    vseq,       \* the venue's current sequence number
    image,      \* emitted sequence number -> the venue's depth at it
    conn,       \* the session: "down", "subscribing" or "streaming"
    wire,       \* frames the venue has sent in this session
    resync,     \* a token is in the forceReconnect channel (capacity 1)
    raw,        \* the engine's raw channel
    ingest,     \* where the fan-in goroutine is inside Submit
    queue,      \* the lane's channel
    tracker,    \* the lane's sequence tracker
    book,       \* the lane's book, which is also the published view
    anchor,     \* history: number of the snapshot loaded last, 0 before any
    now,        \* the clock
    sweep,      \* the time the sweeper sampled, or NoSweep between sweeps
    faults      \* faults injected so far

venueVars == <<vseq, image>>
sessionVars == <<conn, wire>>
laneVars == <<queue, tracker, book, anchor>>
vars == <<vseq, image, conn, wire, resync, raw, ingest, queue, tracker, book,
          anchor, now, sweep, faults>>

NoSweep == -1

Snapshot(seq, depth) == [type |-> "snapshot", seq |-> seq, depth |-> depth, at |-> 0]
Delta(seq, prev, levels) ==
    [type |-> "delta", seq |-> seq, prev |-> prev, levels |-> levels, at |-> 0]
Control == [type |-> "control"]     \* subscription acks and pongs: no event

Snapshots == [type : {"snapshot"}, seq : Nat, depth : Depths, at : Nat]
Deltas == [type : {"delta"}, seq : Nat, prev : Nat, levels : SUBSET Levels, at : Nat]
Events == Snapshots \cup Deltas
Frames == Events \cup {Control}

\* The book of the venue starts at sequence number 1, ours empty at 0.
Init ==
    /\ vseq = 1
    /\ image = [s \in {1} |-> [l \in Levels |-> 1]]
    /\ conn = "down" /\ wire = <<>>
    /\ resync = FALSE
    /\ raw = <<>> /\ ingest = "idle" /\ queue = <<>>
    /\ tracker = NewTracker /\ book = NewBook /\ anchor = 0
    /\ now = 0 /\ sweep = NoSweep
    /\ faults = 0

Fault(kind) ==
    /\ kind \in FaultKinds
    /\ faults < MaxFaults
    /\ faults' = faults + 1

-----------------------------------------------------------------------------
(* The venue (external), as the adapters' handlers read it. *)

\* What the handler puts into PrevSequence for an update that follows
\* update number last: OKX sends prevSeqId, Binance the first id covered,
\* and for Bybit the handler computes u - 1.
PrevSequence(seq, last) ==
    CASE Venue = "okx"     -> last
      [] Venue = "binance" -> last + 1
      [] OTHER             -> seq - 1

\* The market moves; a streaming session is sent the delta.
VenueUpdate(skip, levels) ==
    /\ vseq + skip <= MaxSeq
    /\ conn = "streaming" => Len(wire) < WireCap
    /\ vseq' = vseq + skip
    /\ image' = [s \in DOMAIN image \cup {vseq + skip} |->
                    IF s = vseq + skip THEN Patch(image[vseq], levels, vseq + skip)
                                       ELSE image[s]]
    /\ wire' = IF conn = "streaming"
               THEN Append(wire, Delta(vseq + skip, PrevSequence(vseq + skip, vseq), levels))
               ELSE wire
    /\ UNCHANGED <<conn, resync, raw, ingest, laneVars, now, sweep, faults>>

\* The answer to a subscription: the current image, then deltas.
VenueSnapshot ==
    /\ conn = "subscribing"
    /\ Len(wire) < WireCap
    /\ wire' = Append(wire, Snapshot(vseq, image[vseq]))
    /\ conn' = "streaming"
    /\ UNCHANGED <<venueVars, resync, raw, ingest, laneVars, now, sweep, faults>>

\* Binance pushes depth20 images throughout the session, on a stream that
\* is not ordered with the deltas.  They are partial: only the levels of top
\* are in them, and which those are depends on prices the model leaves out.
VenueDepth20(seq, top) ==
    /\ UsesBinanceRule(Venue)
    /\ conn = "streaming"
    /\ vseq - seq <= SnapshotLag
    /\ Cardinality(top) <= TopLevels
    /\ Len(wire) < WireCap
    /\ wire' = Append(wire, Snapshot(seq, TopOf(image[seq], top)))
    /\ UNCHANGED <<venueVars, conn, resync, raw, ingest, laneVars, now, sweep, faults>>

\* Acks and answers to the heartbeat.
VenueControl ==
    /\ conn # "down"
    /\ Len(wire) < WireCap
    /\ wire' = Append(wire, Control)
    /\ UNCHANGED <<venueVars, conn, resync, raw, ingest, laneVars, now, sweep, faults>>

\* The venue sends a delta a second time, after newer ones perhaps.
VenueRedeliver(i) ==
    /\ Fault("redeliver")
    /\ Len(wire) < WireCap
    /\ wire[i].type = "delta"
    /\ wire' = Append(wire, wire[i])
    /\ UNCHANGED <<venueVars, conn, resync, raw, ingest, laneVars, now, sweep>>

-----------------------------------------------------------------------------
(* The session: Conn.Run, Conn.session and its read loop. *)

\* Dial and subscribe.  Binance needs no answer: its streams just start.
Connect ==
    /\ conn = "down"
    /\ conn' = IF UsesBinanceRule(Venue) THEN "streaming" ELSE "subscribing"
    /\ UNCHANGED <<venueVars, wire, resync, raw, ingest, laneVars, now, sweep, faults>>

\* The session ends and what the socket still held is gone.
DropSession == conn' = "down" /\ wire' = <<>>

\* A read error or a failed heartbeat.
Disconnect ==
    /\ conn # "down"
    /\ Fault("disconnect")
    /\ DropSession
    /\ UNCHANGED <<venueVars, resync, raw, ingest, laneVars, now, sweep>>


\* The pending resync request is seen after a frame was read: that frame is
\* lost with the session.
ReadResync ==
    /\ wire # <<>> /\ resync
    /\ resync' = FALSE
    /\ DropSession
    /\ UNCHANGED <<venueVars, raw, ingest, laneVars, now, sweep, faults>>

\* The handler has no event for the frame.
ReadControl ==
    /\ wire # <<>> /\ ~resync
    /\ Head(wire) = Control
    /\ wire' = Tail(wire)
    /\ UNCHANGED <<venueVars, conn, resync, raw, ingest, laneVars, now, sweep, faults>>

\* The handler cannot parse the frame: it is skipped and the session goes on.
ReadMalformed ==
    /\ wire # <<>> /\ ~resync
    /\ Fault("malformed")
    /\ wire' = Tail(wire)
    /\ UNCHANGED <<venueVars, conn, resync, raw, ingest, laneVars, now, sweep>>

\* Faulty: makes an event of every frame.
ReadEventOfControl ==
    /\ wire # <<>> /\ ~resync
    /\ wire' = Tail(wire)
    /\ raw' = IF Len(raw) < RawCap THEN Append(raw, Head(wire)) ELSE raw
    /\ UNCHANGED <<venueVars, conn, resync, ingest, laneVars, now, sweep, faults>>

\* The event is stamped with the receive time and sent to the raw channel;
\* when that is full the select's default branch loses it.
ReadEvent ==
    /\ wire # <<>> /\ ~resync
    /\ Head(wire) # Control
    /\ wire' = Tail(wire)
    /\ raw' = IF Len(raw) < RawCap THEN Append(raw, [Head(wire) EXCEPT !.at = now]) ELSE raw
    /\ UNCHANGED <<venueVars, conn, resync, ingest, laneVars, now, sweep, faults>>

\* RequestResync: a token is already there, or is put there.
RequestResync == resync' = TRUE

\* The session is shared: another symbol's lane asks for a resync.
OtherLaneResync ==
    /\ Fault("other_lane")
    /\ RequestResync
    /\ UNCHANGED <<venueVars, sessionVars, raw, ingest, laneVars, now, sweep>>

-----------------------------------------------------------------------------
(* Ingest and Submit, on the fan-in goroutine. *)

\* Faulty: a full lane loses the event and nothing follows.
SubmitDrops ==
    /\ ingest = "idle" /\ raw # <<>>
    /\ raw' = Tail(raw)
    /\ queue' = IF Len(queue) < QueueSize THEN Append(queue, Head(raw)) ELSE queue
    /\ UNCHANGED <<venueVars, sessionVars, ingest, resync, tracker, book, anchor, now, sweep, faults>>

\* The select of Submit: enqueue, or find the lane full.
Submit ==
    /\ ingest = "idle" /\ raw # <<>>
    /\ raw' = Tail(raw)
    /\ IF Len(queue) < QueueSize
       THEN queue' = Append(queue, Head(raw)) /\ UNCHANGED ingest
       ELSE ingest' = "overload" /\ UNCHANGED queue
    /\ UNCHANGED <<venueVars, sessionVars, resync, tracker, book, anchor, now, sweep, faults>>

\* The overload branch, once it has the lane's mutex.  The event is dropped.
SubmitInvalidate ==
    /\ ingest = "overload"
    /\ ingest' = "request"
    /\ book' = Invalidate(book)
    /\ UNCHANGED <<venueVars, sessionVars, resync, raw, queue, tracker, anchor, now, sweep, faults>>

\* Faulty: invalidates and never asks for the resync.
SubmitRequestForgets ==
    /\ ingest = "request"
    /\ ingest' = "idle"
    /\ UNCHANGED <<venueVars, sessionVars, resync, raw, laneVars, now, sweep, faults>>

\* ... and after the mutex is released.
SubmitRequest ==
    /\ ingest = "request"
    /\ ingest' = "idle"
    /\ RequestResync
    /\ UNCHANGED <<venueVars, sessionVars, raw, laneVars, now, sweep, faults>>

-----------------------------------------------------------------------------
(* The lane goroutine: apply runs under the lane's mutex. *)

ApplySnapshotEvent(s) ==
    /\ tracker' = OnSnapshot(Venue, tracker, s.seq)
    /\ book' = MarkStale(LoadSnapshot(book, s), FALSE)
    /\ anchor' = s.seq
    /\ UNCHANGED resync

ApplyDeltaEvent(d) ==
    LET v == Check(Venue, tracker, d) IN
    /\ tracker' = Advance(Venue, tracker, d)
    /\ book' = CASE v = "apply"                   -> MarkStale(ApplyDelta(book, d), FALSE)
                 [] v \in {"gap", "need_snapshot"} -> Invalidate(book)
                 [] OTHER                          -> book
    /\ IF v \in {"gap", "need_snapshot"} THEN RequestResync ELSE UNCHANGED resync
    /\ UNCHANGED anchor

Apply ==
    /\ queue # <<>>
    /\ queue' = Tail(queue)
    /\ \/ Head(queue).type = "snapshot" /\ ApplySnapshotEvent(Head(queue))
       \/ Head(queue).type = "delta" /\ ApplyDeltaEvent(Head(queue))
    /\ UNCHANGED <<venueVars, sessionVars, raw, ingest, now, sweep, faults>>

-----------------------------------------------------------------------------
(* The sweeper samples the clock before it waits for the lane's mutex. *)

Tick ==
    /\ now < MaxTime
    /\ now' = now + 1
    /\ UNCHANGED <<venueVars, sessionVars, resync, raw, ingest, laneVars, sweep, faults>>

SweepSample ==
    /\ sweep = NoSweep
    /\ sweep' = now
    /\ UNCHANGED <<venueVars, sessionVars, resync, raw, ingest, laneVars, now, faults>>

\* Faulty: looks only at the books nobody may read.
SweepMarkUnready ==
    /\ sweep # NoSweep
    /\ sweep' = NoSweep
    /\ book' = IF ~book.ready THEN MarkStale(book, sweep - book.at > MaxBookAge) ELSE book
    /\ UNCHANGED <<venueVars, sessionVars, resync, raw, ingest, queue, tracker, anchor, now, faults>>

SweepMark ==
    /\ sweep # NoSweep
    /\ sweep' = NoSweep
    /\ book' = IF book.ready THEN MarkStale(book, sweep - book.at > MaxBookAge) ELSE book
    /\ UNCHANGED <<venueVars, sessionVars, resync, raw, ingest, queue, tracker, anchor, now, faults>>

-----------------------------------------------------------------------------
VenueNext ==
    \/ \E skip \in Skips, levels \in SUBSET Levels : VenueUpdate(skip, levels)
    \/ VenueSnapshot
    \/ \E seq \in DOMAIN image, top \in SUBSET Levels : VenueDepth20(seq, top)
    \/ VenueControl
    \/ \E i \in DOMAIN wire : VenueRedeliver(i)

SessionNext ==
    \/ Connect \/ Disconnect
    \/ ReadResync \/ ReadControl \/ ReadMalformed \/ ReadEvent
    \/ OtherLaneResync

PipelineNext ==
    \/ Submit \/ SubmitInvalidate \/ SubmitRequest
    \/ Apply
    \/ Tick \/ SweepSample \/ SweepMark

Next == VenueNext \/ SessionNext \/ PipelineNext

Spec == Init /\ [][Next]_vars

\* The goroutines keep running, the reconnect loop never gives up, a venue
\* answers the heartbeat and, however busy the socket, a subscription;
\* nothing obliges the market to move, the clock to tick or a fault to happen.
Fairness ==
    /\ SF_vars(VenueSnapshot) /\ WF_vars(VenueControl) /\ WF_vars(Connect)
    /\ WF_vars(ReadResync \/ ReadControl \/ ReadEvent)
    /\ WF_vars(Submit) /\ WF_vars(SubmitInvalidate) /\ WF_vars(SubmitRequest)
    /\ WF_vars(Apply)
    /\ WF_vars(SweepSample) /\ WF_vars(SweepMark)

FairSpec == Spec /\ Fairness
-----------------------------------------------------------------------------
(* Properties. *)

Sessions == {"down", "subscribing", "streaming"}

\* Every variable has its type.
TypeOK ==
    /\ vseq \in DOMAIN image
    /\ DOMAIN image \subseteq Nat /\ image \in [DOMAIN image -> Depths]
    /\ conn \in Sessions
    /\ wire \in Seq(Frames)
    /\ resync \in BOOLEAN
    /\ raw \in Seq(Events)
    /\ ingest \in {"idle", "overload", "request"}
    /\ queue \in Seq(Events)
    /\ tracker \in [ready : BOOLEAN, lastSeq : Nat]
    /\ book \in [ready : BOOLEAN, stale : BOOLEAN, seq : Nat, at : Nat, depth : Depths]
    /\ anchor \in Nat
    /\ now \in Nat
    /\ sweep \in Nat \cup {NoSweep}
    /\ faults \in Nat

\* On OKX and Bybit a book that readers may trade on is, level by level, the
\* venue's own book at the sequence number the view carries, however many
\* frames were lost, refused or repeated on the way and however often the
\* session dropped (tracker.Check guarding Book.ApplyDelta in Pipeline.apply).
ReadyBookIsVenueImage ==
    book.ready => book.seq \in DOMAIN image /\ book.depth = image[book.seq]

\* Every level of the depth is the venue's at number seq or, on the venue
\* with partial snapshots, was left out of the one numbered from and has not
\* been touched since.
LacksOnlyDepth(depth, from, seq) ==
    \A l \in Levels :
        \/ depth[l] = image[seq][l]
        \/ UsesBinanceRule(Venue) /\ depth[l] = 0 /\ image[seq][l] = image[from][l]

\* A ready book holds no level the venue has since replaced: what it lacks is
\* only what the last partial depth20 image left out and no update has named
\* since (BinanceTracker.Check over a book that LoadSnapshot cut down).
ReadyBookLacksOnlyDepth ==
    book.ready => /\ {anchor, book.seq} \subseteq DOMAIN image
                  /\ LacksOnlyDepth(book.depth, anchor, book.seq)

\* What the readers of the published view rely on.
View == [ready |-> book.ready, seq |-> book.seq, depth |-> book.depth, anchor |-> anchor]

Contract == INSTANCE BookContract WITH view <- View, Partial <- UsesBinanceRule(Venue)

\* The lane implements the contract of a published view: withdrawn, or the
\* venue's image, for Binance less what its depth20 image left out, and never
\* an older image after a newer one, whatever reconnect snapshots, repeats
\* and the overload path put into the queues (Pipeline.apply with everything
\* in front of it).
ImplementsContract == Contract!Spec

\* The inductive form of exactness for the venues whose tracker follows the
\* chain of sequence numbers (OKX and Bybit): messages still on the way are
\* pieces of the venue's history, and a ready tracker stands exactly where
\* the depth does, whether or not the book is ready.
FollowsFrom(hist, d, last) ==
    /\ last \in DOMAIN hist /\ last < d.seq
    /\ \A s \in DOMAIN hist : s <= last \/ s >= d.seq
    /\ hist[d.seq] = Patch(hist[last], d.levels, d.seq)
    /\ d.prev = PrevSequence(d.seq, last)

Genuine(hist, m) ==
    /\ m.type # "control" => m.seq \in DOMAIN hist
    /\ m.type = "snapshot" => \A l \in Levels : m.depth[l] \in {0, hist[m.seq][l]}
    /\ m.type = "snapshot" /\ ~UsesBinanceRule(Venue) => m.depth = hist[m.seq]
    /\ m.type = "delta" => \E last \in DOMAIN hist : FollowsFrom(hist, m, last)

AllGenuine(hist, q) == \A i \in DOMAIN q : Genuine(hist, q[i])

HistoryIsGenuine ==
    /\ \A s \in DOMAIN image : s <= vseq
    /\ AllGenuine(image, wire) /\ AllGenuine(image, raw) /\ AllGenuine(image, queue)

TrackerHoldsImage ==
    /\ book.ready => tracker.ready
    /\ tracker.ready => /\ tracker.lastSeq \in DOMAIN image
                        /\ book.seq = tracker.lastSeq
                        /\ book.depth = image[book.seq]

ChainInv == TypeOK /\ HistoryIsGenuine /\ TrackerHoldsImage

\* Nothing is on its way to the book and no repair is pending.
Quiet ==
    /\ conn = "streaming" /\ wire = <<>> /\ ~resync
    /\ raw = <<>> /\ ingest = "idle" /\ queue = <<>>

\* When everything the venue sent has been dealt with, a ready book is the
\* venue's current book: no update was lost without the book being
\* invalidated and a resync being under way (the overload and gap paths of
\* pipeline.go, "deltas are never silently dropped while continuing to
\* trade").
QuietReadyBookIsCurrent == Quiet /\ book.ready => book.seq = vseq

\* An invalid book has its repair on the way, or the venue's next delta will
\* ask for one: it never sits invalid beside a tracker that accepts every
\* further delta, for then nothing requests a snapshot again ("instead of
\* permanent invalidation", Book.Invalidate against tracker.Check).
InvalidBookIsRepairable == Quiet /\ ~book.ready => tracker.lastSeq # vseq

\* The lane takes an event that the tracker accepts.
AppliesEvent ==
    /\ queue # <<>> /\ queue' = Tail(queue)
    /\ Head(queue).type = "snapshot" \/ Check(Venue, tracker, Head(queue)) = "apply"

\* A stale mark is lifted only by a snapshot or a delta that chains, never by
\* the sweeper's delayed clock sample, by an invalidation, or by a delta found
\* to be a duplicate or past a gap ("only via valid sequencing",
\* Pipeline.sweepStale and Submit against Pipeline.apply).
StaleLiftedOnlyByEvent == [][book.stale /\ ~book'.stale => AppliesEvent]_vars


\* A ready book whose last update is older than MaxBookAge is marked stale,
\* unless an event or an invalidation comes first (Pipeline.sweepStale).
AgedBookIsMarked ==
    (book.ready /\ now - book.at > MaxBookAge)
        ~> (book.stale \/ ~book.ready \/ now - book.at <= MaxBookAge)
=============================================================================
