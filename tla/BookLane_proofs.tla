--------------------------- MODULE BookLane_proofs --------------------------
(***************************************************************************)
(* For every value of the constants of BookLane: type correctness; for the *)
(* venues with a chain tracker, that the book is the venue's image at the  *)
(* tracker's number; and what lifts a stale mark.                          *)
(***************************************************************************)
EXTENDS BookLane, SequenceFacts, TLAPS

\* Stamping an event with its receive time keeps everything else.
LEMMA StampFacts ==
    ASSUME NEW e \in Events, NEW t \in Nat
    PROVE  /\ [e EXCEPT !.at = t] \in Events
           /\ [e EXCEPT !.at = t].type = e.type
           /\ [e EXCEPT !.at = t].seq = e.seq
           /\ e.type = "snapshot" => [e EXCEPT !.at = t].depth = e.depth
           /\ e.type = "delta" => /\ [e EXCEPT !.at = t].prev = e.prev
                                  /\ [e EXCEPT !.at = t].levels = e.levels
  <1>1. CASE e \in Snapshots  BY <1>1 DEF Snapshots, Events
  <1>2. CASE e \in Deltas  BY <1>2 DEF Deltas, Events
  <1> QED  BY <1>1, <1>2 DEF Events

\* A patched depth is a depth, and so is what is left of one.
LEMMA PatchType ==
    ASSUME NEW d \in Depths, NEW levels, NEW seq \in Nat
    PROVE  Patch(d, levels, seq) \in Depths /\ TopOf(d, levels) \in Depths
  BY DEF Patch, TopOf, Depths
-----------------------------------------------------------------------------
(* Type correctness. *)

\* What a frame of each kind looks like once it has been typed.
LEMMA FrameTypes ==
    /\ \A seq \in Nat, depth \in Depths : Snapshot(seq, depth) \in Frames
    /\ \A seq \in Nat, prev \in Nat, levels \in SUBSET Levels :
          Delta(seq, prev, levels) \in Frames
    /\ Control \in Frames
    /\ \A m \in Frames : m # Control => m \in Events
    /\ \A m \in Events : /\ m.type = "snapshot" => m \in Snapshots
                         /\ m.type = "delta" => m \in Deltas
                         /\ m.type \in {"snapshot", "delta"}
  BY DEF Frames, Events, Snapshots, Deltas, Snapshot, Delta, Control

\* The empty pipeline is well typed.
LEMMA InitType == Init => TypeOK
  <1> SUFFICES ASSUME Init PROVE TypeOK
    OBVIOUS
  <1>1. image \in [DOMAIN image -> Depths] /\ DOMAIN image = {1} /\ vseq \in DOMAIN image
    BY DEF Init, Depths
  <1>2. book \in [ready : BOOLEAN, stale : BOOLEAN, seq : Nat, at : Nat, depth : Depths]
    BY DEF Init, NewBook, EmptyDepth, Depths
  <1>3. tracker \in [ready : BOOLEAN, lastSeq : Nat]
    BY DEF Init, NewTracker
  <1>4. /\ wire \in Seq(Frames) /\ raw \in Seq(Events) /\ queue \in Seq(Events)
        /\ now \in Nat /\ faults \in Nat /\ sweep \in Nat \cup {NoSweep}
        /\ anchor \in Nat
    BY DEF Init
  <1>5. conn \in Sessions /\ ingest \in {"idle", "overload", "request"} /\ resync \in BOOLEAN
    BY DEF Init, Sessions
  <1> QED  BY <1>1, <1>2, <1>3, <1>4, <1>5 DEF TypeOK

\* The venue's steps.
LEMMA VenueType == TypeOK /\ VenueNext => TypeOK'
  <1> SUFFICES ASSUME TypeOK, VenueNext PROVE TypeOK'
    OBVIOUS
  <1> USE LaneAssumption
  <1>0. vseq \in Nat /\ image[vseq] \in Depths
    BY DEF TypeOK
  <1>1. ASSUME NEW skip \in Skips, NEW levels \in SUBSET Levels, VenueUpdate(skip, levels)
        PROVE  TypeOK'
    <2> DEFINE s == vseq + skip
    <2>1. s \in Nat /\ s >= 1
      BY <1>0
    <2>2. image' \in [DOMAIN image' -> Depths] /\ DOMAIN image' \subseteq Nat /\ vseq' \in DOMAIN image'
      BY <1>0, <1>1, <2>1, PatchType DEF VenueUpdate, TypeOK
    <2>3. PrevSequence(s, vseq) \in Nat
      BY <1>0, <2>1 DEF PrevSequence
    <2>4. Delta(s, PrevSequence(s, vseq), levels) \in Frames
      BY <2>1, <2>3, FrameTypes
    <2>5. wire' \in Seq(Frames)
      BY <1>1, <2>4, AppendFacts DEF VenueUpdate, TypeOK
    <2> QED  BY <1>1, <2>2, <2>5 DEF VenueUpdate, TypeOK, laneVars
  <1>2. CASE VenueSnapshot
    <2>1. wire' \in Seq(Frames)
      BY <1>0, <1>2, FrameTypes, AppendFacts DEF VenueSnapshot, TypeOK
    <2> QED  BY <1>2, <2>1 DEF VenueSnapshot, TypeOK, laneVars, venueVars, Sessions
  <1>3. ASSUME NEW seq \in DOMAIN image, NEW top \in SUBSET Levels, VenueDepth20(seq, top)
        PROVE  TypeOK'
    <2>1. seq \in Nat /\ TopOf(image[seq], top) \in Depths
      BY PatchType DEF TypeOK
    <2>2. wire' \in Seq(Frames)
      BY <1>3, <2>1, FrameTypes, AppendFacts DEF VenueDepth20, TypeOK
    <2> QED  BY <1>3, <2>2 DEF VenueDepth20, TypeOK, laneVars, venueVars
  <1>4. CASE VenueControl
    <2>1. wire' \in Seq(Frames)
      BY <1>4, FrameTypes, AppendFacts DEF VenueControl, TypeOK
    <2> QED  BY <1>4, <2>1 DEF VenueControl, TypeOK, laneVars, venueVars
  <1>5. ASSUME NEW i \in DOMAIN wire, VenueRedeliver(i)
        PROVE  TypeOK'
    <2>1. wire[i] \in Frames
      BY <1>5 DEF VenueRedeliver, TypeOK
    <2>2. wire' \in Seq(Frames)
      BY <1>5, <2>1, AppendFacts DEF VenueRedeliver, TypeOK
    <2>3. faults' \in Nat
      <3>1. faults' = faults + 1
        BY <1>5 DEF VenueRedeliver, Fault
      <3>2. faults \in Nat
        BY DEF TypeOK
      <3> QED  BY <3>1, <3>2
    <2>4. UNCHANGED <<venueVars, conn, resync, raw, ingest, laneVars, now, sweep>>
      BY <1>5 DEF VenueRedeliver
    <2> QED  BY <2>2, <2>3, <2>4 DEF TypeOK, laneVars, venueVars
  <1> QED  BY <1>1, <1>2, <1>3, <1>4, <1>5 DEF VenueNext

\* The steps of the session and its read loop.
LEMMA SessionType == TypeOK /\ SessionNext => TypeOK'
  <1> SUFFICES ASSUME TypeOK, SessionNext PROVE TypeOK'
    OBVIOUS
  <1>1. CASE Connect
    BY <1>1 DEF Connect, TypeOK, laneVars, venueVars, Sessions
  <1>2. CASE Disconnect
    BY <1>2 DEF Disconnect, DropSession, Fault, TypeOK, laneVars, venueVars, Sessions
  <1>3. CASE ReadResync
    <2>1. wire' \in Seq(Frames) /\ conn' \in Sessions
      BY <1>3 DEF ReadResync, DropSession, Sessions
    <2>2. resync' \in BOOLEAN
      BY <1>3 DEF ReadResync
    <2> QED  BY <1>3, <2>1, <2>2 DEF ReadResync, TypeOK, laneVars, venueVars
  <1>4. CASE ReadControl
    BY <1>4, TailFacts DEF ReadControl, TypeOK, laneVars, venueVars
  <1>5. CASE ReadMalformed
    BY <1>5, TailFacts DEF ReadMalformed, Fault, TypeOK, laneVars, venueVars
  <1>6. CASE ReadEvent
    <2>1. Head(wire) \in Events /\ wire' \in Seq(Frames)
      BY <1>6, TailFacts, FrameTypes DEF ReadEvent, TypeOK
    <2>2. [Head(wire) EXCEPT !.at = now] \in Events
      BY <2>1, StampFacts DEF TypeOK
    <2>3. raw' \in Seq(Events)
      BY <1>6, <2>2, AppendFacts DEF ReadEvent, TypeOK
    <2> QED  BY <1>6, <2>1, <2>3 DEF ReadEvent, TypeOK, laneVars, venueVars
  <1>7. CASE OtherLaneResync
    BY <1>7 DEF OtherLaneResync, Fault, RequestResync, TypeOK, laneVars, venueVars, sessionVars
  <1> QED  BY <1>1, <1>2, <1>3, <1>4, <1>5, <1>6, <1>7 DEF SessionNext
\* The tracker operators and the book operators return values of their types.
LEMMA TrackerTypes ==
    ASSUME NEW t \in [ready : BOOLEAN, lastSeq : Nat], NEW seq \in Nat, NEW d \in Deltas
    PROVE  /\ OnSnapshot(Venue, t, seq) \in [ready : BOOLEAN, lastSeq : Nat]
           /\ Advance(Venue, t, d) \in [ready : BOOLEAN, lastSeq : Nat]
  <1>1. OnSnapshot(Venue, t, seq) \in [ready : BOOLEAN, lastSeq : Nat]
    BY DEF OnSnapshot, BinanceOnSnapshot, ChainOnSnapshot
  <1>2. d.seq \in Nat
    BY DEF Deltas
  <1>3. Advance(Venue, t, d) \in [ready : BOOLEAN, lastSeq : Nat]
    BY <1>2 DEF Advance
  <1> QED  BY <1>1, <1>3

Books == [ready : BOOLEAN, stale : BOOLEAN, seq : Nat, at : Nat, depth : Depths]

\* Book.ApplyDelta keeps the book's type.
LEMMA ApplyDeltaType ==
    ASSUME NEW b \in Books, NEW d \in Deltas
    PROVE  ApplyDelta(b, d) \in Books
  <1>1. d.seq \in Nat /\ d.at \in Nat /\ b.depth \in Depths
    BY DEF Deltas, Books
  <1>2. Patch(b.depth, d.levels, d.seq) \in Depths
    BY <1>1, PatchType
  <1> QED  BY <1>1, <1>2 DEF ApplyDelta, Books

\* So do Invalidate and MarkStale.
LEMMA FlagTypes ==
    ASSUME NEW b \in Books, NEW flag \in BOOLEAN
    PROVE  MarkStale(b, flag) \in Books /\ Invalidate(b) \in Books
  BY DEF MarkStale, Invalidate, Books

\* The steps of the fan-in goroutine, the lane and the sweeper.
LEMMA PipelineType == TypeOK /\ PipelineNext => TypeOK'
  <1> SUFFICES ASSUME TypeOK, PipelineNext PROVE TypeOK'
    OBVIOUS
  <1>0. book \in Books
    BY DEF TypeOK, Books
  <1>1. CASE Submit
    <2>1. Head(raw) \in Events /\ raw' \in Seq(Events)
      BY <1>1, TailFacts DEF Submit, TypeOK
    <2>2. queue' \in Seq(Events) /\ ingest' \in {"idle", "overload", "request"}
      <3>1. Append(queue, Head(raw)) \in Seq(Events)
        BY <2>1, AppendFacts DEF TypeOK
      <3>2. CASE Len(queue) < QueueSize
        BY <1>1, <3>1, <3>2 DEF Submit, TypeOK
      <3>3. CASE ~(Len(queue) < QueueSize)
        BY <1>1, <3>3 DEF Submit, TypeOK
      <3> QED  BY <3>2, <3>3
    <2> QED  BY <1>1, <2>1, <2>2 DEF Submit, TypeOK, venueVars, sessionVars
  <1>2. CASE SubmitInvalidate
    <2>1. book' \in Books
      BY <1>0, <1>2, FlagTypes DEF SubmitInvalidate
    <2> QED  BY <1>2, <2>1 DEF SubmitInvalidate, TypeOK, Books, venueVars, sessionVars
  <1>3. CASE SubmitRequest
    BY <1>3 DEF SubmitRequest, RequestResync, TypeOK, venueVars, sessionVars, laneVars
  <1>4. CASE Apply
    <2>1. Head(queue) \in Events /\ queue' \in Seq(Events)
      BY <1>4, TailFacts DEF Apply, TypeOK
    <2>2. CASE Head(queue).type = "snapshot" /\ ApplySnapshotEvent(Head(queue))
      <3>1. Head(queue) \in Snapshots
        BY <2>1, <2>2, FrameTypes
      <3>2. LoadSnapshot(book, Head(queue)) \in Books
        BY <3>1 DEF LoadSnapshot, Books, Snapshots
      <3>3. book' \in Books
        BY <2>2, <3>2, FlagTypes DEF ApplySnapshotEvent
      <3>4. tracker' \in [ready : BOOLEAN, lastSeq : Nat]
        BY <2>2, <3>1 DEF ApplySnapshotEvent, OnSnapshot, BinanceOnSnapshot,
                          ChainOnSnapshot, Snapshots, TypeOK
      <3>5. resync' \in BOOLEAN /\ anchor' \in Nat
        BY <2>2, <3>1 DEF ApplySnapshotEvent, TypeOK, Snapshots
      <3> QED  BY <1>4, <2>1, <3>3, <3>4, <3>5 DEF Apply, TypeOK, Books, venueVars, sessionVars
    <2>3. CASE Head(queue).type = "delta" /\ ApplyDeltaEvent(Head(queue))
      <3>1. Head(queue) \in Deltas
        BY <2>1, <2>3, FrameTypes
      <3>2. ApplyDelta(book, Head(queue)) \in Books
        BY <1>0, <3>1, ApplyDeltaType
      <3>3. /\ MarkStale(ApplyDelta(book, Head(queue)), FALSE) \in Books
            /\ Invalidate(book) \in Books
        BY <1>0, <3>2, FlagTypes
      <3>4. book' \in Books
        BY <1>0, <2>3, <3>3 DEF ApplyDeltaEvent
      <3>5. tracker' \in [ready : BOOLEAN, lastSeq : Nat]
        BY <2>3, <3>1, TrackerTypes DEF ApplyDeltaEvent, TypeOK
      <3>6. resync' \in BOOLEAN /\ anchor' \in Nat
        BY <2>3 DEF ApplyDeltaEvent, RequestResync, TypeOK
      <3> QED  BY <1>4, <2>1, <3>4, <3>5, <3>6 DEF Apply, TypeOK, Books, venueVars, sessionVars
    <2> QED  BY <1>4, <2>2, <2>3 DEF Apply
  <1>5. CASE Tick
    BY <1>5 DEF Tick, TypeOK, venueVars, sessionVars, laneVars
  <1>6. CASE SweepSample
    BY <1>6 DEF SweepSample, TypeOK, venueVars, sessionVars, laneVars
  <1>7. CASE SweepMark
    <2>1. book' \in Books
      <3>1. (sweep - book.at > MaxBookAge) \in BOOLEAN
        OBVIOUS
      <3>2. MarkStale(book, sweep - book.at > MaxBookAge) \in Books
        BY <1>0, <3>1, FlagTypes
      <3> QED  BY <1>0, <1>7, <3>2 DEF SweepMark
    <2>2. sweep' \in Nat \cup {NoSweep}
      BY <1>7 DEF SweepMark
    <2> QED  BY <1>7, <2>1, <2>2 DEF SweepMark, TypeOK, Books, venueVars, sessionVars
  <1> QED  BY <1>1, <1>2, <1>3, <1>4, <1>5, <1>6, <1>7 DEF PipelineNext

\* Every step of the lane keeps the types.
LEMMA NextType == TypeOK /\ [Next]_vars => TypeOK'
  <1>1. TypeOK /\ UNCHANGED vars => TypeOK'
    BY DEF TypeOK, vars
  <1> QED  BY <1>1, VenueType, SessionType, PipelineType DEF Next

\* BookLane is type correct, whatever the venue, the capacities and the faults.
THEOREM TypeCorrect == Spec => []TypeOK
  BY InitType, NextType, PTL DEF Spec
-----------------------------------------------------------------------------
(* A ready book is the venue's image, for the chain trackers.              *)
(*                                                                         *)
(* ReadyBookIsVenueImage is not inductive: an accepted delta keeps the     *)
(* depth an image only if the depth was the image the delta builds on.     *)
(* HistoryIsGenuine says which image that is, for every message on the     *)
(* way; TrackerHoldsImage, which also covers invalid books, says the depth *)
(* is that image whenever the tracker accepts.                             *)

\* A step of the venue only adds to its history, above everything in it.
LEMMA HistoryGrows ==
    ASSUME TypeOK, HistoryIsGenuine,
           NEW skip \in Skips, NEW levels \in SUBSET Levels, VenueUpdate(skip, levels)
    PROVE  /\ vseq + skip \in Nat /\ vseq < vseq + skip
           /\ DOMAIN image' = DOMAIN image \cup {vseq + skip}
           /\ \A s \in DOMAIN image : s < vseq + skip /\ image'[s] = image[s]
           /\ image'[vseq + skip] = Patch(image[vseq], levels, vseq + skip)
           /\ vseq' = vseq + skip
  <1>1. vseq \in Nat /\ skip \in Nat \ {0}
    BY LaneAssumption DEF TypeOK
  <1>2. \A s \in DOMAIN image : s \in Nat /\ s <= vseq
    BY DEF TypeOK, HistoryIsGenuine
  <1>3. \A s \in DOMAIN image : s < vseq + skip
    BY <1>1, <1>2
  <1>4. /\ DOMAIN image' = DOMAIN image \cup {vseq + skip}
        /\ \A s \in DOMAIN image' : image'[s] =
              IF s = vseq + skip THEN Patch(image[vseq], levels, vseq + skip) ELSE image[s]
    BY DEF VenueUpdate
  <1>5. \A s \in DOMAIN image : image'[s] = image[s]
    BY <1>1, <1>2, <1>3, <1>4
  <1> QED  BY <1>1, <1>3, <1>4, <1>5 DEF VenueUpdate

\* What was genuine stays genuine when the venue moves on.
LEMMA GenuineStays ==
    ASSUME NEW h, NEW h2, NEW new \in Nat,
           DOMAIN h \subseteq Nat, DOMAIN h2 = DOMAIN h \cup {new},
           \A s \in DOMAIN h : s < new /\ h2[s] = h[s],
           NEW m, Genuine(h, m)
    PROVE  Genuine(h2, m)
  <1>1. ASSUME m.type = "delta" PROVE \E last \in DOMAIN h2 : FollowsFrom(h2, m, last)
    <2>1. PICK last \in DOMAIN h : FollowsFrom(h, m, last)
      BY <1>1 DEF Genuine
    <2>2. m.seq \in DOMAIN h
      BY <1>1 DEF Genuine
    <2>3. FollowsFrom(h2, m, last)
      BY <2>1, <2>2 DEF FollowsFrom
    <2> QED  BY <2>3
  <1> QED  BY <1>1 DEF Genuine

\* A channel of genuine messages stays one when it is read or written.
LEMMA ChannelStaysGenuine ==
    ASSUME NEW h, NEW S, NEW q \in Seq(S), AllGenuine(h, q)
    PROVE  /\ \A e \in S : Genuine(h, e) => AllGenuine(h, Append(q, e))
           /\ q # <<>> => Genuine(h, Head(q)) /\ AllGenuine(h, Tail(q))
  <1>1. ASSUME NEW e \in S, Genuine(h, e) PROVE AllGenuine(h, Append(q, e))
    BY <1>1, AppendFacts DEF AllGenuine
  <1>2. ASSUME q # <<>> PROVE Genuine(h, Head(q)) /\ AllGenuine(h, Tail(q))
    BY <1>2, TailFacts DEF AllGenuine
  <1> QED  BY <1>1, <1>2

\* The delta the venue sends is genuine in the history it has just extended.
LEMMA NewDeltaIsGenuine ==
    ASSUME TypeOK, HistoryIsGenuine,
           NEW skip \in Skips, NEW levels \in SUBSET Levels, VenueUpdate(skip, levels)
    PROVE  /\ Delta(vseq + skip, PrevSequence(vseq + skip, vseq), levels) \in Frames
           /\ Genuine(image', Delta(vseq + skip, PrevSequence(vseq + skip, vseq), levels))
  <1> DEFINE s == vseq + skip
             d == Delta(s, PrevSequence(s, vseq), levels)
  <1>1. /\ s \in Nat /\ vseq < s
        /\ DOMAIN image' = DOMAIN image \cup {s}
        /\ \A x \in DOMAIN image : x < s /\ image'[x] = image[x]
        /\ image'[s] = Patch(image[vseq], levels, s)
    BY HistoryGrows
  <1>2. d.type = "delta" /\ d.seq = s /\ d.levels = levels /\ d.prev = PrevSequence(s, vseq)
    BY DEF Delta
  <1>3. PrevSequence(s, vseq) \in {vseq, vseq + 1, s - 1}
    BY DEF PrevSequence
  <1>4. vseq \in DOMAIN image /\ \A x \in DOMAIN image : x \in Nat /\ x <= vseq
    BY DEF TypeOK, HistoryIsGenuine
  <1>5. d \in Frames
    BY <1>1, <1>3, <1>4, FrameTypes
  <1> HIDE DEF d, s
  <1>6. FollowsFrom(image', d, vseq)
    BY <1>1, <1>2, <1>3, <1>4 DEF FollowsFrom
  <1>7. Genuine(image', d)
    BY <1>1, <1>2, <1>4, <1>6 DEF Genuine
  <1> QED  BY <1>5, <1>7 DEF d, s

\* Every message on the way is a piece of the venue's history.
LEMMA GenuineStep ==
    ASSUME TypeOK, HistoryIsGenuine, Next
    PROVE  HistoryIsGenuine'
  <1>0. /\ wire \in Seq(Frames) /\ raw \in Seq(Events) /\ queue \in Seq(Events)
        /\ AllGenuine(image, wire) /\ AllGenuine(image, raw) /\ AllGenuine(image, queue)
        /\ \A s \in DOMAIN image : s <= vseq
    BY DEF TypeOK, HistoryIsGenuine
  <1>1. ASSUME NEW skip \in Skips, NEW levels \in SUBSET Levels, VenueUpdate(skip, levels)
        PROVE  HistoryIsGenuine'
    <2> DEFINE d == Delta(vseq + skip, PrevSequence(vseq + skip, vseq), levels)
    <2>0. /\ vseq + skip \in Nat /\ vseq' = vseq + skip
          /\ DOMAIN image' = DOMAIN image \cup {vseq + skip}
          /\ \A s \in DOMAIN image : s < vseq + skip /\ image'[s] = image[s]
      BY <1>1, HistoryGrows
    <2>1. \A x \in DOMAIN image' : x <= vseq'
      <3>1. DOMAIN image \subseteq Nat
        BY DEF TypeOK
      <3> QED  BY <2>0, <3>1
    <2>2. \A m : Genuine(image, m) => Genuine(image', m)
      <3>1. DOMAIN image \subseteq Nat
        BY DEF TypeOK
      <3> QED  BY <2>0, <3>1, GenuineStays
    <2>3. AllGenuine(image', wire) /\ AllGenuine(image', raw) /\ AllGenuine(image', queue)
      BY <1>0, <2>2 DEF AllGenuine
    <2>4. d \in Frames /\ Genuine(image', d)
      BY <1>1, NewDeltaIsGenuine
    <2> HIDE DEF d
    <2>5. AllGenuine(image', Append(wire, d))
      BY <1>0, <2>3, <2>4, ChannelStaysGenuine
    <2>6. wire' \in {wire, Append(wire, d)}
      BY <1>1 DEF VenueUpdate, d
    <2> QED  BY <1>1, <2>1, <2>3, <2>5, <2>6 DEF HistoryIsGenuine, VenueUpdate, laneVars
  \* In every other step the history stands still and one channel moves.
  <1>2. ASSUME UNCHANGED <<vseq, image>>,
               AllGenuine(image, wire'), AllGenuine(image, raw'), AllGenuine(image, queue')
        PROVE  HistoryIsGenuine'
    BY <1>0, <1>2 DEF HistoryIsGenuine
  <1>3. ASSUME NEW seq \in DOMAIN image
        PROVE  /\ Snapshot(seq, image[seq]) \in Frames
               /\ Genuine(image, Snapshot(seq, image[seq]))
    <2>1. seq \in Nat /\ image[seq] \in Depths
      BY DEF TypeOK
    <2> QED  BY <2>1, FrameTypes DEF Snapshot, Genuine
  <1>15. ASSUME NEW seq \in DOMAIN image, NEW top \in SUBSET Levels, UsesBinanceRule(Venue)
         PROVE  /\ Snapshot(seq, TopOf(image[seq], top)) \in Frames
                /\ Genuine(image, Snapshot(seq, TopOf(image[seq], top)))
    <2>1. seq \in Nat /\ TopOf(image[seq], top) \in Depths
      BY PatchType DEF TypeOK
    <2>2. \A l \in Levels : TopOf(image[seq], top)[l] \in {0, image[seq][l]}
      BY DEF TopOf
    <2> QED  BY <1>15, <2>1, <2>2, FrameTypes DEF Snapshot, Genuine
  <1>4. Control \in Frames /\ Genuine(image, Control) /\ AllGenuine(image, <<>>)
    BY FrameTypes DEF Control, Genuine, AllGenuine
  <1>5. CASE VenueSnapshot
    <2>1. AllGenuine(image, wire')
      BY <1>0, <1>3, <1>5, ChannelStaysGenuine DEF VenueSnapshot, TypeOK
    <2> QED  BY <1>0, <1>2, <1>5, <2>1 DEF VenueSnapshot, venueVars, laneVars
  <1>6. ASSUME NEW seq \in DOMAIN image, NEW top \in SUBSET Levels, VenueDepth20(seq, top)
        PROVE  HistoryIsGenuine'
    <2>1. AllGenuine(image, wire')
      BY <1>0, <1>6, <1>15, ChannelStaysGenuine DEF VenueDepth20
    <2> QED  BY <1>0, <1>2, <1>6, <2>1 DEF VenueDepth20, venueVars, laneVars
  <1>7. CASE VenueControl
    <2>1. AllGenuine(image, wire')
      BY <1>0, <1>4, <1>7, ChannelStaysGenuine DEF VenueControl
    <2> QED  BY <1>0, <1>2, <1>7, <2>1 DEF VenueControl, venueVars, laneVars
  <1>8. ASSUME NEW i \in DOMAIN wire, VenueRedeliver(i) PROVE HistoryIsGenuine'
    <2>1. wire[i] \in Frames
      BY <1>0, <1>8
    <2>2. AllGenuine(image, wire')
      BY <1>0, <1>8, <2>1, ChannelStaysGenuine DEF VenueRedeliver, AllGenuine
    <2> QED  BY <1>0, <1>2, <1>8, <2>2 DEF VenueRedeliver, venueVars, laneVars
  <1>9. CASE Connect \/ OtherLaneResync \/ SubmitInvalidate \/ SubmitRequest
             \/ Tick \/ SweepSample \/ SweepMark
    BY <1>0, <1>2, <1>9 DEF Connect, OtherLaneResync, SubmitInvalidate, SubmitRequest,
         Tick, SweepSample, SweepMark, venueVars, laneVars, sessionVars
  <1>10. CASE Disconnect \/ ReadResync
    BY <1>0, <1>2, <1>4, <1>10 DEF Disconnect, ReadResync, DropSession, venueVars, laneVars
  <1>11. CASE ReadControl \/ ReadMalformed
    <2>1. AllGenuine(image, wire')
      BY <1>0, <1>11, ChannelStaysGenuine DEF ReadControl, ReadMalformed
    <2> QED  BY <1>0, <1>2, <1>11, <2>1 DEF ReadControl, ReadMalformed, venueVars, laneVars
  <1>12. CASE ReadEvent
    <2> DEFINE e == [Head(wire) EXCEPT !.at = now]
    <2>1. /\ AllGenuine(image, wire') /\ Genuine(image, Head(wire))
          /\ Head(wire) \in Events
      BY <1>0, <1>12, ChannelStaysGenuine, TailFacts, FrameTypes DEF ReadEvent
    <2>2. /\ e \in Events /\ e.type = Head(wire).type /\ e.seq = Head(wire).seq
          /\ e.type = "snapshot" => e.depth = Head(wire).depth
          /\ e.type = "delta" => e.prev = Head(wire).prev /\ e.levels = Head(wire).levels
      BY <2>1, StampFacts DEF TypeOK
    <2>3. raw' \in {raw, Append(raw, e)}
      BY <1>12 DEF ReadEvent
    <2> HIDE DEF e
    <2>4. Genuine(image, e)
      BY <2>1, <2>2 DEF Genuine, FollowsFrom
    <2>5. AllGenuine(image, raw')
      BY <1>0, <2>2, <2>3, <2>4, ChannelStaysGenuine
    <2> QED  BY <1>0, <1>2, <1>12, <2>1, <2>5 DEF ReadEvent, venueVars, laneVars
  <1>13. CASE Submit
    <2>1. AllGenuine(image, raw') /\ Genuine(image, Head(raw)) /\ Head(raw) \in Events
      BY <1>0, <1>13, ChannelStaysGenuine, TailFacts DEF Submit
    <2>2. queue' \in {queue, Append(queue, Head(raw))}
      BY <1>13 DEF Submit
    <2>3. AllGenuine(image, queue')
      BY <1>0, <2>1, <2>2, ChannelStaysGenuine
    <2> QED  BY <1>0, <1>2, <1>13, <2>1, <2>3 DEF Submit, venueVars, sessionVars
  <1>14. CASE Apply
    <2>1. AllGenuine(image, queue')
      BY <1>0, <1>14, ChannelStaysGenuine DEF Apply
    <2> QED  BY <1>0, <1>2, <1>14, <2>1 DEF Apply, venueVars, sessionVars
  <1> QED  BY <1>1, <1>5, <1>6, <1>7, <1>8, <1>9, <1>10, <1>11, <1>12, <1>13, <1>14
              DEF Next, VenueNext, SessionNext, PipelineNext

\* A ready tracker stands where the depth does.  The crux is an accepted
\* delta: the tracker's rule (seq = lastSeq + 1, or prev = lastSeq) leaves
\* lastSeq as the only emitted number the delta can follow.
LEMMA TrackerStep ==
    ASSUME TypeOK, HistoryIsGenuine, TrackerHoldsImage, Venue # "binance", Next
    PROVE  TrackerHoldsImage'
  <1>0. /\ book \in Books /\ tracker \in [ready : BOOLEAN, lastSeq : Nat]
        /\ DOMAIN image \subseteq Nat
        /\ ~UsesBinanceRule(Venue)
    BY DEF TypeOK, Books, UsesBinanceRule
  <1>1. ASSUME NEW skip \in Skips, NEW levels \in SUBSET Levels, VenueUpdate(skip, levels)
        PROVE  TrackerHoldsImage'
    <2>1. /\ DOMAIN image \subseteq DOMAIN image'
          /\ \A s \in DOMAIN image : image'[s] = image[s]
      BY <1>1, HistoryGrows
    <2>2. UNCHANGED <<tracker, book>>
      BY <1>1 DEF VenueUpdate, laneVars
    <2> QED  BY <2>1, <2>2 DEF TrackerHoldsImage
  <1>2. ASSUME image' = image, tracker' = tracker, book'.seq = book.seq,
               book'.depth = book.depth, book'.ready => book.ready
        PROVE  TrackerHoldsImage'
    BY <1>2 DEF TrackerHoldsImage
  <1>3. CASE \/ VenueSnapshot
             \/ \E seq \in DOMAIN image, top \in SUBSET Levels : VenueDepth20(seq, top)
             \/ VenueControl
             \/ \E i \in DOMAIN wire : VenueRedeliver(i)
    BY <1>2, <1>3 DEF VenueSnapshot, VenueDepth20, VenueControl, VenueRedeliver,
                      venueVars, laneVars
  <1>4. CASE SessionNext
    BY <1>2, <1>4 DEF SessionNext, Connect, Disconnect, ReadResync, ReadControl,
         ReadMalformed, ReadEvent, OtherLaneResync, venueVars, laneVars
  <1>5. CASE Submit \/ SubmitRequest \/ Tick \/ SweepSample
    BY <1>2, <1>5 DEF Submit, SubmitRequest, Tick, SweepSample, venueVars, laneVars
  <1>6. CASE SubmitInvalidate
    <2>1. /\ Invalidate(book).seq = book.seq /\ Invalidate(book).depth = book.depth
          /\ ~Invalidate(book).ready
      BY <1>0 DEF Invalidate, Books
    <2> QED  BY <1>2, <1>6, <2>1 DEF SubmitInvalidate, venueVars
  <1>7. CASE SweepMark
    <2>1. \A f : LET b == MarkStale(book, f)
                 IN  b.seq = book.seq /\ b.depth = book.depth /\ b.ready = book.ready
      BY <1>0 DEF MarkStale, Books
    <2> QED  BY <1>2, <1>7, <2>1 DEF SweepMark, venueVars
  <1>8. CASE Apply
    <2> DEFINE e == Head(queue)
    <2>1. e \in Events /\ Genuine(image, e)
      BY <1>8, ChannelStaysGenuine, TailFacts DEF Apply, TypeOK, HistoryIsGenuine
    <2>2. image' = image
      BY <1>8 DEF Apply, venueVars
    <2>3. CASE e.type = "snapshot" /\ ApplySnapshotEvent(e)
      <3>1. e \in Snapshots /\ e.seq \in DOMAIN image /\ e.depth = image[e.seq]
        BY <1>0, <2>1, <2>3, FrameTypes DEF Genuine
      <3>2. tracker' = [ready |-> TRUE, lastSeq |-> e.seq]
        BY <1>0, <2>3 DEF ApplySnapshotEvent, OnSnapshot, ChainOnSnapshot
      <3>3. book'.seq = e.seq /\ book'.depth = e.depth
        BY <2>3 DEF ApplySnapshotEvent, MarkStale, LoadSnapshot
      <3> QED  BY <2>2, <3>1, <3>2, <3>3 DEF TrackerHoldsImage
    <2>4. CASE e.type = "delta" /\ ApplyDeltaEvent(e)
      <3>1. /\ e \in Deltas /\ e.seq \in DOMAIN image /\ e.seq \in Nat
            /\ \E last \in DOMAIN image : FollowsFrom(image, e, last)
        BY <1>0, <2>1, <2>4, FrameTypes DEF Genuine
      <3>2. Check(Venue, tracker, e) = ChainCheck(tracker, e)
        BY <1>0 DEF Check
      <3>3. CASE Check(Venue, tracker, e) = "apply"
        <4>1. /\ tracker.ready /\ e.seq > tracker.lastSeq
              /\ e.seq = tracker.lastSeq + 1 \/ e.prev = tracker.lastSeq
          BY <1>0, <3>1, <3>2, <3>3 DEF ChainCheck
        <4>2. PICK last \in DOMAIN image : FollowsFrom(image, e, last)
          BY <3>1
        <4>3. /\ tracker.lastSeq \in DOMAIN image /\ book.seq = tracker.lastSeq
              /\ book.depth = image[tracker.lastSeq]
          BY <4>1 DEF TrackerHoldsImage
        <4>4. last = tracker.lastSeq
          <5>1. e.prev \in {last, e.seq - 1}
            BY <1>0, <4>2 DEF FollowsFrom, PrevSequence, UsesBinanceRule
          <5> QED  BY <1>0, <3>1, <4>1, <4>2, <4>3, <5>1 DEF FollowsFrom
        <4>5. tracker' = [ready |-> TRUE, lastSeq |-> e.seq]
          BY <2>4, <3>3 DEF ApplyDeltaEvent, Advance
        <4>6. book' = MarkStale(ApplyDelta(book, e), FALSE)
          BY <2>4, <3>3 DEF ApplyDeltaEvent
        <4>7. /\ book'.seq = e.seq
              /\ book'.depth = Patch(book.depth, e.levels, e.seq)
          BY <1>0, <4>6 DEF MarkStale, ApplyDelta, Books
        <4>8. book'.depth = image[e.seq]
          BY <4>2, <4>3, <4>4, <4>7 DEF FollowsFrom
        <4> QED  BY <2>2, <3>1, <4>5, <4>7, <4>8 DEF TrackerHoldsImage
      <3>4. CASE Check(Venue, tracker, e) # "apply"
        <4>1. tracker' = tracker
          BY <2>4, <3>4 DEF ApplyDeltaEvent, Advance
        <4>2. book' \in {book, Invalidate(book)}
          BY <2>4, <3>4 DEF ApplyDeltaEvent
        <4>3. /\ Invalidate(book).seq = book.seq /\ Invalidate(book).depth = book.depth
              /\ ~Invalidate(book).ready
          BY <1>0 DEF Invalidate, Books
        <4> QED  BY <1>2, <2>2, <4>1, <4>2, <4>3
      <3> QED  BY <3>3, <3>4
    <2> QED  BY <1>8, <2>3, <2>4 DEF Apply
  <1> QED  BY <1>1, <1>3, <1>4, <1>5, <1>6, <1>7, <1>8 DEF Next, VenueNext, PipelineNext

\* The chain invariant holds before anything is received.
LEMMA ChainInvInit == Init => ChainInv
  <1> SUFFICES ASSUME Init PROVE ChainInv
    OBVIOUS
  <1>1. TypeOK
    BY InitType
  <1>2. HistoryIsGenuine
    BY DEF Init, HistoryIsGenuine, AllGenuine
  <1>3. TrackerHoldsImage
    BY DEF Init, TrackerHoldsImage, NewTracker, NewBook
  <1> QED  BY <1>1, <1>2, <1>3 DEF ChainInv

\* Every step keeps the chain invariant, the tracker rule being the chain rule.
LEMMA ChainInvStep ==
    ASSUME Venue # "binance"
    PROVE  ChainInv /\ [Next]_vars => ChainInv'
  <1> SUFFICES ASSUME ChainInv, [Next]_vars PROVE ChainInv'
    OBVIOUS
  <1>1. TypeOK'
    BY NextType DEF ChainInv
  <1>2. CASE Next
    BY <1>1, <1>2, GenuineStep, TrackerStep DEF ChainInv
  <1>3. CASE UNCHANGED vars
    BY <1>1, <1>3 DEF ChainInv, HistoryIsGenuine, TrackerHoldsImage, vars
  <1> QED  BY <1>2, <1>3

\* On OKX and Bybit the tracker stands where the depth does, whether or not
\* readers may use the book, and every message on the way is a piece of the
\* venue's history.
THEOREM ChainInvariant ==
    ASSUME Venue # "binance"
    PROVE  Spec => []ChainInv
  BY ChainInvInit, ChainInvStep, PTL DEF Spec

\* A book that readers may trade on is exactly the venue's own book at the
\* sequence number it carries: for OKX and Bybit, any number of levels, any
\* skips of the numbering, any capacities, and any losses, repeats and
\* reconnects.
THEOREM ReadyBookExact ==
    ASSUME Venue # "binance"
    PROVE  Spec => []ReadyBookIsVenueImage
  <1>1. ChainInv => ReadyBookIsVenueImage
    BY DEF ChainInv, TrackerHoldsImage, ReadyBookIsVenueImage
  <1> QED  BY <1>1, ChainInvariant, PTL
-----------------------------------------------------------------------------
(* The stale mark.                                                         *)
(*                                                                         *)
(* The sweeper marks with a clock sample that may be old.  It cannot lift  *)
(* a mark because a marked book has been too old since before the sample.  *)

StaleInv ==
    /\ TypeOK
    /\ sweep # NoSweep => sweep <= now
    /\ book.stale => now - book.at > MaxBookAge
    /\ book.stale /\ sweep # NoSweep => sweep - book.at > MaxBookAge

\* What a step that leaves the book alone, or only withdraws it, does.
LEMMA StaleStep ==
    ASSUME StaleInv, [Next]_vars
    PROVE  /\ StaleInv'
           /\ book.stale /\ ~book'.stale => AppliesEvent
  <1> DEFINE Lift == book.stale /\ ~book'.stale => AppliesEvent
             Rest == /\ sweep' # NoSweep => sweep' <= now'
                     /\ book'.stale => now' - book'.at > MaxBookAge
                     /\ book'.stale /\ sweep' # NoSweep => sweep' - book'.at > MaxBookAge
  <1>0. /\ TypeOK /\ TypeOK'
        /\ book \in Books /\ book'.at \in Nat /\ now \in Nat /\ sweep \in Nat \cup {NoSweep}
        /\ book.at \in Nat /\ MaxBookAge \in Nat /\ book.stale \in BOOLEAN /\ NoSweep = -1
    <2>1. TypeOK /\ TypeOK'
      BY NextType DEF StaleInv
    <2>2. book \in Books /\ book' \in Books
      BY <2>1 DEF TypeOK, Books
    <2> QED  BY <2>1, <2>2, LaneAssumption DEF TypeOK, Books, NoSweep
  <1>1. /\ sweep # NoSweep => sweep <= now
        /\ book.stale => now - book.at > MaxBookAge
        /\ book.stale /\ sweep # NoSweep => sweep - book.at > MaxBookAge
    BY DEF StaleInv
  <1> SUFFICES Lift /\ Rest
    BY <1>0 DEF StaleInv
  <1>2. ASSUME now' = now, sweep' = sweep, book'.stale = book.stale, book'.at = book.at
        PROVE  Lift /\ Rest
    BY <1>1, <1>2
  <1>3. CASE VenueNext
    BY <1>2, <1>3 DEF VenueNext, VenueUpdate, VenueSnapshot, VenueDepth20, VenueControl,
         VenueRedeliver, laneVars
  <1>4. CASE SessionNext
    BY <1>2, <1>4 DEF SessionNext, Connect, Disconnect, ReadResync, ReadControl,
         ReadMalformed, ReadEvent, OtherLaneResync, laneVars
  <1>5. CASE Submit \/ SubmitRequest
    BY <1>2, <1>5 DEF Submit, SubmitRequest, laneVars
  <1>6. Invalidate(book).stale = book.stale /\ Invalidate(book).at = book.at
    BY <1>0 DEF Invalidate, Books
  <1>7. CASE SubmitInvalidate
    BY <1>2, <1>6, <1>7 DEF SubmitInvalidate
  <1>8. CASE Tick
    <2>1. book' = book /\ sweep' = sweep /\ now' = now + 1
      BY <1>8 DEF Tick, laneVars
    <2> QED  BY <1>0, <1>1, <2>1
  <1>9. CASE SweepSample
    <2>1. book' = book /\ sweep' = now /\ now' = now
      BY <1>9 DEF SweepSample, laneVars
    <2> QED  BY <1>0, <1>1, <2>1
  <1>10. CASE SweepMark
    <2> DEFINE flag == sweep - book.at > MaxBookAge
    <2>1. /\ sweep # NoSweep /\ sweep' = NoSweep /\ now' = now
          /\ book' = IF book.ready THEN MarkStale(book, flag) ELSE book
      BY <1>10 DEF SweepMark
    <2>2. MarkStale(book, flag).stale = flag /\ MarkStale(book, flag).at = book.at
      BY <1>0 DEF MarkStale, Books
    <2>3. book'.at = book.at /\ book'.stale \in {flag, book.stale}
      BY <2>1, <2>2
    <2>4. flag => now - book.at > MaxBookAge
      BY <1>0, <1>1, <2>1
    <2>5. book.stale => flag
      BY <1>1, <2>1
    <2> HIDE DEF flag
    <2> QED  BY <1>1, <2>1, <2>3, <2>4, <2>5
  <1>11. CASE Apply
    <2>1. queue # <<>> /\ queue' = Tail(queue) /\ now' = now /\ sweep' = sweep
      BY <1>11 DEF Apply
    <2>2. \/ ~book'.stale /\ AppliesEvent
          \/ book' \in {book, Invalidate(book)}
      <3>1. CASE Head(queue).type = "snapshot" /\ ApplySnapshotEvent(Head(queue))
        <4>1. book' = MarkStale(LoadSnapshot(book, Head(queue)), FALSE)
          BY <3>1 DEF ApplySnapshotEvent
        <4> QED  BY <2>1, <3>1, <4>1 DEF MarkStale, LoadSnapshot, AppliesEvent
      <3>2. CASE ApplyDeltaEvent(Head(queue)) /\ Check(Venue, tracker, Head(queue)) = "apply"
        <4>1. book' = MarkStale(ApplyDelta(book, Head(queue)), FALSE)
          BY <3>2 DEF ApplyDeltaEvent
        <4>2. ~MarkStale(ApplyDelta(book, Head(queue)), FALSE).stale
          BY <1>0 DEF MarkStale, ApplyDelta, Books
        <4> QED  BY <2>1, <3>2, <4>1, <4>2 DEF AppliesEvent
      <3>3. CASE ApplyDeltaEvent(Head(queue)) /\ Check(Venue, tracker, Head(queue)) # "apply"
        BY <3>3 DEF ApplyDeltaEvent
      <3> QED  BY <1>11, <3>1, <3>2, <3>3 DEF Apply
    <2> QED  BY <1>1, <1>6, <2>1, <2>2
  <1>12. CASE UNCHANGED vars
    BY <1>2, <1>12 DEF vars
  <1> HIDE DEF Lift, Rest
  <1> QED  BY <1>3, <1>4, <1>5, <1>7, <1>8, <1>9, <1>10, <1>11, <1>12 DEF Next, PipelineNext

\* Only a snapshot or a delta that chains lifts a stale mark, for every venue,
\* every staleness threshold and however late the sweeper gets the lane's
\* mutex.
THEOREM SweepNeverRefreshes == Spec => StaleLiftedOnlyByEvent
  <1>1. Init => StaleInv
    <2> SUFFICES ASSUME Init PROVE StaleInv
      OBVIOUS
    <2>1. TypeOK /\ ~book.stale /\ sweep = NoSweep
      BY InitType DEF Init, NewBook
    <2> QED  BY <2>1 DEF StaleInv
  <1>2. StaleInv /\ [Next]_vars => StaleInv'
    BY StaleStep
  <1>3. StaleInv /\ [Next]_vars => [book.stale /\ ~book'.stale => AppliesEvent]_vars
    BY StaleStep
  <1> QED  BY <1>1, <1>2, <1>3, PTL DEF Spec, StaleLiftedOnlyByEvent
=============================================================================
