----------------------- MODULE BookLaneHistory_proofs -----------------------
(***************************************************************************)
(* What the order of the channels gives, for every value of the constants: *)
(* under the Binance tracker too a ready book has no level that the venue  *)
(* has replaced, the lane implements the contract of a published view,     *)
(* after a gap the book comes back only on an image that contains the gap, *)
(* and, where nothing is lost before Submit, a quiet lane has the venue's  *)
(* current book.                                                           *)
(*                                                                         *)
(* The argument rests on one fact about the three channels: a snapshot is  *)
(* never behind anything that was sent before it.  It needs the venue to   *)
(* send its snapshots in order with its deltas, which the Binance depth20  *)
(* stream does only if its images do not lag.                              *)
(***************************************************************************)
EXTENDS BookLaneHistory, BookLane_proofs

SnapshotsInOrder == Venue # "binance" \/ SnapshotLag = 0

\* y, if it is a snapshot, contains x.
Le(x, y) == x.type # "control" /\ y.type = "snapshot" => x.seq <= y.seq

InOrder(q) == \A i, j \in DOMAIN q : i < j => Le(q[i], q[j])
Earlier(a, b) == \A i \in DOMAIN a, j \in DOMAIN b : Le(a[i], b[j])
NotBefore(n, q) == \A j \in DOMAIN q : q[j].type = "snapshot" => n <= q[j].seq

\* From the book to the venue, no snapshot is older than what precedes it.
ChannelsInOrder ==
    /\ InOrder(queue) /\ InOrder(raw) /\ InOrder(wire)
    /\ Earlier(queue, raw) /\ Earlier(queue, wire) /\ Earlier(raw, wire)
    /\ NotBefore(book.seq, queue) /\ NotBefore(book.seq, raw) /\ NotBefore(book.seq, wire)

\* Tracker and book move together, and a ready book has a venue's number.
TrackerAgrees ==
    /\ tracker.lastSeq = book.seq
    /\ ~tracker.ready => ~book.ready /\ book.seq = 0
    /\ book.ready => book.seq \in DOMAIN image
    /\ book.seq <= vseq

OrderInv == TypeOK /\ HistoryIsGenuine /\ ChannelsInOrder /\ TrackerAgrees
-----------------------------------------------------------------------------
(* Reading from and writing to an ordered channel. *)

\* Taking the head of a channel.
LEMMA ReadOrder ==
    ASSUME NEW S, NEW q \in Seq(S), q # <<>>
    PROVE  /\ InOrder(q) => InOrder(Tail(q)) /\ \A j \in DOMAIN Tail(q) : Le(Head(q), Tail(q)[j])
           /\ \A a : Earlier(a, q) => Earlier(a, Tail(q)) /\ \A i \in DOMAIN a : Le(a[i], Head(q))
           /\ \A b : Earlier(q, b) => Earlier(Tail(q), b) /\ \A j \in DOMAIN b : Le(Head(q), b[j])
           /\ \A n : NotBefore(n, q) =>
                 /\ NotBefore(n, Tail(q))
                 /\ Head(q).type = "snapshot" => n <= Head(q).seq
  <1>1. /\ 1 \in DOMAIN q /\ Head(q) = q[1]
        /\ \A i \in DOMAIN Tail(q) : i \in Int /\ 1 < i + 1 /\ i + 1 \in DOMAIN q /\ Tail(q)[i] = q[i + 1]
    BY TailFacts
  <1>2. ASSUME InOrder(q)
        PROVE  InOrder(Tail(q)) /\ \A j \in DOMAIN Tail(q) : Le(Head(q), Tail(q)[j])
    <2>1. ASSUME NEW i \in DOMAIN Tail(q), NEW j \in DOMAIN Tail(q), i < j
          PROVE  Le(Tail(q)[i], Tail(q)[j])
      <3>1. i + 1 < j + 1
        BY <1>1, <2>1
      <3> QED  BY <1>1, <1>2, <3>1 DEF InOrder
    <2>2. ASSUME NEW j \in DOMAIN Tail(q) PROVE Le(Head(q), Tail(q)[j])
      BY <1>1, <1>2 DEF InOrder
    <2> QED  BY <2>1, <2>2 DEF InOrder
  <1>3. ASSUME NEW a, Earlier(a, q)
        PROVE  Earlier(a, Tail(q)) /\ \A i \in DOMAIN a : Le(a[i], Head(q))
    BY <1>1, <1>3 DEF Earlier
  <1>4. ASSUME NEW b, Earlier(q, b)
        PROVE  Earlier(Tail(q), b) /\ \A j \in DOMAIN b : Le(Head(q), b[j])
    BY <1>1, <1>4 DEF Earlier
  <1>5. ASSUME NEW n, NotBefore(n, q)
        PROVE  NotBefore(n, Tail(q)) /\ (Head(q).type = "snapshot" => n <= Head(q).seq)
    BY <1>1, <1>5 DEF NotBefore
  <1> QED  BY <1>2, <1>3, <1>4, <1>5

\* Adding to the end of a channel.
LEMMA WriteOrder ==
    ASSUME NEW S, NEW q \in Seq(S), NEW e \in S
    PROVE  /\ InOrder(q) /\ (\A i \in DOMAIN q : Le(q[i], e)) => InOrder(Append(q, e))
           /\ \A a : Earlier(a, q) /\ (\A i \in DOMAIN a : Le(a[i], e)) => Earlier(a, Append(q, e))
           /\ \A b : Earlier(q, b) /\ (\A j \in DOMAIN b : Le(e, b[j])) => Earlier(Append(q, e), b)
           /\ \A n : NotBefore(n, q) /\ (e.type = "snapshot" => n <= e.seq) => NotBefore(n, Append(q, e))
  <1> DEFINE t == Append(q, e)
             n == Len(q) + 1
  <1>1. /\ DOMAIN t = DOMAIN q \cup {n} /\ n \notin DOMAIN q /\ t[n] = e
        /\ \A i \in DOMAIN q : i \in Int /\ i < n /\ ~(n < i) /\ t[i] = q[i]
    <2>1. n \in Int /\ \A i \in DOMAIN q : i \in Int
      OBVIOUS
    <2>2. /\ DOMAIN t = DOMAIN q \cup {n} /\ n \notin DOMAIN q /\ t[n] = e
          /\ \A i \in DOMAIN q : i < n /\ t[i] = q[i]
      BY AppendFacts
    <2> HIDE DEF n, t
    <2> QED  BY <2>1, <2>2
  <1>2. ~(n < n)
    OBVIOUS
  <1> HIDE DEF t, n
  <1>3. ASSUME InOrder(q), \A i \in DOMAIN q : Le(q[i], e) PROVE InOrder(t)
    BY <1>1, <1>2, <1>3 DEF InOrder
  <1>4. ASSUME NEW a, Earlier(a, q), \A i \in DOMAIN a : Le(a[i], e) PROVE Earlier(a, t)
    BY <1>1, <1>4 DEF Earlier
  <1>5. ASSUME NEW b, Earlier(q, b), \A j \in DOMAIN b : Le(e, b[j]) PROVE Earlier(t, b)
    BY <1>1, <1>5 DEF Earlier
  <1>6. ASSUME NEW m, NotBefore(m, q), e.type = "snapshot" => m <= e.seq PROVE NotBefore(m, t)
    BY <1>1, <1>6 DEF NotBefore
  <1> QED  BY <1>3, <1>4, <1>5, <1>6 DEF t

\* Only the kind and the number of a message matter.
LEMMA StampOrder ==
    ASSUME NEW x, NEW y, x.type = y.type, x.seq = y.seq
    PROVE  \A z : /\ Le(x, z) <=> Le(y, z)
                  /\ Le(z, x) <=> Le(z, y)
  BY DEF Le
-----------------------------------------------------------------------------
(* The order of the channels. *)

\* A message is no newer than the venue.
LEMMA SentIsPast ==
    ASSUME TypeOK, HistoryIsGenuine
    PROVE  /\ vseq \in Nat
           /\ \A q : AllGenuine(image, q) =>
                 \A i \in DOMAIN q : q[i].type # "control" => q[i].seq \in Nat /\ q[i].seq <= vseq
  <1>1. vseq \in Nat /\ \A s \in DOMAIN image : s \in Nat /\ s <= vseq
    BY DEF TypeOK, HistoryIsGenuine
  <1> QED  BY <1>1 DEF AllGenuine, Genuine

\* An accepted delta is newer than the book and, if that is ready, the update
\* that follows on the number the book has.
LEMMA AcceptedDelta ==
    ASSUME TypeOK, HistoryIsGenuine, TrackerAgrees, NEW d \in Deltas, Genuine(image, d),
           d.type = "delta", Check(Venue, tracker, d) = "apply"
    PROVE  /\ d.seq >= book.seq
           /\ book.ready => FollowsFrom(image, d, book.seq)
  <1>0. /\ book \in Books /\ tracker \in [ready : BOOLEAN, lastSeq : Nat] /\ book.seq \in Nat
        /\ DOMAIN image \subseteq Nat /\ d.seq \in Nat /\ d.seq \in DOMAIN image /\ d.prev \in Nat
    BY DEF TypeOK, Books, Deltas, Genuine
  <1>1. /\ tracker.lastSeq = book.seq /\ (~tracker.ready => ~book.ready /\ book.seq = 0)
        /\ book.ready => book.seq \in DOMAIN image
    BY DEF TrackerAgrees
  <1>2. PICK last \in DOMAIN image : FollowsFrom(image, d, last)
    BY DEF Genuine
  <1>3. CASE Venue = "binance"
    <2>1. BinanceCheck(tracker, d) = "apply"
      BY <1>3 DEF Check, UsesBinanceRule
    <2>2. ~tracker.ready \/ (d.seq > tracker.lastSeq /\ d.prev <= tracker.lastSeq + 1)
      BY <1>0, <2>1 DEF BinanceCheck
    <2>3. d.prev = last + 1
      BY <1>2, <1>3 DEF FollowsFrom, PrevSequence
    <2>4. d.seq >= book.seq
      BY <1>0, <1>1, <2>2
    <2>5. ASSUME book.ready PROVE FollowsFrom(image, d, book.seq)
      <3>1. d.seq > book.seq /\ d.prev <= book.seq + 1 /\ book.seq \in DOMAIN image
        BY <1>1, <2>2, <2>5
      <3>2. last = book.seq
        BY <1>0, <1>2, <2>3, <3>1 DEF FollowsFrom
      <3> QED  BY <1>2, <3>2
    <2> QED  BY <2>4, <2>5
  <1>4. CASE Venue # "binance"
    <2>1. ChainCheck(tracker, d) = "apply"
      BY <1>4 DEF Check, UsesBinanceRule
    <2>2. /\ tracker.ready /\ d.seq > tracker.lastSeq
          /\ d.seq = tracker.lastSeq + 1 \/ d.prev = tracker.lastSeq
      BY <1>0, <2>1 DEF ChainCheck
    <2>3. d.prev \in {last, d.seq - 1}
      BY <1>2, <1>4 DEF FollowsFrom, PrevSequence
    <2>4. d.seq >= book.seq
      BY <1>0, <1>1, <2>2
    <2>5. ASSUME book.ready PROVE FollowsFrom(image, d, book.seq)
      <3>1. /\ d.seq > book.seq /\ (d.seq = book.seq + 1 \/ d.prev = book.seq)
            /\ book.seq \in DOMAIN image
        BY <1>1, <2>2, <2>5
      <3>2. last = book.seq
        BY <1>0, <1>2, <2>3, <3>1 DEF FollowsFrom
      <3> QED  BY <1>2, <3>2
    <2> QED  BY <2>4, <2>5
  <1> QED  BY <1>3, <1>4

\* What applying the next event does to tracker and book.
LEMMA ApplyOrder ==
    ASSUME OrderInv, Apply
    PROVE  /\ TrackerAgrees'
           /\ book'.seq \in {book.seq, Head(queue).seq} /\ book'.seq >= book.seq
           /\ Head(queue).type = "snapshot" => book'.ready /\ book'.seq = Head(queue).seq
           /\ Head(queue).type = "delta" => (book'.ready => book.ready)
           /\ Head(queue).type = "delta" /\ Check(Venue, tracker, Head(queue)) = "apply"
                 => book'.seq = Head(queue).seq /\ book'.ready = book.ready
           /\ Head(queue).type = "delta" /\ Check(Venue, tracker, Head(queue)) = "gap"
                 => ~book'.ready
  <1> DEFINE e == Head(queue)
  <1>0. /\ TypeOK /\ HistoryIsGenuine /\ ChannelsInOrder /\ TrackerAgrees /\ queue # <<>>
        /\ queue \in Seq(Events) /\ AllGenuine(image, queue)
    BY DEF OrderInv, TypeOK, HistoryIsGenuine, Apply
  <1>1. /\ book \in Books /\ tracker \in [ready : BOOLEAN, lastSeq : Nat] /\ book.seq \in Nat
        /\ tracker.lastSeq \in Nat /\ book.ready \in BOOLEAN
        /\ DOMAIN image \subseteq Nat /\ vseq \in Nat /\ \A s \in DOMAIN image : s <= vseq
    BY <1>0 DEF TypeOK, Books, HistoryIsGenuine
  <1>2. /\ tracker.lastSeq = book.seq /\ (~tracker.ready => ~book.ready /\ book.seq = 0)
        /\ book.ready => book.seq \in DOMAIN image
        /\ book.seq <= vseq
    BY <1>0 DEF TrackerAgrees
  <1>3. e \in Events /\ Genuine(image, e) /\ UNCHANGED <<vseq, image>>
    BY <1>0, ChannelStaysGenuine, TailFacts DEF Apply, venueVars
  <1> DEFINE Goal == /\ TrackerAgrees'
                     /\ book'.seq \in {book.seq, e.seq} /\ book'.seq >= book.seq
                     /\ e.type = "snapshot" => book'.ready /\ book'.seq = e.seq
                     /\ e.type = "delta" => (book'.ready => book.ready)
                     /\ e.type = "delta" /\ Check(Venue, tracker, e) = "apply"
                           => book'.seq = e.seq /\ book'.ready = book.ready
                     /\ e.type = "delta" /\ Check(Venue, tracker, e) = "gap" => ~book'.ready
  <1> SUFFICES Goal
    OBVIOUS
  <1>4. CASE e.type = "snapshot" /\ ApplySnapshotEvent(e)
    <2>1. e \in Snapshots /\ e.seq \in DOMAIN image /\ e.seq \in Nat
      BY <1>1, <1>3, <1>4, FrameTypes DEF Genuine
    <2>2. book.seq <= e.seq
      BY <1>0, <1>4, ReadOrder DEF ChannelsInOrder
    <2>3. /\ tracker'.ready /\ tracker'.lastSeq = e.seq
      <3>1. tracker' = OnSnapshot(Venue, tracker, e.seq)
        BY <1>4 DEF ApplySnapshotEvent
      <3>2. OnSnapshot(Venue, tracker, e.seq) = [ready |-> TRUE, lastSeq |-> e.seq]
        <4>1. (IF e.seq > tracker.lastSeq THEN e.seq ELSE tracker.lastSeq) = e.seq
          BY <1>1, <1>2, <2>1, <2>2
        <4> QED  BY <4>1 DEF OnSnapshot, ChainOnSnapshot, BinanceOnSnapshot
      <3> QED  BY <3>1, <3>2
    <2>4. book'.seq = e.seq /\ book'.ready
      BY <1>4 DEF ApplySnapshotEvent, MarkStale, LoadSnapshot
    <2>5. TrackerAgrees'
      BY <1>1, <1>3, <2>1, <2>3, <2>4 DEF TrackerAgrees
    <2> HIDE DEF e
    <2> QED  BY <1>1, <1>4, <2>1, <2>2, <2>4, <2>5
  <1>5. CASE e.type = "delta" /\ ApplyDeltaEvent(e)
    <2>1. e \in Deltas /\ e.seq \in DOMAIN image /\ e.seq \in Nat /\ e.seq <= vseq
      BY <1>1, <1>3, <1>5, FrameTypes DEF Genuine
    <2>2. CASE Check(Venue, tracker, e) = "apply"
      <3>1. e.seq >= book.seq
        BY <1>0, <1>3, <1>5, <2>1, <2>2, AcceptedDelta
      <3>2. tracker' = [ready |-> TRUE, lastSeq |-> e.seq]
        BY <1>5, <2>2 DEF ApplyDeltaEvent, Advance
      <3>3. book' = MarkStale(ApplyDelta(book, e), FALSE)
        BY <1>5, <2>2 DEF ApplyDeltaEvent
      <3>4. book'.seq = e.seq /\ book'.ready = book.ready
        BY <1>1, <3>3 DEF MarkStale, ApplyDelta, Books
      <3>5. tracker'.ready /\ tracker'.lastSeq = e.seq
        BY <3>2
      <3>6. TrackerAgrees'
        BY <1>3, <2>1, <3>1, <3>4, <3>5 DEF TrackerAgrees
      <3> HIDE DEF e
      <3> QED  BY <1>1, <1>5, <2>2, <3>1, <3>4, <3>6
    <2>3. CASE Check(Venue, tracker, e) # "apply"
      <3>1. tracker' = tracker
        BY <1>5, <2>3 DEF ApplyDeltaEvent, Advance
      <3>2. /\ book' \in {book, Invalidate(book)}
            /\ Check(Venue, tracker, e) = "gap" => book' = Invalidate(book)
        BY <1>5, <2>3 DEF ApplyDeltaEvent
      <3>3. Invalidate(book).seq = book.seq /\ ~Invalidate(book).ready
        BY <1>1 DEF Invalidate, Books
      <3>4. /\ book'.seq = book.seq /\ (book'.ready => book.ready)
            /\ Check(Venue, tracker, e) = "gap" => ~book'.ready
        BY <3>2, <3>3
      <3>5. TrackerAgrees'
        BY <1>2, <1>3, <3>1, <3>4 DEF TrackerAgrees
      <3> HIDE DEF e
      <3> QED  BY <1>1, <1>5, <2>3, <3>4, <3>5
    <2> QED  BY <2>2, <2>3
  <1> QED  BY <1>4, <1>5 DEF Apply

\* A snapshot the venue sends now has the number of all it has sent before.
LEMMA NewSnapshot ==
    ASSUME OrderInv, NEW depth \in Depths
    PROVE  LET e == Snapshot(vseq, depth)
           IN  /\ e \in Frames
               /\ \A i \in DOMAIN wire : Le(wire[i], e)
               /\ \A i \in DOMAIN raw : Le(raw[i], e)
               /\ \A i \in DOMAIN queue : Le(queue[i], e)
               /\ book.seq <= e.seq
  <1> DEFINE e == Snapshot(vseq, depth)
  <1>1. /\ vseq \in Nat /\ TypeOK /\ HistoryIsGenuine
        /\ AllGenuine(image, wire) /\ AllGenuine(image, raw) /\ AllGenuine(image, queue)
        /\ book.seq <= vseq
    BY DEF OrderInv, TypeOK, HistoryIsGenuine, TrackerAgrees
  <1>2. e \in Frames /\ e.seq = vseq
    BY <1>1, FrameTypes DEF Snapshot
  <1> HIDE DEF e
  <1>3. \A q : AllGenuine(image, q) => \A i \in DOMAIN q : Le(q[i], e)
    BY <1>1, <1>2, SentIsPast DEF Le
  <1> QED  BY <1>1, <1>2, <1>3 DEF e

\* Every step keeps the channels in order.
LEMMA OrderStep ==
    ASSUME SnapshotsInOrder, OrderInv, [Next]_vars
    PROVE  ChannelsInOrder' /\ TrackerAgrees' /\ book'.seq >= book.seq
  <1>0. /\ TypeOK /\ HistoryIsGenuine /\ ChannelsInOrder /\ TrackerAgrees
        /\ wire \in Seq(Frames) /\ raw \in Seq(Events) /\ queue \in Seq(Events)
        /\ book \in Books /\ book.seq \in Nat
    BY DEF OrderInv, TypeOK, Books
  <1>1. /\ InOrder(queue) /\ InOrder(raw) /\ InOrder(wire)
        /\ Earlier(queue, raw) /\ Earlier(queue, wire) /\ Earlier(raw, wire)
        /\ NotBefore(book.seq, queue) /\ NotBefore(book.seq, raw) /\ NotBefore(book.seq, wire)
    BY <1>0 DEF ChannelsInOrder
  <1> DEFINE Goal == ChannelsInOrder' /\ TrackerAgrees' /\ book'.seq >= book.seq
  <1> SUFFICES Goal
    OBVIOUS
  \* The lane stands still and so does the history, or it grows.
  <1>2. ASSUME tracker' = tracker, book'.seq = book.seq, book'.ready => book.ready,
               UNCHANGED <<vseq, image>>
        PROVE  TrackerAgrees' /\ book'.seq >= book.seq
    BY <1>0, <1>2 DEF TrackerAgrees
  \* Only the wire moves.
  <1>3. ASSUME UNCHANGED <<raw, queue>>, book'.seq = book.seq,
               InOrder(wire'), Earlier(queue, wire'), Earlier(raw, wire'), NotBefore(book.seq, wire')
        PROVE  ChannelsInOrder'
    BY <1>1, <1>3 DEF ChannelsInOrder
  <1>4. ASSUME NEW e \in Frames, e.type # "snapshot"
        PROVE  /\ InOrder(Append(wire, e)) /\ Earlier(queue, Append(wire, e))
               /\ Earlier(raw, Append(wire, e)) /\ NotBefore(book.seq, Append(wire, e))
    <2>1. \A x : Le(x, e)
      BY <1>4 DEF Le
    <2> QED  BY <1>0, <1>1, <1>4, <2>1, WriteOrder
  <1>5. ASSUME wire # <<>>
        PROVE  /\ InOrder(Tail(wire)) /\ Earlier(queue, Tail(wire))
               /\ Earlier(raw, Tail(wire)) /\ NotBefore(book.seq, Tail(wire))
    BY <1>0, <1>1, <1>5, ReadOrder
  <1>6. InOrder(<<>>) /\ \A a : Earlier(a, <<>>) /\ \A n : NotBefore(n, <<>>)
    BY DEF InOrder, Earlier, NotBefore
  <1>7. ASSUME NEW skip \in Skips, NEW levels \in SUBSET Levels, VenueUpdate(skip, levels)
        PROVE  Goal
    <2> DEFINE d == Delta(vseq + skip, PrevSequence(vseq + skip, vseq), levels)
    <2>1. UNCHANGED <<raw, queue, tracker, book>> /\ wire' \in {wire, Append(wire, d)}
      BY <1>7 DEF VenueUpdate, laneVars
    <2>2. d \in Frames
      BY <1>0, <1>7, NewDeltaIsGenuine
    <2>3. d.type # "snapshot"
      BY DEF Delta
    <2> HIDE DEF d
    <2>4. ChannelsInOrder'
      BY <1>1, <1>3, <1>4, <2>1, <2>2, <2>3
    <2>5. /\ vseq' >= vseq /\ vseq' \in Nat /\ vseq \in Nat
          /\ \A s \in DOMAIN image : s \in DOMAIN image' /\ image'[s] = image[s]
      <3>1. /\ vseq + skip \in Nat /\ vseq < vseq + skip /\ vseq' = vseq + skip
            /\ DOMAIN image' = DOMAIN image \cup {vseq + skip}
            /\ \A s \in DOMAIN image : image'[s] = image[s]
        BY <1>0, <1>7, HistoryGrows
      <3>2. vseq \in Nat /\ skip \in Nat
        BY <1>0, LaneAssumption DEF TypeOK
      <3> QED  BY <3>1, <3>2
    <2>6. TrackerAgrees'
      BY <1>0, <2>1, <2>5 DEF TrackerAgrees
    <2> QED  BY <1>0, <2>1, <2>4, <2>6
  <1>8. ASSUME UNCHANGED <<vseq, image, raw, queue, tracker, book>>, NEW depth \in Depths,
               wire' = Append(wire, Snapshot(vseq, depth))
        PROVE  Goal
    <2> DEFINE e == Snapshot(vseq, depth)
    <2>1. /\ e \in Frames
          /\ \A i \in DOMAIN wire : Le(wire[i], e)
          /\ \A i \in DOMAIN raw : Le(raw[i], e)
          /\ \A i \in DOMAIN queue : Le(queue[i], e)
          /\ book.seq <= e.seq
      BY NewSnapshot
    <2>2. wire' = Append(wire, e)
      BY <1>8
    <2> HIDE DEF e
    <2>3. /\ InOrder(wire') /\ Earlier(queue, wire') /\ Earlier(raw, wire')
          /\ NotBefore(book.seq, wire')
      BY <1>0, <1>1, <2>1, <2>2, WriteOrder
    <2> QED  BY <1>2, <1>3, <1>8, <2>3
  <1>9. CASE VenueSnapshot
    <2>1. image[vseq] \in Depths
      BY <1>0 DEF TypeOK
    <2> QED  BY <1>8, <1>9, <2>1 DEF VenueSnapshot, venueVars, laneVars
  <1>10. ASSUME NEW seq \in DOMAIN image, NEW top \in SUBSET Levels, VenueDepth20(seq, top)
         PROVE  Goal
    <2>1. SnapshotLag = 0 /\ vseq - seq <= SnapshotLag
      BY <1>10 DEF VenueDepth20, UsesBinanceRule, SnapshotsInOrder
    <2>2. seq \in Nat /\ vseq \in Nat /\ seq <= vseq
      BY <1>0 DEF TypeOK, HistoryIsGenuine
    <2>3. seq = vseq
      BY <2>1, <2>2
    <2>4. TopOf(image[vseq], top) \in Depths
      BY <1>0, <2>2, PatchType DEF TypeOK
    <2> QED  BY <1>8, <1>10, <2>3, <2>4 DEF VenueDepth20, venueVars, laneVars
  <1>11. CASE VenueControl
    <2>1. Control \in Frames /\ Control.type # "snapshot"
      BY FrameTypes DEF Control
    <2>2. wire' = Append(wire, Control) /\ UNCHANGED <<vseq, image, raw, queue, tracker, book>>
      BY <1>11 DEF VenueControl, venueVars, laneVars
    <2> QED  BY <1>2, <1>3, <1>4, <2>1, <2>2
  <1>12. ASSUME NEW i \in DOMAIN wire, VenueRedeliver(i) PROVE Goal
    <2>1. wire[i] \in Frames /\ wire[i].type # "snapshot"
      BY <1>0, <1>12 DEF VenueRedeliver
    <2>2. wire' = Append(wire, wire[i]) /\ UNCHANGED <<vseq, image, raw, queue, tracker, book>>
      BY <1>12 DEF VenueRedeliver, venueVars, laneVars
    <2> QED  BY <1>2, <1>3, <1>4, <2>1, <2>2
  <1>13. ASSUME UNCHANGED <<vseq, image, raw, queue, tracker, book>>,
                wire' = wire \/ wire' = <<>> \/ (wire # <<>> /\ wire' = Tail(wire))
         PROVE  Goal
    BY <1>1, <1>2, <1>3, <1>5, <1>6, <1>13
  <1>14. CASE Connect \/ OtherLaneResync \/ Disconnect \/ ReadResync
    BY <1>13, <1>14 DEF Connect, OtherLaneResync, Disconnect, ReadResync, DropSession,
                        venueVars, laneVars, sessionVars
  <1>15. CASE ReadControl \/ ReadMalformed
    BY <1>13, <1>15 DEF ReadControl, ReadMalformed, venueVars, laneVars
  <1>16. CASE ReadEvent
    <2> DEFINE e == [Head(wire) EXCEPT !.at = now]
    <2>1. /\ wire # <<>> /\ Head(wire) # Control /\ wire' = Tail(wire)
          /\ raw' \in {raw, Append(raw, e)} /\ UNCHANGED <<vseq, image, queue, tracker, book>>
      BY <1>16 DEF ReadEvent, venueVars, laneVars
    <2>2. Head(wire) \in Events
      BY <1>0, <2>1, TailFacts, FrameTypes
    <2>3. e \in Events /\ e.type = Head(wire).type /\ e.seq = Head(wire).seq
      BY <1>0, <2>2, StampFacts DEF TypeOK
    <2> HIDE DEF e
    <2>4. \A z : (Le(e, z) <=> Le(Head(wire), z)) /\ (Le(z, e) <=> Le(z, Head(wire)))
      BY <2>3, StampOrder
    <2>5. /\ InOrder(Tail(wire)) /\ Earlier(queue, Tail(wire)) /\ Earlier(raw, Tail(wire))
          /\ NotBefore(book.seq, Tail(wire))
          /\ \A j \in DOMAIN Tail(wire) : Le(e, Tail(wire)[j])
          /\ \A i \in DOMAIN queue : Le(queue[i], e)
          /\ \A i \in DOMAIN raw : Le(raw[i], e)
          /\ e.type = "snapshot" => book.seq <= e.seq
      BY <1>0, <1>1, <2>1, <2>3, <2>4, ReadOrder
    <2>6. /\ InOrder(Append(raw, e)) /\ Earlier(queue, Append(raw, e))
          /\ Earlier(Append(raw, e), Tail(wire)) /\ NotBefore(book.seq, Append(raw, e))
      BY <1>0, <1>1, <2>3, <2>5, WriteOrder
    <2>7. ChannelsInOrder'
      BY <1>1, <2>1, <2>5, <2>6 DEF ChannelsInOrder
    <2> QED  BY <1>2, <2>1, <2>7
  <1>17. CASE Submit
    <2> DEFINE e == Head(raw)
    <2>1. /\ raw # <<>> /\ raw' = Tail(raw) /\ queue' \in {queue, Append(queue, e)}
          /\ UNCHANGED <<vseq, image, wire, tracker, book>>
      BY <1>17 DEF Submit, venueVars, sessionVars
    <2>2. e \in Events
      BY <1>0, <2>1, TailFacts
    <2>3. /\ InOrder(Tail(raw)) /\ Earlier(queue, Tail(raw)) /\ Earlier(Tail(raw), wire)
          /\ NotBefore(book.seq, Tail(raw))
          /\ \A j \in DOMAIN Tail(raw) : Le(e, Tail(raw)[j])
          /\ \A j \in DOMAIN wire : Le(e, wire[j])
          /\ \A i \in DOMAIN queue : Le(queue[i], e)
          /\ e.type = "snapshot" => book.seq <= e.seq
      BY <1>0, <1>1, <2>1, ReadOrder
    <2> HIDE DEF e
    <2>4. /\ InOrder(Append(queue, e)) /\ Earlier(Append(queue, e), Tail(raw))
          /\ Earlier(Append(queue, e), wire) /\ NotBefore(book.seq, Append(queue, e))
      BY <1>0, <1>1, <2>2, <2>3, WriteOrder
    <2>5. ChannelsInOrder'
      BY <1>1, <2>1, <2>3, <2>4 DEF ChannelsInOrder
    <2> QED  BY <1>2, <2>1, <2>5
  <1>18. CASE SubmitRequest \/ Tick \/ SweepSample
    BY <1>13, <1>18 DEF SubmitRequest, Tick, SweepSample, venueVars, sessionVars, laneVars
  <1>19. CASE SubmitInvalidate \/ SweepMark
    <2>1. \A f : MarkStale(book, f).seq = book.seq /\ MarkStale(book, f).ready = book.ready
      BY <1>0 DEF MarkStale, Books
    <2>2. Invalidate(book).seq = book.seq /\ ~Invalidate(book).ready
      BY <1>0 DEF Invalidate, Books
    <2>3. /\ UNCHANGED <<vseq, image, wire, raw, queue, tracker>>
          /\ book'.seq = book.seq /\ (book'.ready => book.ready)
      BY <1>19, <2>1, <2>2 DEF SubmitInvalidate, SweepMark, venueVars, sessionVars
    <2> QED  BY <1>1, <1>2, <1>3, <2>3
  <1>20. CASE Apply
    <2> DEFINE e == Head(queue)
    <2>1. /\ queue # <<>> /\ queue' = Tail(queue) /\ UNCHANGED <<wire, raw>>
          /\ e \in Events
      BY <1>0, <1>20, TailFacts DEF Apply, sessionVars
    <2>2. TrackerAgrees' /\ book'.seq \in {book.seq, e.seq} /\ book'.seq >= book.seq
      BY <1>20, ApplyOrder
    <2>3. e.type # "control"
      BY <2>1, FrameTypes
    <2>4. /\ InOrder(Tail(queue)) /\ Earlier(Tail(queue), raw) /\ Earlier(Tail(queue), wire)
          /\ NotBefore(book.seq, Tail(queue))
          /\ \A j \in DOMAIN Tail(queue) : Le(e, Tail(queue)[j])
          /\ \A j \in DOMAIN raw : Le(e, raw[j])
          /\ \A j \in DOMAIN wire : Le(e, wire[j])
      BY <1>0, <1>1, <2>1, ReadOrder
    <2> HIDE DEF e
    <2>5. NotBefore(e.seq, Tail(queue)) /\ NotBefore(e.seq, raw) /\ NotBefore(e.seq, wire)
      BY <2>3, <2>4 DEF Le, NotBefore
    <2>6. ChannelsInOrder'
      BY <1>1, <2>1, <2>2, <2>4, <2>5 DEF ChannelsInOrder
    <2> QED  BY <2>2, <2>6
  <1>21. CASE UNCHANGED vars
    BY <1>13, <1>21 DEF vars
  <1> HIDE DEF Goal
  <1> QED  BY <1>7, <1>9, <1>10, <1>11, <1>12, <1>14, <1>15, <1>16, <1>17, <1>18, <1>19, <1>20, <1>21
              DEF Next, VenueNext, SessionNext, PipelineNext

\* An empty lane is in order.
LEMMA OrderInit == Init => OrderInv
  <1> SUFFICES ASSUME Init PROVE OrderInv
    OBVIOUS
  <1>1. TypeOK /\ HistoryIsGenuine
    BY ChainInvInit DEF ChainInv
  <1>2. ChannelsInOrder
    BY DEF Init, ChannelsInOrder, InOrder, Earlier, NotBefore
  <1>3. TrackerAgrees
    BY DEF Init, TrackerAgrees, NewTracker, NewBook
  <1> QED  BY <1>1, <1>2, <1>3 DEF OrderInv

\* The whole invariant, step by step.
LEMMA OrderInvStep ==
    ASSUME SnapshotsInOrder
    PROVE  OrderInv /\ [Next]_vars => OrderInv'
  <1> SUFFICES ASSUME OrderInv, [Next]_vars PROVE OrderInv'
    OBVIOUS
  <1>1. TypeOK' /\ ChannelsInOrder' /\ TrackerAgrees'
    BY NextType, OrderStep DEF OrderInv
  <1>2. HistoryIsGenuine'
    <2>1. CASE Next
      BY <2>1, GenuineStep DEF OrderInv
    <2>2. CASE UNCHANGED vars
      BY <2>2 DEF OrderInv, HistoryIsGenuine, vars
    <2> QED  BY <2>1, <2>2
  <1> QED  BY <1>1, <1>2 DEF OrderInv

-----------------------------------------------------------------------------
(* What the lane leaves alone. *)

\* A channel that lost its head is another one.
LEMMA SameQueue == \A q \in Seq(Events) : q # <<>> => q # Tail(q)
  <1> SUFFICES ASSUME NEW q \in Seq(Events), q # <<>> PROVE q # Tail(q)
    OBVIOUS
  <1> DEFINE a == Len(q)
  <1> DEFINE b == Len(Tail(q))
  <1>1. b = a - 1 /\ a \in Nat
    BY TailFacts
  <1>2. q = Tail(q) => b = a
    OBVIOUS
  <1> HIDE DEF a, b
  <1> QED  BY <1>1, <1>2

\* Only the lane takes events from its channel, and only what it takes makes
\* a book ready, anchors it, or moves its number and its depth.
LEMMA OnlyApplyReads ==
    ASSUME TypeOK, [Next]_vars
    PROVE  /\ queue # <<>> /\ queue' = Tail(queue) => Apply
           /\ book'.ready /\ ~book.ready => Apply
           /\ book'.seq # book.seq \/ book'.depth # book.depth => Apply
           /\ anchor' # anchor => Apply
  <1>0. /\ book \in Books /\ queue \in Seq(Events)
    BY DEF TypeOK, Books
  <1> DEFINE Still == /\ queue # <<>> => queue' # Tail(queue)
                      /\ book'.ready => book.ready
                      /\ book'.seq = book.seq /\ book'.depth = book.depth
                      /\ anchor' = anchor
  <1>1. queue # <<>> => queue # Tail(queue)
    BY <1>0, SameQueue
  <1>2. ASSUME queue' = queue, book' = book, anchor' = anchor PROVE Still
    BY <1>1, <1>2
  <1> SUFFICES ASSUME ~Apply PROVE Still
    OBVIOUS
  <1>3. CASE VenueNext
    BY <1>2, <1>3 DEF VenueNext, VenueUpdate, VenueSnapshot, VenueDepth20, VenueControl,
         VenueRedeliver, laneVars
  <1>4. CASE SessionNext
    BY <1>2, <1>4 DEF SessionNext, Connect, Disconnect, ReadResync, ReadControl,
         ReadMalformed, ReadEvent, OtherLaneResync, laneVars
  <1>5. CASE SubmitRequest \/ Tick \/ SweepSample
    BY <1>2, <1>5 DEF SubmitRequest, Tick, SweepSample, laneVars
  <1>6. CASE SubmitInvalidate \/ SweepMark
    <2>1. \A f : LET b == MarkStale(book, f)
                 IN  b.ready = book.ready /\ b.seq = book.seq /\ b.depth = book.depth
      BY <1>0 DEF MarkStale, Books
    <2>2. /\ ~Invalidate(book).ready
          /\ Invalidate(book).seq = book.seq /\ Invalidate(book).depth = book.depth
      BY <1>0 DEF Invalidate, Books
    <2>3. /\ queue' = queue /\ (book'.ready => book.ready) /\ anchor' = anchor
          /\ book'.seq = book.seq /\ book'.depth = book.depth
      BY <1>6, <2>1, <2>2 DEF SubmitInvalidate, SweepMark
    <2> QED  BY <1>1, <2>3
  <1>7. CASE Submit
    <2>1. /\ book' = book /\ queue' \in {queue, Append(queue, Head(raw))} /\ raw # <<>>
          /\ anchor' = anchor
      BY <1>7 DEF Submit
    <2>2. Head(raw) \in Events
      BY <2>1, TailFacts DEF TypeOK
    <2>3. ASSUME queue # <<>> PROVE Append(queue, Head(raw)) # Tail(queue)
      <3>1. /\ Len(Append(queue, Head(raw))) = Len(queue) + 1 /\ Len(queue) \in Nat
            /\ Len(Tail(queue)) = Len(queue) - 1
        BY <1>0, <2>2, <2>3, AppendFacts, TailFacts
      <3>2. Len(Append(queue, Head(raw))) # Len(Tail(queue))
        BY <3>1
      <3> QED  BY <3>2
    <2> QED  BY <2>1, <2>3, <1>1
  <1>8. CASE UNCHANGED vars
    BY <1>2, <1>8 DEF vars
  <1> HIDE DEF Still
  <1> QED  BY <1>3, <1>4, <1>5, <1>6, <1>7, <1>8 DEF Next, PipelineNext

\* No other step touches the venue's history.
LEMMA HistoryStands ==
    ASSUME [Next]_vars, \A skip \in Skips, levels \in SUBSET Levels : ~VenueUpdate(skip, levels)
    PROVE  image' = image
  <1>1. CASE VenueNext
    BY <1>1 DEF VenueNext, VenueSnapshot, VenueDepth20, VenueControl, VenueRedeliver, venueVars
  <1>2. CASE SessionNext
    BY <1>2 DEF SessionNext, Connect, Disconnect, ReadResync, ReadControl, ReadMalformed,
                ReadEvent, OtherLaneResync, venueVars
  <1>3. CASE PipelineNext
    BY <1>3 DEF PipelineNext, Submit, SubmitInvalidate, SubmitRequest, Apply, Tick,
                SweepSample, SweepMark, venueVars
  <1>4. CASE UNCHANGED vars
    BY <1>4 DEF vars
  <1> QED  BY <1>1, <1>2, <1>3, <1>4 DEF Next

\* The venue's history only grows.
LEMMA HistoryStays ==
    ASSUME TypeOK, HistoryIsGenuine, [Next]_vars
    PROVE  \A s \in DOMAIN image : s \in DOMAIN image' /\ image'[s] = image[s]
  <1>1. CASE \E skip \in Skips, levels \in SUBSET Levels : VenueUpdate(skip, levels)
    BY <1>1, HistoryGrows
  <1>2. CASE \A skip \in Skips, levels \in SUBSET Levels : ~VenueUpdate(skip, levels)
    BY <1>2, HistoryStands
  <1> QED  BY <1>1, <1>2
-----------------------------------------------------------------------------
(* What a ready book may lack. *)

\* The lane takes an event: a snapshot anchors the book anew, and a delta that
\* is accepted moves every level the venue has moved.
LEMMA HeldApply ==
    ASSUME OrderInv, ReadyBookLacksOnlyDepth, Apply
    PROVE  ReadyBookLacksOnlyDepth'
  <1> DEFINE e == Head(queue)
  <1>0. /\ TypeOK /\ HistoryIsGenuine /\ TrackerAgrees /\ book \in Books
        /\ e \in Events /\ Genuine(image, e) /\ image' = image
        /\ queue # <<>> /\ queue' = Tail(queue)
    BY ChannelStaysGenuine, TailFacts
       DEF OrderInv, TypeOK, Books, HistoryIsGenuine, Apply, venueVars
  <1>1. anchor' = IF e.type = "snapshot" THEN e.seq ELSE anchor
    BY DEF Apply, ApplySnapshotEvent, ApplyDeltaEvent
  <1>2. CASE e.type = "snapshot" /\ ApplySnapshotEvent(e)
    <2>1. book'.seq = e.seq /\ book'.depth = e.depth
      BY <1>2 DEF ApplySnapshotEvent, MarkStale, LoadSnapshot
    <2>2. /\ e.seq \in DOMAIN image
          /\ \A l \in Levels : e.depth[l] \in {0, image[e.seq][l]}
          /\ ~UsesBinanceRule(Venue) => e.depth = image[e.seq]
      BY <1>0, <1>2 DEF Genuine
    <2> HIDE DEF e
    <2> QED  BY <1>0, <1>1, <1>2, <2>1, <2>2 DEF ReadyBookLacksOnlyDepth, LacksOnlyDepth
  <1>3. CASE /\ e.type = "delta" /\ ApplyDeltaEvent(e)
             /\ Check(Venue, tracker, e) = "apply" /\ book.ready
    <2>1. /\ {anchor, book.seq} \subseteq DOMAIN image
          /\ LacksOnlyDepth(book.depth, anchor, book.seq) /\ anchor' = anchor
      BY <1>1, <1>3 DEF ReadyBookLacksOnlyDepth
    <2>2. e \in Deltas /\ e.seq \in DOMAIN image
      BY <1>0, <1>3, FrameTypes DEF Genuine
    <2>3. FollowsFrom(image, e, book.seq)
      BY <1>0, <1>3, <2>2, AcceptedDelta
    <2>4. book' = MarkStale(ApplyDelta(book, e), FALSE)
      BY <1>3 DEF ApplyDeltaEvent
    <2> HIDE DEF e
    <2>5. book'.seq = e.seq /\ book'.depth = Patch(book.depth, e.levels, e.seq)
      BY <1>0, <2>4 DEF MarkStale, ApplyDelta, Books
    <2>6. image[e.seq] = Patch(image[book.seq], e.levels, e.seq)
      BY <2>3 DEF FollowsFrom
    <2>7. ASSUME NEW l \in Levels
          PROVE  /\ l \in e.levels => book'.depth[l] = image[e.seq][l]
                 /\ l \notin e.levels => /\ book'.depth[l] = book.depth[l]
                                        /\ image[e.seq][l] = image[book.seq][l]
      BY <2>5, <2>6 DEF Patch
    <2>8. LacksOnlyDepth(book'.depth, anchor, e.seq)
      BY <2>1, <2>7 DEF LacksOnlyDepth
    <2> QED  BY <1>0, <2>1, <2>2, <2>5, <2>8 DEF ReadyBookLacksOnlyDepth, LacksOnlyDepth
  <1>4. CASE e.type = "delta" /\ ~(Check(Venue, tracker, e) = "apply" /\ book.ready)
    <2>1. CASE book'.ready
      <3>1. ApplyDeltaEvent(e) /\ book.ready /\ Check(Venue, tracker, e) # "apply"
        BY <1>0, <1>4, <2>1, ApplyOrder DEF Apply
      <3>2. book' \in {book, Invalidate(book)}
        BY <3>1 DEF ApplyDeltaEvent
      <3>3. ~Invalidate(book).ready
        BY <1>0 DEF Invalidate, Books
      <3>4. book' = book /\ anchor' = anchor
        BY <1>1, <1>4, <2>1, <3>2, <3>3
      <3> QED  BY <1>0, <3>4 DEF ReadyBookLacksOnlyDepth, LacksOnlyDepth
    <2>2. CASE ~book'.ready
      BY <2>2 DEF ReadyBookLacksOnlyDepth
    <2> QED  BY <2>1, <2>2
  <1> QED  BY <1>2, <1>3, <1>4 DEF Apply

\* Every other step leaves the book's levels and the venue's past alone.
LEMMA HeldStep ==
    ASSUME OrderInv, ReadyBookLacksOnlyDepth, [Next]_vars
    PROVE  ReadyBookLacksOnlyDepth'
  <1>1. CASE Apply
    BY <1>1, HeldApply
  <1>2. CASE UNCHANGED vars
    BY <1>2 DEF vars, ReadyBookLacksOnlyDepth, LacksOnlyDepth
  <1>3. CASE ~Apply /\ Next
    <2>0. TypeOK /\ HistoryIsGenuine
      BY <1>3 DEF OrderInv
    <2>1. /\ book'.ready => book.ready
          /\ book'.seq = book.seq /\ book'.depth = book.depth /\ anchor' = anchor
      BY <1>3, <2>0, OnlyApplyReads DEF TypeOK
    <2>2. \A s \in DOMAIN image : s \in DOMAIN image' /\ image'[s] = image[s]
      BY <1>3, <2>0, HistoryStays
    <2> QED  BY <2>1, <2>2 DEF ReadyBookLacksOnlyDepth, LacksOnlyDepth
  <1> QED  BY <1>1, <1>2, <1>3

\* The invariant of the lane with its view.
LEMMA ViewInvariant ==
    ASSUME SnapshotsInOrder
    PROVE  /\ Init => OrderInv /\ ReadyBookLacksOnlyDepth
           /\ OrderInv /\ ReadyBookLacksOnlyDepth /\ [Next]_vars
                 => OrderInv' /\ ReadyBookLacksOnlyDepth'
  <1>1. Init => OrderInv /\ ReadyBookLacksOnlyDepth
    <2> SUFFICES ASSUME Init PROVE OrderInv /\ ReadyBookLacksOnlyDepth
      OBVIOUS
    <2>1. OrderInv /\ ~book.ready
      BY OrderInit DEF Init, NewBook
    <2> QED  BY <2>1 DEF ReadyBookLacksOnlyDepth
  <1>2. ASSUME OrderInv, ReadyBookLacksOnlyDepth, [Next]_vars
        PROVE  OrderInv' /\ ReadyBookLacksOnlyDepth'
    BY <1>2, OrderInvStep, HeldStep
  <1> QED  BY <1>1, <1>2

\* A book that readers may trade on has no level that the venue has replaced:
\* it is the venue's own book at the sequence number it carries, for Binance
\* less the levels that the last depth20 image left out and no update has
\* named since.  Binance's images must not lag behind its deltas; the levels,
\* the size of the images, the skips of the numbering, the capacities, and
\* the losses, repeats and reconnects are any.
THEOREM ReadyBookCurrent ==
    ASSUME SnapshotsInOrder
    PROVE  Spec => []ReadyBookLacksOnlyDepth
  BY ViewInvariant, PTL DEF Spec
-----------------------------------------------------------------------------
(* The lane implements the contract of a published view. *)

\* A step of the venue is the market moving, with the view unchanged.
LEMMA MarketStep ==
    ASSUME OrderInv, Next,
           NEW skip \in Skips, NEW levels \in SUBSET Levels, VenueUpdate(skip, levels)
    PROVE  Contract!Market
  <1>1. TypeOK /\ HistoryIsGenuine
    BY DEF OrderInv
  <1>2. /\ DOMAIN image' = DOMAIN image \cup {vseq + skip}
        /\ \A s \in DOMAIN image : s < vseq + skip /\ image'[s] = image[s]
    BY <1>1, HistoryGrows
  <1>3. View' = View
    BY DEF VenueUpdate, laneVars, View
  <1> QED  BY <1>2, <1>3 DEF Contract!Market

\* A step of the lane shows readers a book that is not older, or none.
LEMMA PublishStep ==
    ASSUME SnapshotsInOrder, OrderInv, ReadyBookLacksOnlyDepth, Next, image' = image
    PROVE  Contract!Withdraw \/ Contract!Publish
  <1>0. [Next]_vars
    OBVIOUS
  <1>1. book'.seq >= book.seq /\ ReadyBookLacksOnlyDepth' /\ OrderInv'
    BY <1>0, OrderStep, ViewInvariant
  <1>2. /\ View.seq = book.seq /\ View.anchor = anchor
        /\ View'.ready = book'.ready /\ View'.seq = book'.seq
        /\ View'.depth = book'.depth /\ View'.anchor = anchor'
    BY DEF View
  <1>3. anchor' = anchor \/ (book'.ready /\ anchor' = book'.seq)
    <2>1. CASE Apply
      BY <2>1, ApplyOrder DEF Apply, ApplySnapshotEvent, ApplyDeltaEvent
    <2>2. CASE ~Apply
      BY <1>0, <2>2, OnlyApplyReads DEF OrderInv
    <2> QED  BY <2>1, <2>2
  <1>4. CASE book'.ready
    <2>1. /\ {anchor', book'.seq} \subseteq DOMAIN image
          /\ \A l \in Levels : \/ book'.depth[l] = image[book'.seq][l]
                              \/ /\ UsesBinanceRule(Venue) /\ book'.depth[l] = 0
                                 /\ image[book'.seq][l] = image[anchor'][l]
      BY <1>1, <1>4 DEF ReadyBookLacksOnlyDepth, LacksOnlyDepth
    <2>2. DOMAIN book'.depth = Levels /\ DOMAIN image[book'.seq] = Levels
      <3>1. book'.depth \in Depths
        BY <1>1 DEF OrderInv, TypeOK
      <3>2. image[book'.seq] \in Depths
        BY <2>1 DEF OrderInv, TypeOK
      <3> QED  BY <3>1, <3>2 DEF Depths
    <2> QED  BY <1>1, <1>2, <1>3, <1>4, <2>1, <2>2 DEF Contract!Publish, Contract!LeftOut
  <1>5. CASE ~book'.ready
    BY <1>1, <1>2, <1>3, <1>5 DEF Contract!Withdraw
  <1> QED  BY <1>4, <1>5

\* Readers of the published view see it withdrawn, or the venue's book, which
\* for Binance may lack what its partial images leave out, and never an older
\* one than before: the pipeline with its channels, sessions, trackers,
\* overloads and sweeps is a correct implementation of BookContract.
THEOREM LaneKeepsContract ==
    ASSUME SnapshotsInOrder
    PROVE  Spec => ImplementsContract
  <1>1. Init => Contract!Init
    <2> SUFFICES ASSUME Init PROVE Contract!Init
      OBVIOUS
    <2>1. book.ready = FALSE /\ book.seq = 0 /\ anchor = 0
      BY DEF Init, NewBook
    <2> QED  BY <2>1 DEF View, Contract!Init
  <1>2. OrderInv /\ ReadyBookLacksOnlyDepth /\ [Next]_vars
            => [Contract!Market \/ Contract!Withdraw \/ Contract!Publish]_<<image, View>>
    <2> SUFFICES ASSUME OrderInv, ReadyBookLacksOnlyDepth, [Next]_vars
                 PROVE  \/ Contract!Market \/ Contract!Withdraw \/ Contract!Publish
                        \/ UNCHANGED <<image, View>>
      OBVIOUS
    <2>1. CASE UNCHANGED vars
      BY <2>1 DEF vars, View
    <2>2. CASE Next /\ \E skip \in Skips, levels \in SUBSET Levels : VenueUpdate(skip, levels)
      BY <2>2, MarketStep
    <2>3. CASE Next /\ \A skip \in Skips, levels \in SUBSET Levels : ~VenueUpdate(skip, levels)
      <3>1. image' = image
        BY <2>3, HistoryStands
      <3> QED  BY <2>3, <3>1, PublishStep
    <2> QED  BY <2>1, <2>2, <2>3
  <1> QED  BY <1>1, <1>2, ViewInvariant, PTL DEF Spec, ImplementsContract, Contract!Spec
-----------------------------------------------------------------------------
(* After a gap. *)

\* A bound on the snapshots on the way stays one: the venue sends no older
\* ones.
LEMMA BoundStep ==
    ASSUME SnapshotsInOrder, OrderInv, [Next]_vars, NEW n \in Nat, n <= vseq,
           NotBefore(n, queue), NotBefore(n, raw), NotBefore(n, wire)
    PROVE  /\ NotBefore(n, queue') /\ NotBefore(n, raw') /\ NotBefore(n, wire')
           /\ vseq' \in Nat /\ n <= vseq'
  <1>0. /\ TypeOK /\ HistoryIsGenuine /\ vseq \in Nat /\ vseq \in DOMAIN image
        /\ DOMAIN image \subseteq Nat /\ \A s \in DOMAIN image : s <= vseq
        /\ wire \in Seq(Frames) /\ raw \in Seq(Events) /\ queue \in Seq(Events)
    BY DEF OrderInv, TypeOK, HistoryIsGenuine
  <1> DEFINE Goal == /\ NotBefore(n, queue') /\ NotBefore(n, raw') /\ NotBefore(n, wire')
                     /\ vseq' \in Nat /\ n <= vseq'
  <1> SUFFICES Goal
    OBVIOUS
  <1>1. ASSUME vseq' = vseq, UNCHANGED <<raw, queue>>,
               wire' = wire \/ wire' = <<>> \/ (wire # <<>> /\ wire' = Tail(wire))
        PROVE  Goal
    <2>1. NotBefore(n, <<>>)
      BY DEF NotBefore
    <2>2. wire # <<>> => NotBefore(n, Tail(wire))
      BY <1>0, ReadOrder
    <2> QED  BY <1>0, <1>1, <2>1, <2>2
  <1>2. ASSUME vseq' \in Nat, vseq' >= vseq, UNCHANGED <<raw, queue>>, NEW e \in Frames,
               e.type = "snapshot" => e.seq = vseq, wire' \in {wire, Append(wire, e)}
        PROVE  Goal
    <2>0. e \in Frames /\ (e.type = "snapshot" => n <= e.seq)
      BY <1>2
    <2>1. NotBefore(n, Append(wire, e))
      BY <1>0, <2>0, WriteOrder
    <2>2. NotBefore(n, wire') /\ NotBefore(n, raw') /\ NotBefore(n, queue')
      BY <1>2, <2>1
    <2>3. vseq' \in Nat /\ n <= vseq'
      BY <1>0, <1>2
    <2> QED  BY <2>2, <2>3
  <1>3. ASSUME NEW skip \in Skips, NEW levels \in SUBSET Levels, VenueUpdate(skip, levels)
        PROVE  Goal
    <2> DEFINE d == Delta(vseq + skip, PrevSequence(vseq + skip, vseq), levels)
    <2>1. UNCHANGED <<raw, queue>> /\ wire' \in {wire, Append(wire, d)}
      BY <1>3 DEF VenueUpdate, laneVars
    <2>2. d \in Frames
      BY <1>0, <1>3, NewDeltaIsGenuine
    <2>3. d.type # "snapshot"
      BY DEF Delta
    <2>4. vseq + skip \in Nat /\ vseq < vseq + skip /\ vseq' = vseq + skip /\ skip \in Nat
      BY <1>0, <1>3, HistoryGrows, LaneAssumption
    <2>5. vseq' \in Nat /\ vseq' >= vseq
      BY <1>0, <2>4
    <2> HIDE DEF d
    <2> QED  BY <1>2, <2>1, <2>2, <2>3, <2>5
  <1>4. ASSUME UNCHANGED <<vseq, raw, queue>>, NEW depth \in Depths,
               wire' = Append(wire, Snapshot(vseq, depth))
        PROVE  Goal
    <2> DEFINE e == Snapshot(vseq, depth)
    <2>1. e \in Frames /\ e.seq = vseq /\ wire' = Append(wire, e)
      BY <1>0, <1>4, FrameTypes DEF Snapshot
    <2> HIDE DEF e
    <2> QED  BY <1>0, <1>2, <1>4, <2>1
  <1>5. CASE VenueSnapshot
    <2>1. image[vseq] \in Depths
      BY <1>0 DEF TypeOK
    <2> QED  BY <1>4, <1>5, <2>1 DEF VenueSnapshot, venueVars, laneVars
  <1>6. ASSUME NEW seq \in DOMAIN image, NEW top \in SUBSET Levels, VenueDepth20(seq, top)
        PROVE  Goal
    <2>1. SnapshotLag = 0 /\ vseq - seq <= SnapshotLag
      BY <1>6 DEF VenueDepth20, UsesBinanceRule, SnapshotsInOrder
    <2>2. seq = vseq
      BY <1>0, <2>1
    <2>3. TopOf(image[vseq], top) \in Depths
      BY <1>0, PatchType DEF TypeOK
    <2> QED  BY <1>4, <1>6, <2>2, <2>3 DEF VenueDepth20, venueVars, laneVars
  <1>7. CASE VenueControl
    <2>1. Control \in Frames /\ Control.type # "snapshot"
      BY FrameTypes DEF Control
    <2>2. wire' = Append(wire, Control) /\ UNCHANGED <<vseq, raw, queue>>
      BY <1>7 DEF VenueControl, venueVars, laneVars
    <2> QED  BY <1>0, <1>2, <2>1, <2>2
  <1>8. ASSUME NEW i \in DOMAIN wire, VenueRedeliver(i) PROVE Goal
    <2>1. wire[i] \in Frames /\ wire[i].type # "snapshot"
      BY <1>0, <1>8 DEF VenueRedeliver
    <2>2. wire' = Append(wire, wire[i]) /\ UNCHANGED <<vseq, raw, queue>>
      BY <1>8 DEF VenueRedeliver, venueVars, laneVars
    <2> QED  BY <1>0, <1>2, <2>1, <2>2
  <1>9. CASE Connect \/ OtherLaneResync \/ Disconnect \/ ReadResync \/ ReadControl \/ ReadMalformed
    BY <1>1, <1>9 DEF Connect, OtherLaneResync, Disconnect, ReadResync, ReadControl,
         ReadMalformed, DropSession, venueVars, laneVars, sessionVars
  <1>10. CASE SubmitInvalidate \/ SubmitRequest \/ Tick \/ SweepSample \/ SweepMark
    BY <1>1, <1>10 DEF SubmitInvalidate, SubmitRequest, Tick, SweepSample, SweepMark,
         venueVars, laneVars, sessionVars
  <1>11. CASE ReadEvent
    <2> DEFINE e == [Head(wire) EXCEPT !.at = now]
    <2>1. /\ wire # <<>> /\ Head(wire) # Control /\ wire' = Tail(wire)
          /\ raw' \in {raw, Append(raw, e)} /\ UNCHANGED <<vseq, queue>>
      BY <1>11 DEF ReadEvent, venueVars, laneVars
    <2>2. Head(wire) \in Events
      BY <1>0, <2>1, TailFacts, FrameTypes
    <2>3. e \in Events /\ e.type = Head(wire).type /\ e.seq = Head(wire).seq
      BY <1>0, <2>2, StampFacts DEF TypeOK
    <2> HIDE DEF e
    <2>4. NotBefore(n, Tail(wire)) /\ (e.type = "snapshot" => n <= e.seq)
      BY <1>0, <2>1, <2>3, ReadOrder
    <2>5. NotBefore(n, Append(raw, e))
      BY <1>0, <2>3, <2>4, WriteOrder
    <2> QED  BY <1>0, <2>1, <2>4, <2>5
  <1>12. CASE Submit
    <2>1. /\ raw # <<>> /\ raw' = Tail(raw) /\ queue' \in {queue, Append(queue, Head(raw))}
          /\ UNCHANGED <<vseq, wire>>
      BY <1>12 DEF Submit, venueVars, sessionVars
    <2>2. Head(raw) \in Events
      BY <1>0, <2>1, TailFacts
    <2>3. NotBefore(n, Tail(raw)) /\ (Head(raw).type = "snapshot" => n <= Head(raw).seq)
      BY <1>0, <2>1, ReadOrder
    <2>4. NotBefore(n, Append(queue, Head(raw)))
      BY <1>0, <2>2, <2>3, WriteOrder
    <2> QED  BY <1>0, <2>1, <2>3, <2>4
  <1>13. CASE Apply
    <2>1. queue # <<>> /\ queue' = Tail(queue) /\ UNCHANGED <<vseq, wire, raw>>
      BY <1>13 DEF Apply, venueVars, sessionVars
    <2>2. NotBefore(n, Tail(queue))
      BY <1>0, <2>1, ReadOrder
    <2> QED  BY <1>0, <2>1, <2>2
  <1>14. CASE UNCHANGED vars
    BY <1>1, <1>14 DEF vars
  <1> HIDE DEF Goal
  <1> QED  BY <1>3, <1>5, <1>6, <1>7, <1>8, <1>9, <1>10, <1>11, <1>12, <1>13, <1>14
              DEF Next, VenueNext, SessionNext, PipelineNext

\* Everything that can make the book ready contains the gap.
GapInv ==
    /\ gapAt \in Nat /\ gapAt <= vseq
    /\ book.ready => book.seq >= gapAt
    /\ NotBefore(gapAt, queue) /\ NotBefore(gapAt, raw) /\ NotBefore(gapAt, wire)

\* A new gap is older than all that is still behind it in the channels.
LEMMA GapStep ==
    ASSUME SnapshotsInOrder, OrderInv, GapInv, [HistoryNext]_<<vars, historyVars>>
    PROVE  GapInv'
  <1>0. /\ TypeOK /\ HistoryIsGenuine /\ ChannelsInOrder /\ [Next]_vars
        /\ queue \in Seq(Events) /\ book.seq \in Nat /\ gapAt \in Nat
        /\ NotBefore(gapAt, queue) /\ NotBefore(gapAt, raw) /\ NotBefore(gapAt, wire)
        /\ gapAt <= vseq /\ vseq \in Nat
    BY DEF OrderInv, TypeOK, GapInv, HistoryNext
  <1>1. /\ NotBefore(gapAt, queue') /\ NotBefore(gapAt, raw') /\ NotBefore(gapAt, wire')
        /\ vseq' \in Nat /\ gapAt <= vseq'
    BY <1>0, BoundStep
  <1>2. book'.seq >= book.seq /\ book'.seq \in Nat
    <2>1. book'.seq >= book.seq
      BY <1>0, OrderStep
    <2>2. TypeOK'
      BY <1>0, NextType
    <2> QED  BY <2>1, <2>2 DEF TypeOK
  <1>3. ASSUME gapAt' = gapAt PROVE GapInv'
    <2>1. ASSUME book'.ready PROVE book'.seq >= gapAt
      <3>1. CASE book.ready
        BY <1>0, <1>2, <3>1 DEF GapInv
      <3>2. CASE ~book.ready
        <4>1. Apply
          BY <1>0, <2>1, <3>2, OnlyApplyReads
        <4>2. queue # <<>> /\ Head(queue) \in Events
          BY <1>0, <4>1, TailFacts DEF Apply
        <4>3. Head(queue).type = "snapshot" /\ book'.seq = Head(queue).seq
          BY <2>1, <3>2, <4>1, <4>2, ApplyOrder, FrameTypes
        <4>4. gapAt <= Head(queue).seq
          BY <1>0, <4>2, <4>3, ReadOrder
        <4> QED  BY <1>0, <1>2, <4>3, <4>4
      <3> QED  BY <3>1, <3>2
    <2> QED  BY <1>0, <1>1, <1>3, <2>1 DEF GapInv
  <1>4. CASE gapAt' # gapAt
    <2> DEFINE e == Head(queue)
    <2>1. DetectsGap /\ gapAt' \in {gapAt, e.seq} /\ gapAt' = e.seq
      BY <1>4 DEF HistoryNext, historyVars, Larger
    <2>2. /\ queue # <<>> /\ queue' = Tail(queue) /\ e.type = "delta"
          /\ Check(Venue, tracker, e) = "gap"
      BY <2>1 DEF DetectsGap
    <2>3. Apply
      BY <1>0, <2>2, OnlyApplyReads
    <2>4. ~book'.ready
      BY <2>2, <2>3, ApplyOrder
    <2>5. e.seq \in Nat /\ e.seq <= vseq
      <3>1. 1 \in DOMAIN queue /\ e = queue[1] /\ AllGenuine(image, queue)
        BY <1>0, <2>2, TailFacts DEF HistoryIsGenuine
      <3> QED  BY <1>0, <2>2, <3>1, SentIsPast
    <2>6. NotBefore(e.seq, Tail(queue)) /\ NotBefore(e.seq, raw) /\ NotBefore(e.seq, wire)
      <3>1. /\ \A j \in DOMAIN Tail(queue) : Le(e, Tail(queue)[j])
            /\ \A j \in DOMAIN raw : Le(e, raw[j])
            /\ \A j \in DOMAIN wire : Le(e, wire[j])
        BY <1>0, <2>2, ReadOrder DEF ChannelsInOrder
      <3> HIDE DEF e
      <3> QED  BY <2>2, <3>1 DEF Le, NotBefore
    <2>7. UNCHANGED <<vseq, raw, wire>>
      BY <2>3 DEF Apply, venueVars, sessionVars
    <2> HIDE DEF e
    <2> QED  BY <2>1, <2>2, <2>4, <2>5, <2>6, <2>7 DEF GapInv
  <1> QED  BY <1>3, <1>4

\* After a gap the book is ready again only on an image that contains the
\* delta that exposed it, on every venue that sends its snapshots in order.
THEOREM GapIsRepairedByFresherImage ==
    ASSUME SnapshotsInOrder
    PROVE  HistorySpec => []FreshAfterGap
  <1>1. HistoryInit => OrderInv /\ GapInv
    <2> SUFFICES ASSUME HistoryInit PROVE OrderInv /\ GapInv
      OBVIOUS
    <2>1. OrderInv
      BY OrderInit DEF HistoryInit
    <2>2. GapInv
      BY DEF HistoryInit, Init, GapInv, NotBefore, NewBook
    <2> QED  BY <2>1, <2>2
  <1>2. OrderInv /\ GapInv /\ [HistoryNext]_<<vars, historyVars>> => OrderInv' /\ GapInv'
    <2> SUFFICES ASSUME OrderInv, GapInv, [HistoryNext]_<<vars, historyVars>>
                 PROVE  OrderInv' /\ GapInv'
      OBVIOUS
    <2>1. [Next]_vars
      BY DEF HistoryNext
    <2> QED  BY <2>1, OrderInvStep, GapStep
  <1>3. GapInv => FreshAfterGap
    BY DEF GapInv, FreshAfterGap
  <1> QED  BY <1>1, <1>2, <1>3, PTL DEF HistorySpec
-----------------------------------------------------------------------------
(* The quiet lane.                                                         *)
(*                                                                         *)
(* While the session streams and no repair is pending, everything the      *)
(* venue has emitted beyond the book, or beyond a snapshot on its way to   *)
(* the book, is on its way too.  That needs the venue to start a session   *)
(* with a snapshot (Binance does not), every frame to be parsed, and room  *)
(* in the raw channel: what the handler skips or the read loop's select    *)
(* drops leaves no trace in the lane.                                      *)

RawHasRoom == Len(raw) < RawCap

Carries(q, type, s) == \E i \in DOMAIN q : q[i].type = type /\ q[i].seq = s

OnTheWay(type, s) == Carries(queue, type, s) \/ Carries(raw, type, s) \/ Carries(wire, type, s)

Covers(n) == \A s \in DOMAIN image : s > n => OnTheWay("delta", s)

Undisturbed == conn = "streaming" /\ ~resync /\ ingest = "idle"

CoverInv ==
    Undisturbed => \/ book.ready /\ Covers(book.seq)
                   \/ \E n \in DOMAIN image : OnTheWay("snapshot", n) /\ Covers(n)

\* What a channel carries when it is written to and read from.
LEMMA CarryFacts ==
    ASSUME NEW S, NEW q \in Seq(S), NEW type, NEW s
    PROVE  /\ \A e \in S : Carries(q, type, s) => Carries(Append(q, e), type, s)
           /\ \A e \in S : e.type = type /\ e.seq = s => Carries(Append(q, e), type, s)
           /\ q # <<>> /\ Carries(q, type, s) =>
                 \/ Head(q).type = type /\ Head(q).seq = s
                 \/ Carries(Tail(q), type, s)
           /\ q # <<>> /\ Carries(Tail(q), type, s) => Carries(q, type, s)
  <1>1. ASSUME NEW e \in S, Carries(q, type, s) PROVE Carries(Append(q, e), type, s)
    BY <1>1, AppendFacts DEF Carries
  <1>2. ASSUME NEW e \in S, e.type = type, e.seq = s PROVE Carries(Append(q, e), type, s)
    BY <1>2, AppendFacts DEF Carries
  <1>3. ASSUME q # <<>>, Carries(q, type, s)
        PROVE  (Head(q).type = type /\ Head(q).seq = s) \/ Carries(Tail(q), type, s)
    <2>1. PICK i \in DOMAIN q : q[i].type = type /\ q[i].seq = s
      BY <1>3 DEF Carries
    <2>2. CASE i = 1
      BY <1>3, <2>1, <2>2, TailFacts
    <2>3. CASE i - 1 \in DOMAIN Tail(q) /\ Tail(q)[i - 1] = q[i]
      BY <2>1, <2>3 DEF Carries
    <2> QED  BY <1>3, <2>2, <2>3, TailFacts
  <1>4. ASSUME q # <<>>, Carries(Tail(q), type, s) PROVE Carries(q, type, s)
    BY <1>4, TailFacts DEF Carries
  <1> QED  BY <1>1, <1>2, <1>3, <1>4

\* A step that loses nothing on its way keeps the cover.
LEMMA NothingLost ==
    ASSUME CoverInv, Undisturbed' => Undisturbed, image' = image,
           book'.ready = book.ready, book'.seq = book.seq,
           \A type \in {"snapshot", "delta"} : \A s : OnTheWay(type, s) => OnTheWay(type, s)'
    PROVE  CoverInv'
  <1> SUFFICES ASSUME Undisturbed'
               PROVE  \/ book'.ready /\ Covers(book.seq)'
                      \/ \E n \in DOMAIN image' : OnTheWay("snapshot", n)' /\ Covers(n)'
    BY DEF CoverInv
  <1>1. \A n : Covers(n) => Covers(n)'
    BY DEF Covers
  <1> QED  BY <1>1 DEF CoverInv

\* The lane takes an event: what it removes is contained in what remains.
LEMMA ApplyCover ==
    ASSUME Venue # "binance", OrderInv, CoverInv, Apply
    PROVE  CoverInv'
  <1> DEFINE e == Head(queue)
  <1>0. /\ TypeOK /\ HistoryIsGenuine /\ ChannelsInOrder /\ TrackerAgrees
        /\ queue \in Seq(Events) /\ book \in Books /\ book.seq \in Nat
        /\ DOMAIN image \subseteq Nat
        /\ queue # <<>> /\ queue' = Tail(queue)
        /\ UNCHANGED <<image, conn, wire, raw, ingest>>
    BY DEF OrderInv, TypeOK, Books, Apply, venueVars, sessionVars
  <1>1. e \in Events /\ e.seq \in Nat /\ e.type \in {"snapshot", "delta"}
    BY <1>0, TailFacts DEF Events, Snapshots, Deltas
  <1>2. \A type, s : OnTheWay(type, s) => (e.type = type /\ e.seq = s) \/ OnTheWay(type, s)'
    BY <1>0, CarryFacts DEF OnTheWay
  <1>3. \A n : OnTheWay("snapshot", n)' => e.seq <= n
    <2>1. /\ \A j \in DOMAIN Tail(queue) : Le(e, Tail(queue)[j])
          /\ \A j \in DOMAIN raw : Le(e, raw[j])
          /\ \A j \in DOMAIN wire : Le(e, wire[j])
      BY <1>0, ReadOrder DEF ChannelsInOrder
    <2> HIDE DEF e
    <2> QED  BY <1>0, <1>1, <2>1 DEF Le, OnTheWay, Carries
  <1>4. e.type = "snapshot" => e.seq >= book.seq
    BY <1>0, <1>1, ReadOrder DEF ChannelsInOrder
  <1>5. /\ e.type = "snapshot" => book'.ready /\ book'.seq = e.seq
        /\ book'.seq \in {book.seq, e.seq} /\ book'.seq >= book.seq
    BY ApplyOrder
  <1>6. ASSUME e.type = "delta", ~resync'
        PROVE  ~resync /\ book'.ready = book.ready /\ e.seq <= book'.seq
    <2>1. ApplyDeltaEvent(e)
      BY <1>6 DEF Apply
    <2>2. resync' = resync /\ Check(Venue, tracker, e) \notin {"gap", "need_snapshot"}
      BY <1>6, <2>1 DEF ApplyDeltaEvent, RequestResync
    <2>3. tracker.lastSeq = book.seq /\ tracker \in [ready : BOOLEAN, lastSeq : Nat]
      BY <1>0 DEF TrackerAgrees, TypeOK
    <2>4. CASE Check(Venue, tracker, e) = "apply"
      <3>1. book' = MarkStale(ApplyDelta(book, e), FALSE)
        BY <2>1, <2>4 DEF ApplyDeltaEvent
      <3>2. book'.ready = book.ready /\ book'.seq = e.seq
        <4> HIDE DEF e
        <4> QED  BY <1>0, <3>1 DEF MarkStale, ApplyDelta, Books
      <3> QED  BY <1>1, <1>6, <2>2, <3>2
    <2>5. CASE Check(Venue, tracker, e) # "apply"
      <3>1. book' = book
        BY <2>1, <2>2, <2>5 DEF ApplyDeltaEvent
      <3>2. e.seq <= tracker.lastSeq
        <4> HIDE DEF e
        <4> QED  BY <1>1, <2>2, <2>3, <2>5 DEF Check, ChainCheck, UsesBinanceRule
      <3> QED  BY <1>6, <2>2, <2>3, <3>1, <3>2
    <2> QED  BY <2>4, <2>5
  <1>7. e.type = "snapshot" => resync' = resync
    BY DEF Apply, ApplySnapshotEvent
  <1> HIDE DEF e
  <1> DEFINE CoversNext(n) == \A s \in DOMAIN image' : s > n => OnTheWay("delta", s)'
  <1>8. (Covers(book.seq)' <=> CoversNext(book'.seq)) /\ \A n : Covers(n)' <=> CoversNext(n)
    BY DEF Covers
  <1> SUFFICES ASSUME Undisturbed'
               PROVE  \/ book'.ready /\ CoversNext(book'.seq)
                      \/ \E n \in DOMAIN image' : OnTheWay("snapshot", n)' /\ CoversNext(n)
    BY <1>8 DEF CoverInv
  <1>9. Undisturbed
    BY <1>0, <1>1, <1>6, <1>7 DEF Undisturbed
  <1>10. ASSUME NEW n \in Nat, Covers(n), NEW k \in Nat, n <= k, e.type = "delta" => e.seq <= k
        PROVE  CoversNext(k)
    <2> SUFFICES ASSUME NEW s \in DOMAIN image, s > k PROVE OnTheWay("delta", s)'
      BY <1>0
    <2>1. s \in Nat /\ s > n
      BY <1>0, <1>10
    <2>2. OnTheWay("delta", s)
      BY <1>10, <2>1 DEF Covers
    <2>3. ~(e.type = "delta" /\ e.seq = s)
      BY <1>1, <1>10, <2>1
    <2> QED  BY <1>2, <2>2, <2>3
  <1> HIDE DEF CoversNext
  <1>11. ASSUME book.ready, Covers(book.seq) PROVE book'.ready /\ CoversNext(book'.seq)
    <2>1. book'.ready
      BY <1>1, <1>5, <1>6, <1>11 DEF Undisturbed
    <2>2. book'.seq \in Nat /\ book.seq <= book'.seq
      BY <1>0, <1>1, <1>5
    <2>3. e.type = "delta" => e.seq <= book'.seq
      BY <1>6 DEF Undisturbed
    <2> QED  BY <1>0, <1>10, <1>11, <2>1, <2>2, <2>3
  <1>12. ASSUME NEW n \in DOMAIN image, OnTheWay("snapshot", n), Covers(n)
         PROVE  \/ book'.ready /\ CoversNext(book'.seq)
                \/ \E m \in DOMAIN image' : OnTheWay("snapshot", m)' /\ CoversNext(m)
    <2>1. CASE e.type = "snapshot" /\ e.seq = n
      <3>1. book'.ready /\ book'.seq = n
        BY <1>5, <2>1
      <3> QED  BY <1>0, <1>10, <1>12, <2>1, <3>1
    <2>2. CASE OnTheWay("snapshot", n)'
      <3>1. e.seq <= n
        BY <1>3, <2>2
      <3> QED  BY <1>0, <1>10, <1>12, <2>2, <3>1
    <2> QED  BY <1>2, <1>12, <2>1, <2>2
  <1> QED  BY <1>9, <1>11, <1>12 DEF CoverInv

\* Every other step.
LEMMA CoverStep ==
    ASSUME Venue # "binance", "malformed" \notin FaultKinds, RawHasRoom,
           OrderInv, CoverInv, [Next]_vars
    PROVE  CoverInv'
  <1>0. /\ TypeOK /\ HistoryIsGenuine /\ vseq \in Nat /\ DOMAIN image \subseteq Nat
        /\ \A s \in DOMAIN image : s <= vseq
        /\ wire \in Seq(Frames) /\ raw \in Seq(Events) /\ queue \in Seq(Events)
        /\ conn \in Sessions /\ resync \in BOOLEAN
    BY DEF OrderInv, TypeOK, HistoryIsGenuine
  <1> DEFINE Kept == \A type \in {"snapshot", "delta"} : \A s : OnTheWay(type, s) => OnTheWay(type, s)'
  <1>1. ASSUME UNCHANGED <<wire, raw, queue>> PROVE Kept
    BY <1>1 DEF OnTheWay
  <1>2. ASSUME NEW e \in Frames, UNCHANGED <<raw, queue>>, wire' = Append(wire, e) PROVE Kept
    BY <1>0, <1>2, CarryFacts DEF OnTheWay
  <1>3. ASSUME NEW skip \in Skips, NEW levels \in SUBSET Levels, VenueUpdate(skip, levels)
        PROVE  CoverInv'
    <2> DEFINE s0 == vseq + skip
               d == Delta(s0, PrevSequence(s0, vseq), levels)
    <2>1. /\ conn' = conn /\ UNCHANGED <<resync, ingest, raw, queue, book>>
          /\ conn = "streaming" => wire' = Append(wire, d)
      BY <1>3 DEF VenueUpdate, laneVars
    <2>2. DOMAIN image' = DOMAIN image \cup {s0}
      BY <1>0, <1>3, HistoryGrows
    <2>3. d \in Frames
      BY <1>0, <1>3, NewDeltaIsGenuine
    <2>4. d.type = "delta" /\ d.seq = s0
      BY DEF Delta
    <2> HIDE DEF d, s0
    <2> SUFFICES ASSUME Undisturbed' PROVE CoverInv'
      BY DEF CoverInv
    <2>5. Undisturbed /\ wire' = Append(wire, d)
      BY <2>1 DEF Undisturbed
    <2>6. Kept
      BY <1>2, <2>1, <2>3, <2>5
    <2>7. \A s : s = s0 => OnTheWay("delta", s)'
      <3>1. Carries(Append(wire, d), "delta", s0)
        BY <1>0, <2>3, <2>4, CarryFacts
      <3> QED  BY <2>5, <3>1 DEF OnTheWay
    <2>8. \A n : Covers(n) => Covers(n)'
      BY <2>2, <2>6, <2>7 DEF Covers
    <2>9. Covers(book.seq) => Covers(book.seq)'
      BY <2>1, <2>2, <2>6, <2>7 DEF Covers
    <2> QED  BY <2>1, <2>2, <2>5, <2>6, <2>8, <2>9 DEF CoverInv
  <1>4. CASE VenueSnapshot
    <2> DEFINE e == Snapshot(vseq, image[vseq])
    <2>1. wire' = Append(wire, e) /\ image' = image
      BY <1>4 DEF VenueSnapshot, venueVars
    <2>2. e \in Frames /\ e.type = "snapshot" /\ e.seq = vseq
      BY <1>0, FrameTypes DEF Snapshot, TypeOK
    <2> HIDE DEF e
    <2>3. OnTheWay("snapshot", vseq)'
      <3>1. Carries(Append(wire, e), "snapshot", vseq)
        BY <1>0, <2>2, CarryFacts
      <3>2. vseq' = vseq
        BY <1>4 DEF VenueSnapshot, venueVars
      <3> QED  BY <2>1, <3>1, <3>2 DEF OnTheWay
    <2>4. Covers(vseq)'
      BY <1>0, <1>4, <2>1 DEF Covers, VenueSnapshot, venueVars
    <2>5. vseq' \in DOMAIN image'
      BY <1>0, <1>4 DEF VenueSnapshot, venueVars, TypeOK
    <2> QED  BY <2>3, <2>4, <2>5 DEF CoverInv
  <1>5. ASSUME NEW seq \in DOMAIN image, NEW top \in SUBSET Levels, VenueDepth20(seq, top)
        PROVE  CoverInv'
    BY <1>5 DEF VenueDepth20, UsesBinanceRule
  <1>6. CASE VenueControl
    <2>1. /\ wire' = Append(wire, Control) /\ Control \in Frames
          /\ UNCHANGED <<image, raw, queue, conn, resync, ingest, book>>
      BY <1>6, FrameTypes DEF VenueControl, venueVars, laneVars
    <2>2. Kept
      BY <1>2, <2>1
    <2> HIDE DEF Kept
    <2> QED  BY <2>1, <2>2, NothingLost DEF Kept, Undisturbed
  <1>7. ASSUME NEW i \in DOMAIN wire, VenueRedeliver(i) PROVE CoverInv'
    <2>1. /\ wire' = Append(wire, wire[i]) /\ wire[i] \in Frames
          /\ UNCHANGED <<image, raw, queue, conn, resync, ingest, book>>
      BY <1>0, <1>7 DEF VenueRedeliver, venueVars, laneVars
    <2>2. Kept
      BY <1>2, <2>1
    <2> HIDE DEF Kept
    <2> QED  BY <2>1, <2>2, NothingLost DEF Kept, Undisturbed
  <1>8. CASE Connect \/ Disconnect \/ ReadResync
    <2>1. conn' # "streaming"
      BY <1>8 DEF Connect, Disconnect, ReadResync, DropSession, UsesBinanceRule
    <2> QED  BY <2>1 DEF CoverInv, Undisturbed
  <1>9. CASE OtherLaneResync \/ SubmitRequest
    <2>1. resync'
      BY <1>9 DEF OtherLaneResync, SubmitRequest, RequestResync
    <2> QED  BY <2>1 DEF CoverInv, Undisturbed
  <1>10. CASE SubmitInvalidate
    BY <1>10 DEF SubmitInvalidate, CoverInv, Undisturbed
  <1>11. CASE ReadControl
    <2>1. /\ wire # <<>> /\ Head(wire) = Control /\ wire' = Tail(wire)
          /\ UNCHANGED <<image, raw, queue, conn, resync, ingest, book>>
      BY <1>11 DEF ReadControl, venueVars, laneVars
    <2>2. Control.type \notin {"snapshot", "delta"}
      BY DEF Control
    <2>3. Kept
      BY <1>0, <2>1, <2>2, CarryFacts DEF OnTheWay
    <2> HIDE DEF Kept
    <2> QED  BY <2>1, <2>3, NothingLost DEF Kept, Undisturbed
  <1>12. CASE ReadMalformed
    BY <1>12 DEF ReadMalformed, Fault
  <1>13. CASE ReadEvent
    <2> DEFINE e == [Head(wire) EXCEPT !.at = now]
    <2>1. /\ wire # <<>> /\ Head(wire) # Control /\ wire' = Tail(wire) /\ raw' = Append(raw, e)
          /\ UNCHANGED <<image, queue, conn, resync, ingest, book>>
      BY <1>13 DEF ReadEvent, RawHasRoom, venueVars, laneVars
    <2>2. Head(wire) \in Events
      BY <1>0, <2>1, TailFacts, FrameTypes
    <2>3. e \in Events /\ e.type = Head(wire).type /\ e.seq = Head(wire).seq
      BY <1>0, <2>2, StampFacts DEF TypeOK
    <2> HIDE DEF e
    <2>4. Kept
      BY <1>0, <2>1, <2>3, CarryFacts DEF OnTheWay
    <2> HIDE DEF Kept
    <2> QED  BY <2>1, <2>4, NothingLost DEF Kept, Undisturbed
  <1>14. CASE Submit
    <2>1. /\ raw # <<>> /\ raw' = Tail(raw) /\ ingest = "idle"
          /\ UNCHANGED <<image, wire, conn, resync, book>>
          /\ \/ queue' = Append(queue, Head(raw)) /\ ingest' = ingest
             \/ ingest' = "overload"
      BY <1>14 DEF Submit, venueVars, sessionVars
    <2>2. CASE ingest' = "overload"
      BY <2>2 DEF CoverInv, Undisturbed
    <2>3. CASE queue' = Append(queue, Head(raw)) /\ ingest' = ingest
      <3>1. Head(raw) \in Events
        BY <1>0, <2>1, TailFacts
      <3>2. Kept
        BY <1>0, <2>1, <2>3, <3>1, CarryFacts DEF OnTheWay
      <3> HIDE DEF Kept
      <3> QED  BY <2>1, <2>3, <3>2, NothingLost DEF Kept, Undisturbed
    <2> QED  BY <2>1, <2>2, <2>3
  <1>15. CASE Apply
    BY <1>15, ApplyCover
  <1>16. CASE Tick \/ SweepSample \/ SweepMark \/ UNCHANGED vars
    <2>1. UNCHANGED <<image, wire, raw, queue, conn, resync, ingest>>
      BY <1>16 DEF Tick, SweepSample, SweepMark, vars, venueVars, sessionVars, laneVars
    <2>2. book'.ready = book.ready /\ book'.seq = book.seq
      <3>1. book \in Books
        BY DEF OrderInv, TypeOK, Books
      <3>2. \A f : MarkStale(book, f).ready = book.ready /\ MarkStale(book, f).seq = book.seq
        BY <3>1 DEF MarkStale, Books
      <3> QED  BY <1>16, <3>2 DEF Tick, SweepSample, SweepMark, vars, laneVars
    <2>3. Kept
      BY <1>1, <2>1
    <2> HIDE DEF Kept
    <2> QED  BY <2>1, <2>2, <2>3, NothingLost DEF Kept, Undisturbed
  <1> QED  BY <1>3, <1>4, <1>5, <1>6, <1>7, <1>8, <1>9, <1>10, <1>11, <1>12, <1>13, <1>14,
              <1>15, <1>16 DEF Next, VenueNext, SessionNext, PipelineNext

\* In a quiet lane the book is ready and the venue's current one.
LEMMA QuietFacts ==
    ASSUME OrderInv, CoverInv, Quiet
    PROVE  book.ready /\ book.seq = vseq
  <1>1. \A type, s : ~OnTheWay(type, s)
    BY DEF Quiet, OnTheWay, Carries
  <1>2. book.ready /\ Covers(book.seq)
    BY <1>1 DEF CoverInv, Quiet, Undisturbed
  <1>3. /\ vseq \in DOMAIN image /\ DOMAIN image \subseteq Nat /\ book.seq \in Nat
        /\ book.seq <= vseq
    BY DEF OrderInv, TypeOK, TrackerAgrees
  <1>4. ~(vseq > book.seq)
    BY <1>1, <1>2, <1>3 DEF Covers
  <1> QED  BY <1>2, <1>3, <1>4

\* RawHasRoom: the raw channel never refuses a frame (the instance lane_live).
LEMMA NothingIsLostUnnoticed ==
    ASSUME Venue # "binance", "malformed" \notin FaultKinds
    PROVE  Spec /\ []RawHasRoom => [](OrderInv /\ CoverInv)
  <1>0. SnapshotsInOrder
    BY DEF SnapshotsInOrder
  <1>1. Init => OrderInv /\ CoverInv
    <2>1. Init => CoverInv
      BY DEF Init, CoverInv, Undisturbed
    <2> QED  BY <2>1, OrderInit
  <1>2. OrderInv /\ CoverInv /\ RawHasRoom /\ [Next]_vars => OrderInv' /\ CoverInv'
    BY <1>0, OrderInvStep, CoverStep
  <1> QED  BY <1>1, <1>2, PTL DEF Spec

\* On OKX and Bybit, when every frame parses and the raw channel has room, a
\* ready book of a lane that has dealt with all it was sent is the venue's
\* current one: gaps, a full lane, repeats, reconnects and other lanes'
\* resyncs lose updates only with a repair under way.
THEOREM QuietLaneIsCurrent ==
    ASSUME Venue # "binance", "malformed" \notin FaultKinds
    PROVE  Spec /\ []RawHasRoom => []QuietReadyBookIsCurrent
  <1>1. OrderInv /\ CoverInv => QuietReadyBookIsCurrent
    BY QuietFacts DEF QuietReadyBookIsCurrent
  <1> QED  BY <1>1, NothingIsLostUnnoticed, PTL

QuietBookIsReady == Quiet => book.ready

\* Under the same conditions no book stays invalid without its repair being
\* on the way: once the lane is quiet the book is ready, which is more than
\* that the venue's next delta would ask for a snapshot.
THEOREM InvalidBookHasRepair ==
    ASSUME Venue # "binance", "malformed" \notin FaultKinds
    PROVE  Spec /\ []RawHasRoom => [](InvalidBookIsRepairable /\ QuietBookIsReady)
  <1>1. OrderInv /\ CoverInv => InvalidBookIsRepairable /\ QuietBookIsReady
    BY QuietFacts DEF InvalidBookIsRepairable, QuietBookIsReady
  <1> QED  BY <1>1, NothingIsLostUnnoticed, PTL
=============================================================================
