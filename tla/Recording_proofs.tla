-------------------------- MODULE Recording_proofs --------------------------
(***************************************************************************)
(* What a recording and its replays are worth, proved for any venues, any  *)
(* capacities and bounds, and a crash at any point of the live run.        *)
(***************************************************************************)
EXTENDS Recording, FiniteSetTheorems, SequenceFacts, TLAPS

-----------------------------------------------------------------------------
(* The invariant.                                                          *)

\* What the recorder has written are encoded events.
Envelopes == {FromEvent(n, e) : n \in Nat, e \in Events}
Recorders == [open : BOOLEAN, seq : Nat, written : Seq(Envelopes), lines : Nat, torn : BOOLEAN]

TypeInv ==
    /\ TypeOK /\ rec \in Recorders
    /\ \A v \in Feeds : /\ seen[v] # <<>>
                        /\ \A i \in DOMAIN queue[v] : queue[v][i].venue = v

Recorded(v) == Count(rec.written, Len(rec.written), v)
Applied(v) == Len(seen[v]) - 1
AtIngest(v) == IF ingest # <<>> /\ Head(ingest).venue = v THEN 1 ELSE 0

\* The events past the recorder: applied, in the channel, or with the fan-in
\* goroutine.
Way(v) == Applied(v) + Len(queue[v]) + AtIngest(v)

\* While the recorder is open all of them are recorded.
AheadInv ==
    rec.open => \A v \in Feeds : Way(v) <= Recorded(v)

\* Without an overload nothing else is recorded, open or closed.
BehindInv ==
    \A v \in Feeds \ overloaded : Recorded(v) <= Way(v)

\* The k-th line of a venue is the event that took its lane from its k-th
\* state to the next, or the one at its place in the channel, or the one the
\* fan-in goroutine holds.
LineIsEvent(v, k, e) ==
    \/ k < Len(seen[v]) /\ Content(seen[v][k + 1]) = Content(Apply(seen[v][k], e))
    \/ \E j \in 1..Len(queue[v]) : k = Len(seen[v]) - 1 + j /\ e = queue[v][j]
    \/ k = Len(seen[v]) + Len(queue[v]) /\ AtIngest(v) = 1 /\ e = Head(ingest)

\* Every line is accounted for that way, unless the lane has refused an event.
LinesInv ==
    \A v \in Feeds \ overloaded : \A i \in 1..Len(rec.written) :
        rec.written[i].venue = v =>
            LineIsEvent(v, Count(rec.written, i, v), ToEvent(rec.written[i]))

\* The lane is in the last state seen, up to the stale mark.
LaneInv ==
    \A v \in Feeds : /\ seen[v][1] = NewLane
                     /\ v \notin overloaded =>
                           Content(lane[v]) = Content(seen[v][Len(seen[v])])

\* Replays come after the end of the live run.
EndInv == replays # <<>> => phase = "ended"

LiveInv == TypeInv /\ AheadInv /\ BehindInv /\ LinesInv /\ LaneInv /\ EndInv
-----------------------------------------------------------------------------
(* The operators. *)

Snapshots == [type : {"snapshot"}, venue : Feeds, seq : Nat, depth : Depths, at : Nat]
Deltas == [type : {"delta"}, venue : Feeds, seq : Nat, prev : Nat, levels : SUBSET Levels, at : Nat]
TradeEvents == [type : {"trade"}, venue : Feeds, at : Nat]

\* An event is of one of the three kinds.
LEMMA EventKinds == Events = Snapshots \cup Deltas \cup TradeEvents
  BY DEF Events, Snapshots, Deltas, TradeEvents

\* Writing an event and reading it back gives the event: ToEvent undoes
\* FromEvent, and the envelope carries the venue and the type.
LEMMA RoundTrip ==
    ASSUME NEW n \in Nat, NEW e \in Events
    PROVE  ToEvent(FromEvent(n, e)) = e /\ FromEvent(n, e).venue = e.venue /\ e.venue \in Feeds
  <1>1. CASE e \in Snapshots
    <2>1. e.type = "snapshot" /\ e.venue \in Feeds
      BY <1>1 DEF Snapshots
    <2>2. FromEvent(n, e) = [v |-> Version, seq |-> n, type |-> "snapshot", venue |-> e.venue,
                             receiveTime |-> e.at, body |-> [sequence |-> e.seq, levels |-> e.depth]]
      BY <2>1 DEF FromEvent, Envelope
    <2>3. e = [type |-> "snapshot", venue |-> e.venue, seq |-> e.seq, depth |-> e.depth, at |-> e.at]
      BY <1>1 DEF Snapshots
    <2> QED  BY <2>1, <2>2, <2>3 DEF ToEvent
  <1>2. CASE e \in Deltas
    <2>1. e.type = "delta" /\ e.venue \in Feeds
      BY <1>2 DEF Deltas
    <2>2. FromEvent(n, e) = [v |-> Version, seq |-> n, type |-> "delta", venue |-> e.venue,
                             receiveTime |-> e.at,
                             body |-> [sequence |-> e.seq, prevSequence |-> e.prev, levels |-> e.levels]]
      BY <2>1 DEF FromEvent, Envelope
    <2>3. e = [type |-> "delta", venue |-> e.venue, seq |-> e.seq, prev |-> e.prev,
               levels |-> e.levels, at |-> e.at]
      BY <1>2 DEF Deltas
    <2> QED  BY <2>1, <2>2, <2>3 DEF ToEvent
  <1>3. CASE e \in TradeEvents
    <2>1. e.type = "trade" /\ e.venue \in Feeds
      BY <1>3 DEF TradeEvents
    <2>2. FromEvent(n, e) = [v |-> Version, seq |-> n, type |-> "trade", venue |-> e.venue,
                             receiveTime |-> e.at, body |-> [sequence |-> 0]]
      BY <2>1 DEF FromEvent, Envelope
    <2>3. e = [type |-> "trade", venue |-> e.venue, at |-> e.at]
      BY <1>3 DEF TradeEvents
    <2> QED  BY <2>1, <2>2, <2>3 DEF ToEvent
  <1> QED  BY <1>1, <1>2, <1>3, EventKinds

\* What a line reads back as.
LEMMA LineFacts ==
    ASSUME NEW re \in Envelopes
    PROVE  ToEvent(re) \in Events /\ ToEvent(re).venue = re.venue /\ re.venue \in Feeds
  <1>1. PICK n \in Nat, e \in Events : re = FromEvent(n, e)
    BY DEF Envelopes
  <1> QED  BY <1>1, RoundTrip

Trackers == [ready : BOOLEAN, lastSeq : Nat]
Books == [ready : BOOLEAN, stale : BOOLEAN, seq : Nat, at : Nat, depth : Depths]

\* The same book but for the stale mark.
AlikeBooks(b, c) == b.ready = c.ready /\ b.seq = c.seq /\ b.at = c.at /\ b.depth = c.depth

\* The same tracker, and alike books: this is what equal contents means.
Alike(l, m) == l.tracker = m.tracker /\ AlikeBooks(l.book, m.book)

\* Being alike is an equivalence.
LEMMA AlikeFacts ==
    /\ \A b : AlikeBooks(b, b)
    /\ \A b, c : AlikeBooks(b, c) => AlikeBooks(c, b)
    /\ \A b, c, d : AlikeBooks(b, c) /\ AlikeBooks(c, d) => AlikeBooks(b, d)
  BY Zenon DEF AlikeBooks

\* Marking a book changes nothing but the mark.
LEMMA MarkFacts ==
    ASSUME NEW b \in Books, NEW flag \in BOOLEAN
    PROVE  /\ MarkStale(b, flag) \in Books /\ MarkStale(b, flag).stale = flag
           /\ AlikeBooks(MarkStale(b, flag), b)
  <1>1. MarkStale(b, flag) \in Books /\ MarkStale(b, flag).stale = flag
    BY DEF MarkStale, Books
  <1>2. AlikeBooks(MarkStale(b, flag), b)
    BY DEF MarkStale, Books, AlikeBooks
  <1> QED  BY <1>1, <1>2, Zenon

\* Invalidating alike books.
LEMMA InvalidateFacts ==
    ASSUME NEW b \in Books, NEW c \in Books
    PROVE  /\ Invalidate(b) \in Books
           /\ AlikeBooks(b, c) => AlikeBooks(Invalidate(b), Invalidate(c))
  <1>1. Invalidate(b) \in Books
    BY DEF Invalidate, Books
  <1>2. AlikeBooks(b, c) => AlikeBooks(Invalidate(b), Invalidate(c))
    BY DEF Invalidate, Books, AlikeBooks
  <1> QED  BY <1>1, <1>2, Zenon

\* Applying a delta to alike books.
LEMMA DeltaFacts ==
    ASSUME NEW b \in Books, NEW c \in Books, NEW e \in Deltas
    PROVE  /\ ApplyDelta(b, e) \in Books
           /\ AlikeBooks(b, c) => AlikeBooks(ApplyDelta(b, e), ApplyDelta(c, e))
  <1>1. e.seq \in Nat /\ e.at \in Nat
    BY DEF Deltas
  <1>2. Patch(b.depth, e.levels, e.seq) \in Depths
    BY <1>1 DEF Books, Depths, Patch
  <1>3. ApplyDelta(b, e) \in Books
    BY <1>1, <1>2 DEF ApplyDelta, Books
  <1>4. AlikeBooks(b, c) => AlikeBooks(ApplyDelta(b, e), ApplyDelta(c, e))
    BY DEF ApplyDelta, Books, AlikeBooks
  <1> QED  BY <1>3, <1>4, Zenon

\* The parts of a lane, and a lane made of its parts.
LEMMA LaneParts ==
    /\ \A l \in LaneStates : l.tracker \in Trackers /\ l.book \in Books
    /\ \A t \in Trackers, b \in Books : [tracker |-> t, book |-> b] \in LaneStates
    /\ \A l \in LaneStates, b \in Books :
          LET m == [l EXCEPT !.book = b]
          IN  m \in LaneStates /\ m.tracker = l.tracker /\ m.book = b
    /\ \A l, m \in LaneStates : l.tracker = m.tracker /\ l.book = m.book => l = m
  <1>1. LaneStates = [tracker : Trackers, book : Books]
    BY DEF LaneStates, Trackers, Books
  <1> QED  BY <1>1

\* Equal contents are alike lanes.
LEMMA ContentIsAlike ==
    ASSUME NEW l \in LaneStates, NEW m \in LaneStates
    PROVE  Content(l) = Content(m) <=> Alike(l, m)
  <1>1. ASSUME NEW k \in LaneStates
        PROVE  /\ Content(k) \in LaneStates /\ Content(k).tracker = k.tracker
               /\ Content(k).book = MarkStale(k.book, FALSE) /\ k.book \in Books
    <2>1. Content(k) = [k EXCEPT !.book = MarkStale(k.book, FALSE)]
      BY LaneParts DEF Content, MarkStale, LaneStates
    <2>2. k.book \in Books /\ MarkStale(k.book, FALSE) \in Books
      BY LaneParts, MarkFacts
    <2> DEFINE b == MarkStale(k.book, FALSE)
    <2> HIDE DEF b
    <2>3. LET n == [k EXCEPT !.book = b]
          IN  n \in LaneStates /\ n.tracker = k.tracker /\ n.book = b
      BY <2>2, LaneParts DEF b
    <2> QED  BY <2>1, <2>2, <2>3 DEF b
  <1>2. ASSUME NEW b \in Books, NEW c \in Books, AlikeBooks(b, c), b.stale = c.stale
        PROVE  b = c
    <2>1. \A k \in Books : k = [ready |-> k.ready, stale |-> k.stale, seq |-> k.seq,
                                at |-> k.at, depth |-> k.depth]
      BY DEF Books
    <2> QED  BY <1>2, <2>1, Zenon DEF AlikeBooks
  <1>3. ASSUME NEW k \in LaneStates
        PROVE  /\ AlikeBooks(Content(k).book, k.book) /\ Content(k).book.stale = FALSE
               /\ Content(k).book \in Books
    <2>1. k.book \in Books /\ FALSE \in BOOLEAN
      BY <1>1
    <2>2. LET b == MarkStale(k.book, FALSE)
          IN  AlikeBooks(b, k.book) /\ b.stale = FALSE /\ b \in Books
      BY <2>1, MarkFacts, Zenon
    <2> QED  BY <1>1, <2>2, Zenon
  <1>4. ASSUME Alike(l, m) PROVE Content(l) = Content(m)
    <2>1. AlikeBooks(Content(l).book, Content(m).book)
      BY <1>3, <1>4, AlikeFacts, Zenon DEF Alike
    <2>2. Content(l).book = Content(m).book
      BY <1>2, <1>3, <2>1, Zenon
    <2> QED  BY <1>1, <1>4, <2>2, LaneParts DEF Alike
  <1>5. ASSUME Content(l) = Content(m) PROVE Alike(l, m)
    <2>1. l.tracker = m.tracker
      BY <1>1, <1>5
    <2>2. AlikeBooks(l.book, m.book)
      BY <1>3, <1>5, AlikeFacts, Zenon
    <2> QED  BY <2>1, <2>2 DEF Alike
  <1> QED  BY <1>4, <1>5

\* Applying an event gives a lane, and does not look at the stale mark.
LEMMA ApplyFacts ==
    ASSUME NEW l \in LaneStates, NEW m \in LaneStates, NEW e \in Events
    PROVE  /\ Apply(l, e) \in LaneStates
           /\ Alike(l, m) => Alike(Apply(l, e), Apply(m, e))
  <1>0. l.tracker \in Trackers /\ l.book \in Books /\ m.tracker \in Trackers /\ m.book \in Books
    BY LaneParts
  <1>1. CASE e \in Snapshots
    <2>1. e.type = "snapshot" /\ e.seq \in Nat /\ e.at \in Nat /\ e.depth \in Depths
      BY <1>1 DEF Snapshots
    <2> DEFINE b == [ready |-> TRUE, stale |-> FALSE, seq |-> e.seq, at |-> e.at, depth |-> e.depth]
    <2>2. \A k : Apply(k, e) = [tracker |-> OnSnapshot(e.venue, k.tracker, e.seq), book |-> b]
      BY <2>1 DEF Apply, ApplySnapshotTo, LoadSnapshot, MarkStale
    <2>3. b \in Books
      BY <2>1 DEF Books
    <2> HIDE DEF b
    <2>4. OnSnapshot(e.venue, l.tracker, e.seq) \in Trackers
      <3>1. l.tracker.lastSeq \in Nat /\ \A n \in Nat : [ready |-> TRUE, lastSeq |-> n] \in Trackers
        BY <1>0 DEF Trackers
      <3> QED  BY <2>1, <3>1 DEF OnSnapshot, BinanceOnSnapshot, ChainOnSnapshot
    <2>5. Apply(l, e) \in LaneStates
      BY <2>2, <2>3, <2>4, LaneParts
    <2>6. ASSUME Alike(l, m) PROVE Alike(Apply(l, e), Apply(m, e))
      <3>1. Apply(l, e) = Apply(m, e)
        BY <2>2, <2>6 DEF Alike
      <3> QED  BY <3>1, AlikeFacts DEF Alike
    <2> QED  BY <2>5, <2>6
  <1>2. CASE e \in Deltas
    <2>1. e.type = "delta" /\ e.seq \in Nat
      BY <1>2 DEF Deltas
    <2> DEFINE ap(k) == Check(e.venue, k.tracker, e) = "apply"
               bad(k) == Check(e.venue, k.tracker, e) \in {"gap", "need_snapshot"}
    <2>2. ASSUME NEW k
          PROVE  \E b : /\ Apply(k, e) = [tracker |-> Advance(e.venue, k.tracker, e), book |-> b]
                        /\ \/ ap(k) /\ b = MarkStale(ApplyDelta(k.book, e), FALSE)
                           \/ ~ap(k) /\ bad(k) /\ b = Invalidate(k.book)
                           \/ ~ap(k) /\ ~bad(k) /\ b = k.book
      <3>1. Apply(k, e) = ApplyDeltaTo(k, e)
        BY <2>1 DEF Apply
      <3> QED  BY <3>1 DEF ApplyDeltaTo
    <2>3. Alike(l, m) => l.tracker = m.tracker /\ (ap(l) <=> ap(m)) /\ (bad(l) <=> bad(m))
      BY DEF Alike
    <2> HIDE DEF ap, bad
    <2>4. PICK b : /\ Apply(l, e) = [tracker |-> Advance(e.venue, l.tracker, e), book |-> b]
                   /\ \/ ap(l) /\ b = MarkStale(ApplyDelta(l.book, e), FALSE)
                      \/ ~ap(l) /\ bad(l) /\ b = Invalidate(l.book)
                      \/ ~ap(l) /\ ~bad(l) /\ b = l.book
      BY <2>2
    <2>5. PICK c : /\ Apply(m, e) = [tracker |-> Advance(e.venue, m.tracker, e), book |-> c]
                   /\ \/ ap(m) /\ c = MarkStale(ApplyDelta(m.book, e), FALSE)
                      \/ ~ap(m) /\ bad(m) /\ c = Invalidate(m.book)
                      \/ ~ap(m) /\ ~bad(m) /\ c = m.book
      BY <2>2
    <2>6. /\ ApplyDelta(l.book, e) \in Books /\ ApplyDelta(m.book, e) \in Books
          /\ MarkStale(ApplyDelta(l.book, e), FALSE) \in Books
          /\ AlikeBooks(MarkStale(ApplyDelta(l.book, e), FALSE), ApplyDelta(l.book, e))
          /\ AlikeBooks(MarkStale(ApplyDelta(m.book, e), FALSE), ApplyDelta(m.book, e))
      <3>1. ApplyDelta(l.book, e) \in Books /\ ApplyDelta(m.book, e) \in Books
        BY <1>0, <1>2, DeltaFacts
      <3> QED  BY <3>1, MarkFacts
    <2>7. b \in Books
      BY <1>0, <2>4, <2>6, InvalidateFacts
    <2>8. Advance(e.venue, l.tracker, e) \in Trackers
      <3>1. [ready |-> TRUE, lastSeq |-> e.seq] \in Trackers
        BY <2>1 DEF Trackers
      <3> QED  BY <1>0, <3>1 DEF Advance
    <2>9. Apply(l, e) \in LaneStates
      BY <2>4, <2>7, <2>8, LaneParts
    <2>10. ASSUME Alike(l, m) PROVE Alike(Apply(l, e), Apply(m, e))
      <3>1. AlikeBooks(l.book, m.book) /\ Apply(l, e).tracker = Apply(m, e).tracker
        BY <2>3, <2>4, <2>5, <2>10 DEF Alike
      <3>2. AlikeBooks(b, c)
        <4>1. CASE ap(l)
          <5>1. /\ b = MarkStale(ApplyDelta(l.book, e), FALSE)
                /\ c = MarkStale(ApplyDelta(m.book, e), FALSE)
            BY <2>3, <2>4, <2>5, <2>10, <4>1
          <5>2. AlikeBooks(ApplyDelta(l.book, e), ApplyDelta(m.book, e))
            BY <1>0, <1>2, <3>1, DeltaFacts
          <5>3. AlikeBooks(b, ApplyDelta(l.book, e)) /\ AlikeBooks(ApplyDelta(m.book, e), c)
            BY <2>6, <5>1, AlikeFacts, Zenon
          <5> QED  BY <5>2, <5>3, AlikeFacts, Zenon
        <4>2. CASE ~ap(l) /\ bad(l)
          <5>1. b = Invalidate(l.book) /\ c = Invalidate(m.book)
            BY <2>3, <2>4, <2>5, <2>10, <4>2
          <5> QED  BY <1>0, <3>1, <5>1, InvalidateFacts
        <4>3. CASE ~ap(l) /\ ~bad(l)
          BY <2>3, <2>4, <2>5, <2>10, <3>1, <4>3
        <4> QED  BY <4>1, <4>2, <4>3
      <3>3. Apply(l, e).book = b /\ Apply(m, e).book = c
        BY <2>4, <2>5
      <3> QED  BY <3>1, <3>2, <3>3, Zenon DEF Alike
    <2> QED  BY <2>9, <2>10
  <1>3. CASE e \in TradeEvents
    BY <1>3 DEF TradeEvents, Apply
  <1> QED  BY <1>1, <1>2, <1>3, EventKinds

\* Applying an event to lanes of the same content gives the same content.
LEMMA ApplyContent ==
    ASSUME NEW l \in LaneStates, NEW m \in LaneStates, NEW e \in Events, Content(l) = Content(m)
    PROVE  Content(Apply(l, e)) = Content(Apply(m, e))
  BY ApplyFacts, ContentIsAlike

\* Marking a book stale or fresh does not change its content.
LEMMA SweepContent ==
    ASSUME NEW l \in LaneStates, NEW flag \in BOOLEAN
    PROVE  LET m == [l EXCEPT !.book = MarkStale(l.book, flag)]
           IN  m \in LaneStates /\ Content(m) = Content(l)
  <1> DEFINE b == MarkStale(l.book, flag)
             m == [l EXCEPT !.book = b]
  <1>1. b \in Books /\ AlikeBooks(b, l.book)
    BY LaneParts, MarkFacts
  <1> HIDE DEF b
  <1>2. m \in LaneStates /\ m.tracker = l.tracker /\ m.book = b
    BY <1>1, LaneParts
  <1> HIDE DEF m
  <1>3. Alike(m, l)
    BY <1>1, <1>2 DEF Alike
  <1>4. m \in LaneStates /\ Content(m) = Content(l)
    BY <1>2, <1>3, ContentIsAlike
  <1> QED  BY <1>4 DEF m, b

\* An invalidated book is a book.
LEMMA OverloadType ==
    ASSUME NEW l \in LaneStates
    PROVE  [l EXCEPT !.book = Invalidate(l.book)] \in LaneStates
  BY LaneParts, InvalidateFacts

\* Counting a venue's entries line by line.
LEMMA CountFacts ==
    ASSUME NEW s, NEW n \in Nat, NEW v
    PROVE  /\ Count(s, n, v) \in Nat
           /\ Count(s, 0, v) = 0
           /\ Count(s, n + 1, v) = Count(s, n, v) + (IF s[n + 1].venue = v THEN 1 ELSE 0)
           /\ \A m \in 0..n : Count(s, m, v) <= Count(s, n, v)
  <1> DEFINE I(m) == {i \in 1..m : s[i].venue = v}
  <1>1. \A m \in Nat : IsFiniteSet(I(m)) /\ Cardinality(I(m)) \in Nat /\ Count(s, m, v) = Cardinality(I(m))
    <2> SUFFICES ASSUME NEW m \in Nat PROVE IsFiniteSet(I(m)) /\ Cardinality(I(m)) \in Nat
      BY DEF Count
    <2>1. IsFiniteSet(1..m)
      BY FS_Interval
    <2>2. I(m) \subseteq 1..m
      OBVIOUS
    <2>3. IsFiniteSet(I(m))
      BY <2>1, <2>2, FS_Subset
    <2> QED  BY <2>3, FS_CardinalityType
  <1>2. /\ I(0) = {} /\ \A m \in 0..n : I(m) \subseteq I(n)
        /\ I(n + 1) = IF s[n + 1].venue = v THEN I(n) \cup {n + 1} ELSE I(n)
        /\ n + 1 \notin I(n)
    OBVIOUS
  <1> HIDE DEF I
  <1>5. 0 \in Nat /\ n + 1 \in Nat /\ \A m \in 0..n : m \in Nat
    OBVIOUS
  <1>6. Cardinality(I(n) \cup {n + 1}) = Cardinality(I(n)) + 1
    BY <1>1, <1>2, FS_AddElement
  <1>7. \A m \in 0..n : Cardinality(I(m)) <= Cardinality(I(n))
    BY <1>1, <1>2, <1>5, FS_Subset
  <1>8. Cardinality(I(0)) = 0
    BY <1>2, FS_EmptySet
  <1> QED  BY <1>1, <1>2, <1>5, <1>6, <1>7, <1>8

\* The count depends on the first n entries alone.
LEMMA CountPrefix ==
    ASSUME NEW s, NEW t, NEW n \in Nat, NEW v, \A i \in 1..n : t[i] = s[i]
    PROVE  Count(t, n, v) = Count(s, n, v)
  <1>1. {i \in 1..n : t[i].venue = v} = {i \in 1..n : s[i].venue = v}
    OBVIOUS
  <1> QED  BY <1>1 DEF Count
-----------------------------------------------------------------------------
(* Type correctness. *)

\* The events a venue produces are events.
LEMMA NewEvents ==
    ASSUME TypeOK, NEW v \in Feeds
    PROVE  /\ \A top \in SUBSET Levels : Snapshot(v, top) \in Events
           /\ Trade(v) \in Events
           /\ \A skip \in Skips : /\ Delta(v, skip) \in Events
                                  /\ [vseq EXCEPT ![v] = @ + skip] \in [Feeds -> Nat]
  <1>1. vseq \in [Feeds -> Nat] /\ vseq[v] \in Nat /\ now \in Nat /\ Skips \subseteq Nat
    BY RecordingAssumption DEF TypeOK
  <1>3. ASSUME NEW top \in SUBSET Levels
        PROVE  Snapshot(v, top) \in Snapshots
    <2> DEFINE sent == IF UsesBinanceRule(v) THEN top ELSE Levels
    <2>1. TopOf([l \in Levels |-> vseq[v]], sent) \in Depths
      BY <1>1 DEF TopOf, Depths
    <2> QED  BY <1>1, <2>1 DEF Snapshot, Snapshots
  <1>4. Trade(v) \in TradeEvents
    BY <1>1 DEF Trade, TradeEvents
  <1>5. ASSUME NEW skip \in Skips
        PROVE  Delta(v, skip) \in Deltas /\ [vseq EXCEPT ![v] = @ + skip] \in [Feeds -> Nat]
    <2>1. vseq[v] + skip \in Nat /\ vseq[v] + 1 \in Nat
      BY <1>1
    <2>2. Delta(v, skip) \in Deltas
      BY <1>1, <2>1 DEF Delta, Deltas
    <2> QED  BY <1>1, <2>1, <2>2
  <1> QED  BY <1>3, <1>4, <1>5, EventKinds

\* Record, Flush and Close on a recorder.
LEMMA RecorderFacts ==
    ASSUME NEW r \in Recorders, r.lines <= Len(r.written), Len(r.written) <= r.seq
    PROVE  /\ \A e \in Events :
                 LET q == Record(r, e) IN
                 /\ q \in Recorders /\ q.lines = r.lines /\ q.torn = r.torn /\ q.open = r.open
                 /\ q.lines <= Len(q.written) /\ Len(q.written) <= q.seq
                 /\ q.written = IF r.open THEN Append(r.written, FromEvent(r.seq + 1, e)) ELSE r.written
                 /\ FromEvent(r.seq + 1, e) \in Envelopes
           /\ \A lines \in 0..Len(r.written), torn \in BOOLEAN :
                 LET q == Flushed(r, lines, torn) IN
                 /\ q \in Recorders /\ q.lines = lines /\ q.open = r.open
                 /\ q.written = r.written /\ q.seq = r.seq
           /\ LET q == Close(r) IN
              /\ q \in Recorders /\ q.lines = Len(r.written) /\ ~q.open
              /\ q.written = r.written /\ q.seq = r.seq
  <1>0. r.written \in Seq(Envelopes) /\ r.seq \in Nat /\ r.lines \in Nat /\ Len(r.written) \in Nat
    BY DEF Recorders
  <1>1. ASSUME NEW e \in Events
        PROVE  LET q == Record(r, e) IN
                 /\ q \in Recorders /\ q.lines = r.lines /\ q.torn = r.torn /\ q.open = r.open
                 /\ q.lines <= Len(q.written) /\ Len(q.written) <= q.seq
                 /\ q.written = IF r.open THEN Append(r.written, FromEvent(r.seq + 1, e)) ELSE r.written
                 /\ FromEvent(r.seq + 1, e) \in Envelopes
    <2>1. r.seq + 1 \in Nat /\ FromEvent(r.seq + 1, e) \in Envelopes
      <3>1. r.seq + 1 \in Nat
        BY <1>0
      <3>2. \E n \in Nat, f \in Events : FromEvent(r.seq + 1, e) = FromEvent(n, f)
        BY <3>1, Zenon
      <3> QED  BY <3>1, <3>2 DEF Envelopes
    <2> DEFINE w == Append(r.written, FromEvent(r.seq + 1, e))
    <2>2. w \in Seq(Envelopes) /\ Len(w) = Len(r.written) + 1
      BY <1>0, <2>1, AppendFacts
    <2> HIDE DEF w
    <2>3. CASE r.open
      <3>1. Record(r, e) = [r EXCEPT !.seq = r.seq + 1, !.written = w]
        BY <2>3 DEF Record, w
      <3>2. LET q == Record(r, e) IN
                 /\ q \in Recorders /\ q.lines = r.lines /\ q.torn = r.torn /\ q.open = r.open
                 /\ q.written = w /\ q.seq = r.seq + 1
        BY <2>1, <2>2, <3>1 DEF Recorders
      <3> QED  BY <1>0, <2>1, <2>2, <2>3, <3>2 DEF w
    <2>4. CASE ~r.open
      <3>1. Record(r, e) = [r EXCEPT !.seq = r.seq + 1]
        BY <2>4 DEF Record
      <3>2. LET q == Record(r, e) IN
                 /\ q \in Recorders /\ q.lines = r.lines /\ q.torn = r.torn /\ q.open = r.open
                 /\ q.written = r.written /\ q.seq = r.seq + 1
        BY <2>1, <3>1 DEF Recorders
      <3> QED  BY <1>0, <2>1, <2>4, <3>2
    <2> QED  BY <2>3, <2>4
  <1>2. ASSUME NEW lines \in 0..Len(r.written), NEW torn \in BOOLEAN
        PROVE  LET q == Flushed(r, lines, torn) IN
                 /\ q \in Recorders /\ q.lines = lines /\ q.open = r.open
                 /\ q.written = r.written /\ q.seq = r.seq
    <2>1. lines \in Nat
      BY <1>0
    <2> QED  BY <2>1 DEF Flushed, Recorders
  <1>3. LET q == Close(r) IN
              /\ q \in Recorders /\ q.lines = Len(r.written) /\ ~q.open
              /\ q.written = r.written /\ q.seq = r.seq
    BY <1>0 DEF Close, Recorders
  <1> QED  BY <1>1, <1>2, <1>3

\* The new replay, and what a replay step does to the current one.
LEMMA ReplayFacts ==
    ASSUME TypeInv
    PROVE  /\ NewLane \in LaneStates /\ NewLanes \in [Feeds -> LaneStates] /\ NewReplay \in Replays
           /\ replays # <<>> =>
                 /\ Len(replays) \in DOMAIN replays /\ Current \in Replays /\ Current.pos <= rec.lines
           /\ ReplayEvent =>
                 LET n     == Len(replays)
                     e     == ToEvent(rec.written[Current.pos + 1])
                     after == [Current.lanes EXCEPT ![e.venue] = Apply(@, e)]
                 IN  /\ e \in Events /\ e.venue = rec.written[Current.pos + 1].venue /\ e.venue \in Feeds
                     /\ after \in [Feeds -> LaneStates]
                     /\ replays' \in Seq(Replays) /\ Len(replays') = n
                     /\ \A i \in DOMAIN replays : i # n => replays'[i] = replays[i]
                     /\ replays'[n].pos = Current.pos + 1 /\ replays'[n].lanes = after
                     /\ replays'[n].status = "running"
                     /\ replays'[n].stream = Append(Current.stream, Compared(after, DecisionTime))
           /\ ReplayEnd =>
                 LET n == Len(replays)
                 IN  /\ replays' \in Seq(Replays) /\ Len(replays') = n
                     /\ \A i \in DOMAIN replays : i # n => replays'[i] = replays[i]
                     /\ replays'[n].pos = Current.pos /\ replays'[n].lanes = Current.lanes
                     /\ replays'[n].status = IF rec.torn THEN "error" ELSE "eof"
                     /\ replays'[n].stream = Current.stream
  <1>0. /\ replays \in Seq(Replays) /\ rec.written \in Seq(Envelopes) /\ rec.lines \in 0..Len(rec.written)
        /\ rec.torn \in BOOLEAN /\ \A i \in DOMAIN replays : replays[i].pos <= rec.lines
    BY DEF TypeInv, TypeOK, Recorders
  <1>1. /\ NewLane \in LaneStates /\ NewLanes \in [Feeds -> LaneStates] /\ NewReplay \in Replays
    <2>1. NewTracker \in Trackers /\ NewBook \in Books
      <3>1. EmptyDepth \in Depths
        BY DEF EmptyDepth, Depths
      <3> QED  BY <3>1 DEF NewTracker, Trackers, NewBook, Books
    <2>2. NewLane \in LaneStates
      BY <2>1, LaneParts DEF NewLane
    <2>3. NewLanes \in [Feeds -> LaneStates]
      BY <2>2 DEF NewLanes
    <2>4. <<>> \in Seq(SUBSET (Feeds \X Feeds))
      OBVIOUS
    <2>5. NewReplay \in Replays
      BY <2>3, <2>4 DEF NewReplay, Replays
    <2> QED  BY <2>2, <2>3, <2>5
  <1>2. ASSUME replays # <<>>
        PROVE  /\ Len(replays) \in DOMAIN replays /\ Current \in Replays /\ Current.pos <= rec.lines
    BY <1>0, <1>2 DEF Current
  <1>3. ASSUME ReplayEvent
        PROVE  LET n     == Len(replays)
                   e     == ToEvent(rec.written[Current.pos + 1])
                   after == [Current.lanes EXCEPT ![e.venue] = Apply(@, e)]
               IN  /\ e \in Events /\ e.venue = rec.written[Current.pos + 1].venue /\ e.venue \in Feeds
                   /\ after \in [Feeds -> LaneStates]
                   /\ replays' \in Seq(Replays) /\ Len(replays') = n
                   /\ \A i \in DOMAIN replays : i # n => replays'[i] = replays[i]
                   /\ replays'[n].pos = Current.pos + 1 /\ replays'[n].lanes = after
                   /\ replays'[n].status = "running"
                   /\ replays'[n].stream = Append(Current.stream, Compared(after, DecisionTime))
    <2> DEFINE n     == Len(replays)
               e     == ToEvent(rec.written[Current.pos + 1])
               after == [Current.lanes EXCEPT ![e.venue] = Apply(@, e)]
               q     == Append(Current.stream, Compared(after, DecisionTime))
               r     == [pos |-> Current.pos + 1, lanes |-> after, status |-> "running", stream |-> q]
    <2>1. /\ replays # <<>> /\ Current.status = "running" /\ Current.pos < rec.lines
          /\ Current \in Replays /\ n \in DOMAIN replays
      BY <1>2, <1>3 DEF ReplayEvent
    <2>2. /\ Current.pos \in Nat /\ Current.lanes \in [Feeds -> LaneStates]
          /\ Current.stream \in Seq(SUBSET (Feeds \X Feeds))
      BY <2>1 DEF Replays
    <2>3. rec.written[Current.pos + 1] \in Envelopes
      BY <1>0, <2>1, <2>2
    <2>4. e \in Events /\ e.venue = rec.written[Current.pos + 1].venue /\ e.venue \in Feeds
      BY <2>3, LineFacts
    <2>5. replays' = [replays EXCEPT ![n] = r]
      BY <1>3 DEF ReplayEvent, Current
    <2> HIDE DEF e
    <2>6. after \in [Feeds -> LaneStates]
      BY <2>2, <2>4, ApplyFacts
    <2> HIDE DEF after
    <2>7. Compared(after, DecisionTime) \in SUBSET (Feeds \X Feeds)
      BY DEF Compared
    <2>8. q \in Seq(SUBSET (Feeds \X Feeds))
      BY <2>2, <2>7, AppendFacts
    <2> HIDE DEF q
    <2>9. /\ r \in Replays /\ r.pos = Current.pos + 1 /\ r.lanes = after /\ r.stream = q
          /\ r.status = "running"
      <3>1. Current.pos + 1 \in Nat
        BY <2>2
      <3> QED  BY <2>6, <2>8, <3>1 DEF Replays
    <2> HIDE DEF r
    <2>10. /\ replays' \in Seq(Replays) /\ Len(replays') = n /\ replays'[n] = r
           /\ \A i \in DOMAIN replays : i # n => replays'[i] = replays[i]
      BY <1>0, <2>1, <2>5, <2>9, ReplaceLastFacts
    <2> QED  BY <2>4, <2>6, <2>9, <2>10 DEF q, after, e
  <1>4. ASSUME ReplayEnd
        PROVE  LET n == Len(replays)
               IN  /\ replays' \in Seq(Replays) /\ Len(replays') = n
                   /\ \A i \in DOMAIN replays : i # n => replays'[i] = replays[i]
                   /\ replays'[n].pos = Current.pos /\ replays'[n].lanes = Current.lanes
                   /\ replays'[n].status = IF rec.torn THEN "error" ELSE "eof"
                   /\ replays'[n].stream = Current.stream
    <2> DEFINE n == Len(replays)
               st == IF rec.torn THEN "error" ELSE "eof"
               r == [Current EXCEPT !.status = st]
    <2>1. replays # <<>> /\ Current \in Replays /\ n \in DOMAIN replays
      BY <1>2, <1>4 DEF ReplayEnd
    <2>2. replays' = [replays EXCEPT ![n] = r]
      BY <1>0, <1>4, <2>1 DEF ReplayEnd, Current
    <2>3. st \in {"eof", "error"}
      OBVIOUS
    <2> HIDE DEF st
    <2>4. /\ r \in Replays /\ r.pos = Current.pos /\ r.lanes = Current.lanes
          /\ r.stream = Current.stream /\ r.status = st
      BY <2>1, <2>3 DEF Replays
    <2> HIDE DEF r
    <2>5. /\ replays' \in Seq(Replays) /\ Len(replays') = n /\ replays'[n] = r
           /\ \A i \in DOMAIN replays : i # n => replays'[i] = replays[i]
      BY <1>0, <2>1, <2>2, <2>4, ReplaceLastFacts
    <2> QED  BY <2>4, <2>5 DEF st
  <1> HIDE DEF ReplayEvent, ReplayEnd, Current
  <1> QED  BY <1>1, <1>2, <1>3, <1>4

\* The parts of the type invariant, by what a step changes together.
ChannelTypes ==
    /\ raw \in Seq(Events) /\ Len(raw) <= RawCap
    /\ ingest \in Seq(Events) /\ Len(ingest) <= 1
    /\ queue \in [Feeds -> Seq(Events)]
    /\ \A v \in Feeds : /\ Len(queue[v]) <= QueueSize
                        /\ \A i \in DOMAIN queue[v] : queue[v][i].venue = v
LaneTypes ==
    /\ lane \in [Feeds -> LaneStates] /\ seen \in [Feeds -> Seq(LaneStates)]
    /\ \A v \in Feeds : seen[v] # <<>>
RecTypes == rec \in Recorders /\ rec.lines <= Len(rec.written) /\ Len(rec.written) <= rec.seq
ReplayTypes ==
    /\ replays \in Seq(Replays) /\ Len(replays) <= 2
    /\ \A i \in DOMAIN replays : replays[i].pos <= rec.lines
RestTypes ==
    /\ phase \in {"live", "closing", "ended"} /\ clk \in {"real", "manual"}
    /\ now \in Nat /\ emits \in Nat /\ vseq \in [Feeds -> Nat] /\ overloaded \subseteq Feeds

\* TypeInv, taken apart.
LEMMA TypeParts ==
    TypeInv <=> ChannelTypes /\ LaneTypes /\ RecTypes /\ ReplayTypes /\ RestTypes
  <1>1. ASSUME TypeInv PROVE ChannelTypes /\ LaneTypes /\ RecTypes /\ ReplayTypes /\ RestTypes
    BY <1>1 DEF TypeInv, TypeOK, ChannelTypes, LaneTypes, RecTypes, ReplayTypes, RestTypes
  <1>2. ASSUME ChannelTypes, LaneTypes, RecTypes, ReplayTypes, RestTypes PROVE TypeInv
    <2>1. rec.lines \in 0..Len(rec.written) /\ rec.open \in BOOLEAN /\ rec.torn \in BOOLEAN
      BY <1>2 DEF RecTypes, Recorders
    <2>2. \A i \in DOMAIN rec.written : ToEvent(rec.written[i]) \in Events
      <3>1. rec.written \in Seq(Envelopes)
        BY <1>2 DEF RecTypes, Recorders
      <3> QED  BY <3>1, LineFacts
    <2> QED  BY <1>2, <2>1, <2>2
             DEF TypeInv, TypeOK, ChannelTypes, LaneTypes, RecTypes, ReplayTypes, RestTypes
  <1> QED  BY <1>1, <1>2

\* Every step keeps the types.
LEMMA TypeStep == TypeInv /\ [Next]_vars => TypeInv'
  <1> SUFFICES ASSUME TypeInv, [Next]_vars PROVE TypeInv'
    OBVIOUS
  <1> USE DEF live
  <1>0. ChannelTypes /\ LaneTypes /\ RecTypes /\ ReplayTypes /\ RestTypes /\ TypeOK
    BY TypeParts DEF TypeInv
  <1> DEFINE P == ChannelTypes /\ LaneTypes /\ RecTypes /\ ReplayTypes /\ RestTypes
  <1>1. P' => TypeInv'
    BY TypeParts, PTL
  <1> SUFFICES P'
    BY <1>1
  <1>2. ASSUME UNCHANGED <<raw, ingest, queue>> PROVE ChannelTypes'
    BY <1>0, <1>2 DEF ChannelTypes
  <1>3. ASSUME UNCHANGED <<lane, seen>> PROVE LaneTypes'
    BY <1>0, <1>3 DEF LaneTypes
  <1>4. ASSUME UNCHANGED rec PROVE RecTypes'
    BY <1>0, <1>4 DEF RecTypes
  <1>5. ASSUME replays' = replays, rec.lines <= rec'.lines, rec'.lines \in Nat PROVE ReplayTypes'
    <2>1. \A i \in DOMAIN replays : replays[i].pos \in Nat /\ replays[i].pos <= rec.lines
      <3>1. replays \in Seq(Replays) /\ \A r \in Replays : r.pos \in Nat
        BY <1>0 DEF ReplayTypes, Replays
      <3>2. \A i \in DOMAIN replays : replays[i] \in Replays
        BY <3>1
      <3> QED  BY <1>0, <3>1, <3>2 DEF ReplayTypes
    <2>2. rec.lines \in Nat
      BY <1>0 DEF RecTypes, Recorders
    <2>3. \A i \in DOMAIN replays : replays[i].pos <= rec'.lines
      BY <1>5, <2>1, <2>2
    <2> QED  BY <1>0, <1>5, <2>3 DEF ReplayTypes
  <1>6. ASSUME UNCHANGED <<replays, rec>> PROVE ReplayTypes'
    BY <1>0, <1>6 DEF ReplayTypes
  <1>7. ASSUME UNCHANGED <<phase, clk, now, emits, vseq, overloaded>> PROVE RestTypes'
    BY <1>0, <1>7 DEF RestTypes
  <1>8. ASSUME NEW e \in Events, Send(e), vseq' \in [Feeds -> Nat] PROVE P'
    <2>1. ChannelTypes'
      <3>1. /\ raw' = (IF Len(raw) < RawCap THEN Append(raw, e) ELSE raw)
            /\ ingest' = ingest /\ queue' = queue /\ RawCap \in Nat /\ raw \in Seq(Events)
            /\ Len(raw) <= RawCap
        BY <1>0, <1>8, RecordingAssumption DEF Send, ChannelTypes
      <3>2. raw' \in Seq(Events) /\ Len(raw') <= RawCap
        BY <3>1
      <3> QED  BY <1>0, <3>1, <3>2 DEF ChannelTypes
    <2>2. RestTypes'
      <3>1. emits' \in Nat
        BY <1>0, <1>8 DEF Send, RestTypes
      <3> QED  BY <1>0, <1>8, <3>1 DEF Send, RestTypes
    <2> QED  BY <1>3, <1>4, <1>6, <1>8, <2>1, <2>2 DEF Send
  <1>9. CASE IngestRecord
    <2> DEFINE e == Head(raw)
    <2>1. /\ raw # <<>> /\ raw' = Tail(raw) /\ ingest' = <<e>> /\ rec' = Record(rec, e)
          /\ UNCHANGED <<queue, lane, seen, replays, phase, now, clk, vseq, emits, overloaded>>
      BY <1>9 DEF IngestRecord
    <2>2. e \in Events /\ raw' \in Seq(Events) /\ Len(raw') <= RawCap
      <3>1. raw \in Seq(Events) /\ Len(raw) \in Nat /\ Len(raw) <= RawCap /\ RawCap \in Nat
        BY <1>0, RecordingAssumption DEF ChannelTypes
      <3>2. Head(raw) \in Events /\ Tail(raw) \in Seq(Events) /\ Len(Tail(raw)) = Len(raw) - 1
        BY <2>1, <3>1, TailFacts
      <3> QED  BY <2>1, <3>1, <3>2
    <2> HIDE DEF e
    <2>3. <<e>> \in Seq(Events) /\ Len(<<e>>) <= 1
      BY <2>2
    <2>4. ChannelTypes'
      BY <1>0, <2>1, <2>2, <2>3 DEF ChannelTypes
    <2>5. rec' \in Recorders /\ rec'.lines = rec.lines /\ RecTypes'
      BY <1>0, <2>1, <2>2, RecorderFacts DEF RecTypes
    <2>6. ReplayTypes'
      BY <1>0, <2>1, <2>5 DEF ReplayTypes
    <2> QED  BY <1>3, <1>7, <2>1, <2>4, <2>5, <2>6
  <1>10. CASE Submit
    <2> DEFINE e == Head(ingest)
    <2>1. /\ ingest # <<>> /\ Len(queue[e.venue]) < QueueSize /\ ingest' = <<>>
          /\ queue' = [queue EXCEPT ![e.venue] = Append(queue[e.venue], e)]
          /\ UNCHANGED <<raw, lane, seen, rec, replays, phase, now, clk, vseq, emits, overloaded>>
      BY <1>10 DEF Submit
    <2>2. e \in Events /\ e.venue \in Feeds
      <3>1. e \in Events
        BY <1>0, <2>1, TailFacts DEF ChannelTypes
      <3> QED  BY <3>1, RoundTrip
    <2> HIDE DEF e
    <2> DEFINE q == Append(queue[e.venue], e)
    <2>3. queue[e.venue] \in Seq(Events)
      BY <1>0, <2>2 DEF ChannelTypes
    <2>4. /\ q \in Seq(Events) /\ Len(q) = Len(queue[e.venue]) + 1
          /\ DOMAIN q = DOMAIN queue[e.venue] \cup {Len(queue[e.venue]) + 1}
          /\ q[Len(queue[e.venue]) + 1] = e
          /\ \A i \in DOMAIN queue[e.venue] : q[i] = queue[e.venue][i]
      BY <2>2, <2>3, AppendFacts
    <2>5. Len(q) <= QueueSize
      <3>1. Len(queue[e.venue]) \in Nat /\ QueueSize \in Nat
        BY <2>3, RecordingAssumption
      <3> QED  BY <2>1, <2>4, <3>1
    <2>6. \A i \in DOMAIN q : q[i].venue = e.venue
      BY <1>0, <2>2, <2>4 DEF ChannelTypes
    <2>7. queue' = [queue EXCEPT ![e.venue] = q]
      BY <2>1
    <2> HIDE DEF q
    <2>8. ChannelTypes'
      <3>1. /\ queue' \in [Feeds -> Seq(Events)] /\ queue'[e.venue] = q
            /\ \A v \in Feeds : v # e.venue => queue'[v] = queue[v]
        BY <1>0, <2>2, <2>4, <2>7 DEF ChannelTypes
      <3>2. \A v \in Feeds : /\ Len(queue'[v]) <= QueueSize
                             /\ \A i \in DOMAIN queue'[v] : queue'[v][i].venue = v
        BY <1>0, <2>5, <2>6, <3>1 DEF ChannelTypes
      <3>3. <<>> \in Seq(Events) /\ Len(<<>>) <= 1
        OBVIOUS
      <3> QED  BY <1>0, <2>1, <3>1, <3>2, <3>3 DEF ChannelTypes
    <2> QED  BY <1>3, <1>4, <1>6, <1>7, <2>1, <2>8
  <1>11. CASE SubmitOverload
    <2> DEFINE v == Head(ingest).venue
    <2>1. /\ ingest # <<>> /\ ingest' = <<>>
          /\ lane' = [lane EXCEPT ![v].book = Invalidate(@)]
          /\ overloaded' = overloaded \cup {v}
          /\ UNCHANGED <<raw, queue, seen, rec, replays, phase, now, clk, vseq, emits>>
      BY <1>11 DEF SubmitOverload
    <2>2. v \in Feeds
      <3>1. Head(ingest) \in Events
        BY <1>0, <2>1, TailFacts DEF ChannelTypes
      <3> QED  BY <3>1, RoundTrip
    <2> HIDE DEF v
    <2>3. LaneTypes'
      <3>1. lane[v] \in LaneStates /\ [lane[v] EXCEPT !.book = Invalidate(lane[v].book)] \in LaneStates
        BY <1>0, <2>2, OverloadType DEF LaneTypes
      <3>2. lane' = [lane EXCEPT ![v] = [lane[v] EXCEPT !.book = Invalidate(lane[v].book)]]
        BY <2>1
      <3>3. lane' \in [Feeds -> LaneStates]
        BY <1>0, <3>1, <3>2 DEF LaneTypes
      <3> QED  BY <1>0, <2>1, <3>3 DEF LaneTypes
    <2>4. ChannelTypes'
      <3>1. <<>> \in Seq(Events) /\ Len(<<>>) <= 1
        OBVIOUS
      <3> QED  BY <1>0, <2>1, <3>1 DEF ChannelTypes
    <2>5. RestTypes'
      BY <1>0, <2>1, <2>2 DEF RestTypes
    <2> QED  BY <1>4, <1>6, <2>1, <2>3, <2>4, <2>5
  <1>12. ASSUME NEW v \in Feeds, LaneApply(v) PROVE P'
    <2> DEFINE l == Apply(lane[v], Head(queue[v]))
    <2>1. /\ queue[v] # <<>> /\ lane' = [lane EXCEPT ![v] = l]
          /\ queue' = [queue EXCEPT ![v] = Tail(queue[v])]
          /\ seen' = [seen EXCEPT ![v] = Append(seen[v], lane'[v])]
          /\ UNCHANGED <<raw, ingest, rec, replays, phase, now, clk, vseq, emits, overloaded>>
      BY <1>12 DEF LaneApply
    <2>2. /\ queue[v] \in Seq(Events) /\ seen[v] \in Seq(LaneStates) /\ lane[v] \in LaneStates
          /\ Len(queue[v]) <= QueueSize /\ QueueSize \in Nat
          /\ \A i \in DOMAIN queue[v] : queue[v][i].venue = v
      BY <1>0, RecordingAssumption DEF ChannelTypes, LaneTypes
    <2>3. /\ Head(queue[v]) \in Events /\ Tail(queue[v]) \in Seq(Events)
          /\ Len(Tail(queue[v])) = Len(queue[v]) - 1
          /\ \A i \in DOMAIN Tail(queue[v]) : Tail(queue[v])[i].venue = v
      BY <2>1, <2>2, TailFacts
    <2>4. l \in LaneStates
      BY <2>2, <2>3, ApplyFacts
    <2> HIDE DEF l
    <2>5. lane' \in [Feeds -> LaneStates] /\ lane'[v] = l
      BY <1>0, <2>1, <2>4 DEF LaneTypes
    <2>6. Append(seen[v], l) \in Seq(LaneStates) /\ Append(seen[v], l) # <<>>
      <3>1. /\ Append(seen[v], l) \in Seq(LaneStates)
            /\ Len(Append(seen[v], l)) = Len(seen[v]) + 1 /\ Len(seen[v]) \in Nat
        BY <2>2, <2>4, AppendFacts
      <3> QED  BY <3>1
    <2>7. LaneTypes'
      BY <1>0, <2>1, <2>5, <2>6 DEF LaneTypes
    <2>8. Len(Tail(queue[v])) <= QueueSize
      <3>1. Len(queue[v]) \in Nat
        BY <2>2
      <3> QED  BY <2>2, <2>3, <3>1
    <2>9. ChannelTypes'
      <3> DEFINE t == Tail(queue[v])
      <3> HIDE DEF t
      <3>1. /\ queue' \in [Feeds -> Seq(Events)] /\ queue'[v] = t
            /\ \A u \in Feeds : u # v => queue'[u] = queue[u]
        BY <1>0, <2>1, <2>3 DEF ChannelTypes, t
      <3>2. \A u \in Feeds : /\ Len(queue'[u]) <= QueueSize
                             /\ \A i \in DOMAIN queue'[u] : queue'[u][i].venue = u
        BY <1>0, <2>3, <2>8, <3>1 DEF ChannelTypes, t
      <3> QED  BY <1>0, <2>1, <3>1, <3>2 DEF ChannelTypes
    <2> QED  BY <1>4, <1>6, <1>7, <2>1, <2>7, <2>9
  <1>13. ASSUME NEW v \in Feeds, Sweep(v) PROVE P'
    <2> DEFINE flag == now - lane[v].book.at > MaxQuoteAge
    <2>1. /\ lane' = [lane EXCEPT ![v] = [lane[v] EXCEPT !.book = MarkStale(lane[v].book, flag)]]
          /\ UNCHANGED <<raw, ingest, queue, seen, rec, replays, phase, now, clk, vseq, emits, overloaded>>
      BY <1>13 DEF Sweep
    <2>2. flag \in BOOLEAN
      OBVIOUS
    <2> HIDE DEF flag
    <2>3. lane[v] \in LaneStates /\ [lane[v] EXCEPT !.book = MarkStale(lane[v].book, flag)] \in LaneStates
      BY <1>0, <2>2, SweepContent DEF LaneTypes
    <2>4. LaneTypes'
      BY <1>0, <2>1, <2>3 DEF LaneTypes
    <2> QED  BY <1>2, <1>4, <1>6, <1>7, <2>1, <2>4
  <1>14. CASE Tick
    <2>1. RestTypes'
      BY <1>0, <1>14 DEF Tick, RestTypes
    <2> QED  BY <1>2, <1>3, <1>4, <1>6, <1>14, <2>1 DEF Tick
  <1>15. ASSUME NEW lines \in 0..Len(rec.written), NEW torn \in BOOLEAN, Flush(lines, torn) PROVE P'
    <2>1. /\ rec' \in Recorders /\ rec'.lines = lines /\ rec'.written = rec.written /\ rec'.seq = rec.seq
      BY <1>0, <1>15, RecorderFacts DEF Flush, RecTypes
    <2>2. rec.lines <= lines /\ lines <= Len(rec.written) /\ lines \in Nat
      <3>1. rec.lines \in Nat /\ Len(rec.written) \in Nat
        BY <1>0 DEF RecTypes, Recorders
      <3> QED  BY <1>15, <3>1 DEF Flush
    <2>3. RecTypes'
      BY <1>0, <2>1, <2>2 DEF RecTypes
    <2> QED  BY <1>2, <1>3, <1>5, <1>7, <1>15, <2>1, <2>2, <2>3 DEF Flush
  <1>16. CASE CloseRecorder
    <2>1. /\ rec' \in Recorders /\ rec'.lines = Len(rec.written) /\ rec'.written = rec.written
          /\ rec'.seq = rec.seq
      BY <1>0, <1>16, RecorderFacts DEF CloseRecorder, RecTypes
    <2>2. Len(rec.written) \in Nat /\ rec.lines <= Len(rec.written)
      BY <1>0 DEF RecTypes, Recorders
    <2>3. RecTypes'
      BY <1>0, <2>1, <2>2 DEF RecTypes
    <2>4. RestTypes'
      BY <1>0, <1>16 DEF CloseRecorder, RestTypes
    <2> QED  BY <1>2, <1>3, <1>5, <1>16, <2>1, <2>2, <2>3, <2>4 DEF CloseRecorder
  <1>17. CASE End
    <2>1. RestTypes'
      BY <1>0, <1>17 DEF End, RestTypes
    <2> QED  BY <1>2, <1>3, <1>4, <1>6, <1>17, <2>1 DEF End
  <1>18. CASE StartReplay
    <2>1. replays' = Append(replays, NewReplay) /\ Len(replays) < 2 /\ rec' = rec /\ NewReplay \in Replays
      BY <1>18, ReplayFacts DEF StartReplay
    <2>2. NewReplay.pos <= rec.lines
      <3>1. rec.lines \in Nat
        BY <1>0 DEF RecTypes, Recorders
      <3> QED  BY <3>1 DEF NewReplay
    <2>3. replays \in Seq(Replays)
      BY <1>0 DEF ReplayTypes
    <2>4. /\ replays' \in Seq(Replays) /\ Len(replays') = Len(replays) + 1
          /\ \A i \in DOMAIN replays' : replays'[i] = NewReplay \/ (i \in DOMAIN replays /\ replays'[i] = replays[i])
      BY <2>1, <2>3, AppendFacts
    <2>5. Len(replays') <= 2
      BY <2>1, <2>3, <2>4
    <2>6. ReplayTypes'
      BY <1>0, <2>1, <2>2, <2>4, <2>5 DEF ReplayTypes
    <2> QED  BY <1>2, <1>3, <1>4, <1>7, <1>18, <2>6 DEF StartReplay
  <1>19. CASE ReplayEvent
    <2>1. /\ replays # <<>> /\ Current.pos < rec.lines
          /\ UNCHANGED <<phase, now, clk, live, rec>>
      BY <1>19 DEF ReplayEvent
    <2>2. /\ replays' \in Seq(Replays) /\ Len(replays') = Len(replays)
          /\ \A i \in DOMAIN replays : i # Len(replays) => replays'[i] = replays[i]
          /\ replays'[Len(replays)].pos = Current.pos + 1 /\ Current \in Replays
      BY <1>19, <2>1, ReplayFacts
    <2>3. Current.pos + 1 <= rec.lines
      <3>1. Current.pos \in Nat /\ rec.lines \in Nat
        BY <1>0, <2>2 DEF Replays, RecTypes, Recorders
      <3> QED  BY <2>1, <3>1
    <2>4. DOMAIN replays' = DOMAIN replays
      BY <1>0, <2>2 DEF ReplayTypes
    <2>5. ReplayTypes'
      BY <1>0, <2>1, <2>2, <2>3, <2>4 DEF ReplayTypes
    <2> QED  BY <1>2, <1>3, <1>4, <1>7, <2>1, <2>5
  <1>20. CASE ReplayEnd
    <2>1. replays # <<>> /\ UNCHANGED <<phase, now, clk, live, rec>>
      BY <1>20 DEF ReplayEnd
    <2>2. /\ replays' \in Seq(Replays) /\ Len(replays') = Len(replays)
          /\ \A i \in DOMAIN replays : i # Len(replays) => replays'[i] = replays[i]
          /\ replays'[Len(replays)].pos = Current.pos /\ Current.pos <= rec.lines
      BY <1>20, <2>1, ReplayFacts
    <2>3. DOMAIN replays' = DOMAIN replays
      BY <1>0, <2>2 DEF ReplayTypes
    <2>4. ReplayTypes'
      BY <1>0, <2>1, <2>2, <2>3 DEF ReplayTypes
    <2> QED  BY <1>2, <1>3, <1>4, <1>7, <2>1, <2>4
  <1>21. CASE UNCHANGED vars
    BY <1>2, <1>3, <1>4, <1>6, <1>7, <1>21 DEF vars
  <1> HIDE DEF P
  <1>22. ASSUME NEW v \in Feeds,
                \/ \E top \in SUBSET Levels : SendSnapshot(v, top)
               \/ SendTrade(v) \/ \E skip \in Skips : SendDelta(v, skip)
         PROVE  P'
    <2>1. vseq \in [Feeds -> Nat]
      BY <1>0 DEF RestTypes
    <2> QED  BY <1>0, <1>8, <1>22, <2>1, NewEvents DEF SendSnapshot, SendTrade, SendDelta
  <1> QED  BY <1>9, <1>10, <1>11, <1>12, <1>13, <1>14, <1>15, <1>16, <1>17, <1>18, <1>19, <1>20,
              <1>21, <1>22
           DEF Next, Live, Replay

\* Before the first event.
LEMMA TypeInit == Init => TypeInv
  <1> SUFFICES ASSUME Init PROVE TypeInv
    OBVIOUS
  <1>0. /\ NewLane \in LaneStates /\ NewLanes \in [Feeds -> LaneStates]
    <2>1. NewTracker \in Trackers /\ NewBook \in Books
      <3>1. EmptyDepth \in Depths
        BY DEF EmptyDepth, Depths
      <3> QED  BY <3>1 DEF NewTracker, Trackers, NewBook, Books
    <2>2. NewLane \in LaneStates
      BY <2>1, LaneParts DEF NewLane
    <2> QED  BY <2>2 DEF NewLanes
  <1>1. ChannelTypes
    BY RecordingAssumption DEF Init, ChannelTypes
  <1>2. LaneTypes
    <2>1. <<NewLane>> \in Seq(LaneStates) /\ <<NewLane>> # <<>>
      BY <1>0
    <2> QED  BY <1>0, <2>1 DEF Init, LaneTypes
  <1>3. RecTypes
    BY DEF Init, RecTypes, NewRecorder, Recorders
  <1>4. ReplayTypes
    BY DEF Init, ReplayTypes
  <1>5. RestTypes
    BY DEF Init, RestTypes
  <1> QED  BY <1>1, <1>2, <1>3, <1>4, <1>5, TypeParts

\* The type invariant.
LEMMA TypeInvariant == Spec => []TypeInv
  BY TypeInit, TypeStep, PTL DEF Spec

\* The channels keep to their capacities, the file never claims a line that
\* was not recorded, no replay reads past the end of the file, and whatever
\* a replay reads back is an event.
THEOREM RecordingTypeCorrect == Spec => []TypeOK
  <1>1. TypeInv => TypeOK
    BY DEF TypeInv
  <1> QED  BY <1>1, TypeInvariant, PTL
-----------------------------------------------------------------------------
(* The steps of the live run, as far as the recording is concerned. *)

\* The counters are numbers, and a lane has at least its first state.
LEMMA CounterTypes ==
    ASSUME TypeInv, NEW v \in Feeds
    PROVE  /\ Recorded(v) \in Nat /\ Len(queue[v]) \in Nat /\ AtIngest(v) \in 0..1
           /\ Len(seen[v]) \in Nat /\ Len(seen[v]) >= 1
           /\ queue[v] \in Seq(Events) /\ seen[v] \in Seq(LaneStates)
           /\ rec.written \in Seq(Envelopes) /\ Len(rec.written) \in Nat
  <1>1. /\ queue[v] \in Seq(Events) /\ seen[v] \in Seq(LaneStates) /\ seen[v] # <<>>
        /\ rec.written \in Seq(Envelopes)
    BY TypeParts DEF ChannelTypes, LaneTypes, RecTypes, Recorders
  <1>2. Recorded(v) \in Nat
    BY <1>1, CountFacts DEF Recorded
  <1> QED  BY <1>1, <1>2 DEF AtIngest

\* The line numbers of a venue, from one to the number of its lines.
LEMMA RankFacts ==
    ASSUME TypeInv, NEW v \in Feeds, NEW i \in 1..Len(rec.written), rec.written[i].venue = v
    PROVE  /\ Count(rec.written, i, v) \in Nat /\ Count(rec.written, i, v) >= 1
           /\ Count(rec.written, i, v) <= Recorded(v)
           /\ ToEvent(rec.written[i]) \in Events /\ ToEvent(rec.written[i]).venue = v
  <1>1. rec.written \in Seq(Envelopes) /\ Len(rec.written) \in Nat
    BY CounterTypes
  <1>2. i - 1 \in Nat /\ (i - 1) + 1 = i /\ i \in Nat /\ i \in 0..Len(rec.written)
    BY <1>1
  <1>3. Count(rec.written, i, v) = Count(rec.written, i - 1, v) + 1 /\ Count(rec.written, i - 1, v) \in Nat
    <2> DEFINE m == i - 1
    <2>1. m \in Nat /\ m + 1 = i
      BY <1>2
    <2> HIDE DEF m
    <2>2. /\ Count(rec.written, m, v) \in Nat
          /\ Count(rec.written, m + 1, v)
                = Count(rec.written, m, v) + (IF rec.written[m + 1].venue = v THEN 1 ELSE 0)
      BY <2>1, CountFacts
    <2> QED  BY <2>1, <2>2 DEF m
  <1>4. Count(rec.written, i, v) <= Recorded(v)
    BY <1>1, <1>2, CountFacts DEF Recorded
  <1>5. ToEvent(rec.written[i]) \in Events /\ ToEvent(rec.written[i]).venue = v
    BY <1>1, LineFacts
  <1> QED  BY <1>3, <1>4, <1>5

\* Recording the next event: one line more, if the recorder is open.
LEMMA IngestFacts ==
    ASSUME TypeInv, IngestRecord
    PROVE  \E e \in Events :
              /\ ingest = <<>> /\ ingest' # <<>> /\ Head(ingest') = e /\ e.venue \in Feeds
              /\ queue' = queue /\ seen' = seen /\ lane' = lane /\ overloaded' = overloaded
              /\ replays' = replays /\ phase' = phase /\ phase # "ended"
              /\ rec'.open = rec.open
              /\ ~rec.open => rec'.written = rec.written
              /\ rec.open => /\ Len(rec'.written) = Len(rec.written) + 1
                             /\ rec'.written[Len(rec.written) + 1].venue = e.venue
                             /\ ToEvent(rec'.written[Len(rec.written) + 1]) = e
              /\ \A i \in 1..Len(rec.written) : rec'.written[i] = rec.written[i]
              /\ \A v \in Feeds :
                    /\ AtIngest(v) = 0 /\ AtIngest(v)' = IF e.venue = v THEN 1 ELSE 0
                    /\ Recorded(v)' = Recorded(v) + (IF rec.open THEN AtIngest(v)' ELSE 0)
                    /\ \A i \in 1..Len(rec.written) :
                          Count(rec'.written, i, v) = Count(rec.written, i, v)
  <1> DEFINE e == Head(raw)
             w == rec.written
             n == Len(rec.written)
             re == FromEvent(rec.seq + 1, e)
  <1>0. ChannelTypes /\ RecTypes
    BY TypeParts
  <1>1. /\ raw # <<>> /\ ingest = <<>> /\ ingest' = <<e>> /\ rec' = Record(rec, e) /\ phase # "ended"
        /\ UNCHANGED <<queue, seen, lane, overloaded, replays, phase>>
    BY DEF IngestRecord
  <1>2. e \in Events
    BY <1>0, <1>1, TailFacts DEF ChannelTypes
  <1>3. ingest' # <<>> /\ Head(ingest') = e
    BY <1>1
  <1>4. w \in Seq(Envelopes) /\ rec.seq + 1 \in Nat /\ rec.open \in BOOLEAN /\ n \in Nat
    BY <1>0 DEF RecTypes, Recorders
  <1>5. ToEvent(re) = e /\ re.venue = e.venue /\ e.venue \in Feeds
    BY <1>2, <1>4, RoundTrip
  <1>6. /\ rec'.open = rec.open /\ re \in Envelopes
        /\ rec'.written = IF rec.open THEN Append(w, re) ELSE w
    BY <1>0, <1>1, <1>2, RecorderFacts DEF RecTypes
  <1> HIDE DEF e, re
  <1>7. /\ Append(w, re) \in Seq(Envelopes) /\ Len(Append(w, re)) = n + 1
        /\ Append(w, re)[n + 1] = re /\ \A i \in 1..n : Append(w, re)[i] = w[i]
    BY <1>4, <1>6, AppendFacts
  <1>8. /\ rec.open => /\ Len(rec'.written) = n + 1 /\ rec'.written[n + 1].venue = e.venue
                       /\ ToEvent(rec'.written[n + 1]) = e
        /\ ~rec.open => rec'.written = w
        /\ \A i \in 1..n : rec'.written[i] = w[i]
    BY <1>5, <1>6, <1>7
  <1>9. ASSUME NEW v \in Feeds
        PROVE  /\ AtIngest(v) = 0 /\ AtIngest(v)' = IF e.venue = v THEN 1 ELSE 0
               /\ Recorded(v)' = Recorded(v) + (IF rec.open THEN AtIngest(v)' ELSE 0)
               /\ \A i \in 1..n : Count(rec'.written, i, v) = Count(w, i, v)
    <2>1. AtIngest(v) = 0 /\ AtIngest(v)' = IF e.venue = v THEN 1 ELSE 0
      BY <1>1, <1>3 DEF AtIngest
    <2>2. \A i \in 1..n : Count(rec'.written, i, v) = Count(w, i, v)
      <3> SUFFICES ASSUME NEW i \in 1..n PROVE Count(rec'.written, i, v) = Count(w, i, v)
        OBVIOUS
      <3>1. i \in Nat /\ \A j \in 1..i : rec'.written[j] = w[j]
        BY <1>4, <1>8
      <3> QED  BY <3>1, CountPrefix
    <2>3. Count(rec'.written, n, v) = Count(w, n, v) /\ Count(w, n, v) \in Nat
      <3>1. n \in Nat /\ \A j \in 1..n : rec'.written[j] = w[j]
        BY <1>4, <1>8
      <3>2. Count(rec'.written, n, v) = Count(w, n, v)
        BY <3>1, CountPrefix
      <3> QED  BY <3>1, <3>2, CountFacts
    <2>4. Recorded(v) = Count(w, n, v) /\ Recorded(v)' = Count(rec'.written, Len(rec'.written), v)
      BY DEF Recorded
    <2>5. CASE rec.open
      <3>1. Count(rec'.written, n + 1, v) = Count(rec'.written, n, v) + (IF e.venue = v THEN 1 ELSE 0)
        <4> DEFINE x == rec'.written
        <4>1. n \in Nat /\ x[n + 1].venue = e.venue
          BY <1>4, <1>8, <2>5
        <4> HIDE DEF n, x
        <4>2. Count(x, n + 1, v) = Count(x, n, v) + (IF x[n + 1].venue = v THEN 1 ELSE 0)
          BY <4>1, CountFacts
        <4> QED  BY <4>1, <4>2 DEF n, x
      <3> QED  BY <1>8, <2>1, <2>2, <2>3, <2>4, <2>5, <3>1
    <2>6. CASE ~rec.open
      BY <1>8, <2>1, <2>2, <2>3, <2>4, <2>6
    <2> QED  BY <1>4, <2>5, <2>6
  <1>10. WITNESS e \in Events
  <1> QED  BY <1>1, <1>3, <1>5, <1>6, <1>8, <1>9

\* Handing the event over: it moves from the fan-in goroutine to its channel.
LEMMA SubmitFacts ==
    ASSUME TypeInv, Submit
    PROVE  /\ UNCHANGED <<rec, seen, lane, overloaded, replays, phase>> /\ phase # "ended"
           /\ Head(ingest) \in Events /\ Head(ingest).venue \in Feeds
           /\ \A v \in Feeds :
                 /\ AtIngest(v)' = 0 /\ AtIngest(v) = IF Head(ingest).venue = v THEN 1 ELSE 0
                 /\ Len(queue'[v]) = Len(queue[v]) + AtIngest(v)
                 /\ \A i \in 1..Len(queue[v]) : queue'[v][i] = queue[v][i]
                 /\ AtIngest(v) = 1 => queue'[v][Len(queue[v]) + 1] = Head(ingest)
  <1> DEFINE e == Head(ingest)
  <1>0. ChannelTypes
    BY TypeParts
  <1>1. /\ ingest # <<>> /\ ingest' = <<>> /\ phase # "ended"
        /\ queue' = [queue EXCEPT ![e.venue] = Append(queue[e.venue], e)]
        /\ UNCHANGED <<rec, seen, lane, overloaded, replays, phase>>
    BY DEF Submit
  <1>2. e \in Events
    BY <1>0, <1>1, TailFacts DEF ChannelTypes
  <1>3. e.venue \in Feeds
    BY <1>2, RoundTrip
  <1>4. ASSUME NEW v \in Feeds
        PROVE  AtIngest(v)' = 0 /\ AtIngest(v) = IF e.venue = v THEN 1 ELSE 0
    BY <1>1 DEF AtIngest
  <1> HIDE DEF e
  <1>5. ASSUME NEW v \in Feeds
        PROVE  /\ Len(queue'[v]) = Len(queue[v]) + AtIngest(v)
               /\ \A i \in 1..Len(queue[v]) : queue'[v][i] = queue[v][i]
               /\ AtIngest(v) = 1 => queue'[v][Len(queue[v]) + 1] = e
    <2>1. queue[v] \in Seq(Events) /\ Len(queue[v]) \in Nat
      BY CounterTypes
    <2>2. CASE v = e.venue
      <3>1. queue'[v] = Append(queue[v], e)
        BY <1>0, <1>1, <2>2 DEF ChannelTypes
      <3>2. /\ Len(Append(queue[v], e)) = Len(queue[v]) + 1
            /\ Append(queue[v], e)[Len(queue[v]) + 1] = e
            /\ \A i \in 1..Len(queue[v]) : Append(queue[v], e)[i] = queue[v][i]
        BY <1>2, <2>1, AppendFacts
      <3> QED  BY <1>4, <2>2, <3>1, <3>2
    <2>3. CASE v # e.venue
      <3>1. queue'[v] = queue[v]
        BY <1>0, <1>1, <2>3 DEF ChannelTypes
      <3> QED  BY <1>4, <2>1, <2>3, <3>1
    <2> QED  BY <2>2, <2>3
  <1> QED  BY <1>1, <1>2, <1>3, <1>4, <1>5 DEF e

\* Refusing the event: its venue is marked.
LEMMA OverloadFacts ==
    ASSUME TypeInv, SubmitOverload
    PROVE  /\ UNCHANGED <<rec, seen, queue, replays, phase>> /\ phase # "ended"
           /\ Head(ingest).venue \in Feeds
           /\ overloaded' = overloaded \cup {Head(ingest).venue}
           /\ \A v \in Feeds :
                 /\ AtIngest(v)' = 0 /\ AtIngest(v) = IF Head(ingest).venue = v THEN 1 ELSE 0
                 /\ v \notin overloaded' => lane'[v] = lane[v]
  <1>0. ChannelTypes /\ LaneTypes
    BY TypeParts
  <1>1. /\ ingest # <<>> /\ ingest' = <<>> /\ phase # "ended"
        /\ lane' = [lane EXCEPT ![Head(ingest).venue].book = Invalidate(@)]
        /\ overloaded' = overloaded \cup {Head(ingest).venue}
        /\ UNCHANGED <<rec, seen, queue, replays, phase>>
    BY DEF SubmitOverload
  <1>2. Head(ingest) \in Events
    BY <1>0, <1>1, TailFacts DEF ChannelTypes
  <1>3. Head(ingest).venue \in Feeds
    BY <1>2, RoundTrip
  <1>4. ASSUME NEW v \in Feeds
        PROVE  AtIngest(v)' = 0 /\ AtIngest(v) = IF Head(ingest).venue = v THEN 1 ELSE 0
    BY <1>1 DEF AtIngest
  <1>5. ASSUME NEW v \in Feeds, v \notin overloaded' PROVE lane'[v] = lane[v]
    BY <1>0, <1>1, <1>5 DEF LaneTypes
  <1> QED  BY <1>1, <1>3, <1>4, <1>5

\* Applying the next event of a channel.
LEMMA ApplyStepFacts ==
    ASSUME TypeInv, NEW u \in Feeds, LaneApply(u)
    PROVE  /\ UNCHANGED <<rec, ingest, overloaded, replays, phase>> /\ phase # "ended"
           /\ \A v \in Feeds : AtIngest(v)' = AtIngest(v)
           /\ \A v \in Feeds \ {u} : queue'[v] = queue[v] /\ seen'[v] = seen[v] /\ lane'[v] = lane[v]
           /\ Len(queue[u]) >= 1 /\ Len(queue'[u]) = Len(queue[u]) - 1
           /\ \A i \in 1..Len(queue'[u]) : queue'[u][i] = queue[u][i + 1]
           /\ queue[u][1] \in Events /\ lane[u] \in LaneStates
           /\ lane'[u] = Apply(lane[u], queue[u][1]) /\ lane'[u] \in LaneStates
           /\ Len(seen'[u]) = Len(seen[u]) + 1 /\ seen'[u][Len(seen[u]) + 1] = lane'[u]
           /\ \A i \in 1..Len(seen[u]) : seen'[u][i] = seen[u][i]
  <1> DEFINE l == Apply(lane[u], Head(queue[u]))
             q == queue[u]
             s == seen[u]
  <1>0. ChannelTypes /\ LaneTypes
    BY TypeParts
  <1>1. /\ q # <<>> /\ lane' = [lane EXCEPT ![u] = l] /\ phase # "ended"
        /\ queue' = [queue EXCEPT ![u] = Tail(q)]
        /\ seen' = [seen EXCEPT ![u] = Append(s, lane'[u])]
        /\ UNCHANGED <<rec, ingest, overloaded, replays, phase>>
    BY DEF LaneApply
  <1>2. /\ q \in Seq(Events) /\ s \in Seq(LaneStates) /\ lane[u] \in LaneStates
        /\ Len(q) \in Nat /\ Len(s) \in Nat
    BY <1>0, CounterTypes DEF LaneTypes
  <1>3. /\ Head(q) = q[1] /\ Head(q) \in Events /\ Tail(q) \in Seq(Events) /\ Len(Tail(q)) = Len(q) - 1
        /\ \A i \in DOMAIN Tail(q) : Tail(q)[i] = q[i + 1]
    BY <1>1, <1>2, TailFacts
  <1>4. l \in LaneStates /\ l = Apply(lane[u], q[1])
    BY <1>2, <1>3, ApplyFacts
  <1>5. /\ lane'[u] = l /\ queue'[u] = Tail(q)
        /\ \A v \in Feeds \ {u} : queue'[v] = queue[v] /\ seen'[v] = seen[v] /\ lane'[v] = lane[v]
    BY <1>0, <1>1 DEF ChannelTypes, LaneTypes
  <1>6. seen'[u] = Append(s, l)
    BY <1>0, <1>1, <1>5 DEF LaneTypes
  <1> HIDE DEF l
  <1>7. /\ Len(Append(s, l)) = Len(s) + 1 /\ Append(s, l)[Len(s) + 1] = l
        /\ \A i \in 1..Len(s) : Append(s, l)[i] = s[i]
    BY <1>2, <1>4, AppendFacts
  <1>8. Len(q) >= 1 /\ DOMAIN Tail(q) = 1..Len(Tail(q))
    BY <1>1, <1>2, <1>3
  <1>9. \A v \in Feeds : AtIngest(v)' = AtIngest(v)
    BY <1>1 DEF AtIngest
  <1> QED  BY <1>1, <1>2, <1>3, <1>4, <1>5, <1>6, <1>7, <1>8, <1>9

\* Every other step leaves the recorded lines, the channels, the states seen
\* and the overloads alone, does not reopen the recorder, and changes a lane
\* only in its stale mark.
LEMMA OtherStepFacts ==
    ASSUME TypeInv, [Next]_vars, ~IngestRecord, ~Submit, ~SubmitOverload,
           \A v \in Feeds : ~LaneApply(v)
    PROVE  /\ UNCHANGED <<ingest, queue, seen, overloaded>> /\ rec'.written = rec.written
           /\ rec'.open => rec.open
           /\ \A v \in Feeds : Content(lane'[v]) = Content(lane[v])
           /\ phase = "ended" => phase' = "ended" /\ rec' = rec
           /\ replays' = replays \/ StartReplay \/ ReplayEvent \/ ReplayEnd
  <1> DEFINE Goal == /\ UNCHANGED <<ingest, queue, seen, overloaded>> /\ rec'.written = rec.written
                     /\ rec'.open => rec.open
                     /\ \A v \in Feeds : Content(lane'[v]) = Content(lane[v])
                     /\ phase = "ended" => phase' = "ended" /\ rec' = rec
                     /\ replays' = replays \/ StartReplay \/ ReplayEvent \/ ReplayEnd
  <1> SUFFICES Goal
    OBVIOUS
  <1> USE DEF live
  <1>0. LaneTypes /\ RecTypes
    BY TypeParts
  <1>1. ASSUME NEW v \in Feeds,
               \/ \E top \in SUBSET Levels : SendSnapshot(v, top)
               \/ SendTrade(v) \/ \E skip \in Skips : SendDelta(v, skip)
        PROVE  Goal
    BY <1>1 DEF SendSnapshot, SendTrade, SendDelta, Send
  <1>2. ASSUME NEW v \in Feeds, Sweep(v) PROVE Goal
    <2> DEFINE flag == now - lane[v].book.at > MaxQuoteAge
    <2>1. /\ lane' = [lane EXCEPT ![v] = [lane[v] EXCEPT !.book = MarkStale(lane[v].book, flag)]]
          /\ UNCHANGED <<ingest, queue, seen, overloaded, rec, phase, replays>>
      BY <1>2 DEF Sweep
    <2>2. flag \in BOOLEAN
      OBVIOUS
    <2> HIDE DEF flag
    <2> DEFINE m == [lane[v] EXCEPT !.book = MarkStale(lane[v].book, flag)]
    <2>3. Content(m) = Content(lane[v])
      BY <1>0, <2>2, SweepContent DEF LaneTypes
    <2> HIDE DEF m
    <2>4. lane'[v] = m /\ \A u \in Feeds \ {v} : lane'[u] = lane[u]
      BY <1>0, <2>1 DEF LaneTypes, m
    <2> QED  BY <2>1, <2>3, <2>4
  <1>3. ASSUME NEW lines \in 0..Len(rec.written), NEW torn \in BOOLEAN, Flush(lines, torn)
        PROVE  Goal
    BY <1>0, <1>3, RecorderFacts DEF Flush, RecTypes
  <1>4. CASE CloseRecorder
    BY <1>0, <1>4, RecorderFacts DEF CloseRecorder, RecTypes
  <1>5. CASE End \/ Tick
    BY <1>5 DEF End, Tick
  <1>6. CASE StartReplay \/ ReplayEvent \/ ReplayEnd
    BY <1>6 DEF StartReplay, ReplayEvent, ReplayEnd
  <1>7. CASE UNCHANGED vars
    BY <1>7 DEF vars
  <1> HIDE DEF Goal
  <1> QED  BY <1>1, <1>2, <1>3, <1>4, <1>5, <1>6, <1>7 DEF Next, Live, Replay
-----------------------------------------------------------------------------
(* The recording against the live run. *)

\* What a step does to the two counts: both grow by the same, the lines only
\* if the recorder is open; or the lines stay, and events are lost only where
\* the lane is marked.
IngestStep(v) ==
    /\ rec'.open => rec.open /\ Recorded(v)' = Recorded(v) + (Way(v)' - Way(v))
    /\ Recorded(v)' <= Recorded(v) + (Way(v)' - Way(v))
    /\ overloaded' = overloaded
KeepStep(v) ==
    /\ rec'.open => rec.open
    /\ Recorded(v)' = Recorded(v) /\ Way(v)' <= Way(v)
    /\ overloaded \subseteq overloaded'
    /\ v \notin overloaded' => Way(v)' = Way(v)

\* Every step is one or the other.
LEMMA CounterStep ==
    ASSUME TypeInv, [Next]_vars, NEW v \in Feeds
    PROVE  /\ Recorded(v) \in Int /\ Recorded(v)' \in Int /\ Way(v) \in Int /\ Way(v)' \in Int
           /\ \/ IngestStep(v) \/ KeepStep(v)
  <1> DEFINE r == Recorded(v)    r2 == Recorded(v)'
             q == Len(queue[v])  q2 == Len(queue'[v])
             a == AtIngest(v)    a2 == AtIngest(v)'
             s == Len(seen[v])   s2 == Len(seen'[v])
  <1>0. r \in Nat /\ q \in Nat /\ a \in Nat /\ a \in 0..1 /\ s \in Nat
    BY CounterTypes
  <1>1. Way(v) = s - 1 + q + a /\ Way(v)' = s2 - 1 + q2 + a2
    BY DEF Way, Applied
  <1> DEFINE Goal == /\ r \in Int /\ r2 \in Int /\ Way(v) \in Int /\ Way(v)' \in Int
                     /\ IngestStep(v) \/ KeepStep(v)
  <1> SUFFICES Goal
    OBVIOUS
  <1>2. CASE IngestRecord
    <2>1. /\ queue' = queue /\ seen' = seen /\ rec'.open = rec.open /\ AtIngest(v) = 0
          /\ overloaded' = overloaded
          /\ AtIngest(v)' \in 0..1 /\ Recorded(v)' = Recorded(v) + (IF rec.open THEN AtIngest(v)' ELSE 0)
      BY <1>2, IngestFacts
    <2>2. /\ s2 = s /\ q2 = q /\ a = 0 /\ a2 \in 0..1
          /\ rec.open => r2 = r + a2
          /\ ~rec.open => r2 = r
      BY <1>0, <2>1
    <2> HIDE DEF r, r2, q, q2, a, a2, s, s2
    <2>3. /\ Way(v)' - Way(v) = a2 /\ Way(v)' >= Way(v) /\ Way(v) \in Int /\ Way(v)' \in Int
          /\ r2 \in Int /\ r2 <= r + a2
      BY <1>0, <1>1, <2>2
    <2> QED  BY <1>0, <2>1, <2>2, <2>3 DEF r, r2, IngestStep
  <1>3. CASE Submit
    <2>1. /\ rec' = rec /\ seen' = seen /\ a2 = 0 /\ overloaded' = overloaded /\ q2 = q + a
      BY <1>3, SubmitFacts
    <2>2. r2 = r /\ s2 = s
      BY <2>1 DEF Recorded
    <2> HIDE DEF r, r2, q, q2, a, a2, s, s2
    <2>3. Way(v)' = Way(v) /\ Way(v) \in Int
      BY <1>0, <1>1, <2>1, <2>2
    <2> QED  BY <1>0, <2>1, <2>2, <2>3 DEF r, r2, KeepStep
  <1>4. CASE SubmitOverload
    <2>1. /\ rec' = rec /\ seen' = seen /\ a2 = 0 /\ queue' = queue
          /\ overloaded' = overloaded \cup {Head(ingest).venue}
          /\ a = IF Head(ingest).venue = v THEN 1 ELSE 0
      BY <1>4, OverloadFacts
    <2>2. r2 = r /\ s2 = s /\ q2 = q
      BY <2>1 DEF Recorded
    <2> HIDE DEF r, r2, q, q2, a, a2, s, s2
    <2>3. Way(v)' = Way(v) - a
      BY <1>0, <1>1, <2>1, <2>2
    <2>4. Way(v) \in Int /\ Way(v)' \in Int /\ Way(v)' <= Way(v) /\ (v \notin overloaded' => Way(v)' = Way(v))
      BY <1>0, <1>1, <2>1, <2>3
    <2> QED  BY <1>0, <2>1, <2>2, <2>4 DEF r, r2, KeepStep
  <1>5. ASSUME NEW u \in Feeds, LaneApply(u)
        PROVE  Goal
    <2>1. rec' = rec /\ a2 = a /\ overloaded' = overloaded
      BY <1>5, ApplyStepFacts
    <2>2. /\ v # u => queue'[v] = queue[v] /\ seen'[v] = seen[v]
          /\ v = u => q2 = q - 1 /\ s2 = s + 1
      BY <1>5, ApplyStepFacts
    <2>3. r2 = r /\ ((q2 = q /\ s2 = s) \/ (q2 = q - 1 /\ s2 = s + 1))
      BY <2>1, <2>2 DEF Recorded
    <2> HIDE DEF r, r2, q, q2, a, a2, s, s2
    <2>4. Way(v)' = Way(v) /\ Way(v) \in Int
      BY <1>0, <1>1, <2>1, <2>3
    <2> QED  BY <1>0, <2>1, <2>3, <2>4 DEF r, r2, KeepStep
  <1>6. CASE ~IngestRecord /\ ~Submit /\ ~SubmitOverload /\ \A u \in Feeds : ~LaneApply(u)
    <2>1. /\ UNCHANGED <<ingest, queue, seen, overloaded>> /\ rec'.written = rec.written
          /\ rec'.open => rec.open
      BY <1>6, OtherStepFacts
    <2>2. a2 = a /\ q2 = q /\ s2 = s /\ r2 = r
      BY <2>1 DEF Recorded, AtIngest
    <2> HIDE DEF r, r2, q, q2, a, a2, s, s2
    <2>3. Way(v)' = Way(v) /\ Way(v) \in Int
      BY <1>0, <1>1, <2>2
    <2> QED  BY <1>0, <2>1, <2>2, <2>3 DEF r, r2, KeepStep
  <1> QED  BY <1>2, <1>3, <1>4, <1>5, <1>6

\* Nothing gets past the recorder while it is open.
LEMMA AheadStep ==
    ASSUME TypeInv, AheadInv, [Next]_vars
    PROVE  AheadInv'
  <1> SUFFICES ASSUME rec'.open, NEW v \in Feeds PROVE Way(v)' <= Recorded(v)'
    BY DEF AheadInv
  <1>1. Recorded(v) \in Int /\ Recorded(v)' \in Int /\ Way(v) \in Int /\ Way(v)' \in Int
    BY CounterStep
  <1>2. rec.open => Way(v) <= Recorded(v)
    BY DEF AheadInv
  <1>3. \/ rec.open /\ Recorded(v)' = Recorded(v) + (Way(v)' - Way(v))
        \/ rec.open /\ Recorded(v)' = Recorded(v) /\ Way(v)' <= Way(v)
    BY CounterStep DEF IngestStep, KeepStep
  <1> QED  BY <1>1, <1>2, <1>3

\* Without an overload nothing else is in the recording.
LEMMA BehindStep ==
    ASSUME TypeInv, BehindInv, [Next]_vars
    PROVE  BehindInv'
  <1> SUFFICES ASSUME NEW v \in Feeds, v \notin overloaded' PROVE Recorded(v)' <= Way(v)'
    BY DEF BehindInv
  <1>1. Recorded(v) \in Int /\ Recorded(v)' \in Int /\ Way(v) \in Int /\ Way(v)' \in Int
    BY CounterStep
  <1>2. v \notin overloaded => Recorded(v) <= Way(v)
    BY DEF BehindInv
  <1>3. \/ v \notin overloaded /\ Recorded(v)' <= Recorded(v) + (Way(v)' - Way(v))
        \/ v \notin overloaded /\ Recorded(v)' = Recorded(v) /\ Way(v)' = Way(v)
    BY CounterStep DEF IngestStep, KeepStep
  <1> QED  BY <1>1, <1>2, <1>3

\* A lane is in the last state seen.
LEMMA LaneStep ==
    ASSUME TypeInv, LaneInv, [Next]_vars
    PROVE  LaneInv'
  <1> SUFFICES ASSUME NEW v \in Feeds
               PROVE  /\ seen'[v][1] = NewLane
                      /\ v \notin overloaded' => Content(lane'[v]) = Content(seen'[v][Len(seen'[v])])
    BY DEF LaneInv
  <1>0. Len(seen[v]) \in Nat /\ Len(seen[v]) >= 1
    BY CounterTypes
  <1>1. /\ seen[v][1] = NewLane
        /\ v \notin overloaded => Content(lane[v]) = Content(seen[v][Len(seen[v])])
    BY DEF LaneInv
  <1>2. CASE IngestRecord
    BY <1>1, <1>2, IngestFacts
  <1>3. CASE Submit
    BY <1>1, <1>3, SubmitFacts
  <1>4. CASE SubmitOverload
    BY <1>1, <1>4, OverloadFacts
  <1>5. ASSUME NEW u \in Feeds, LaneApply(u)
        PROVE  /\ seen'[v][1] = NewLane
               /\ v \notin overloaded' => Content(lane'[v]) = Content(seen'[v][Len(seen'[v])])
    <2>1. CASE v # u
      BY <1>1, <1>5, <2>1, ApplyStepFacts
    <2>2. CASE v = u
      <3>1. /\ Len(seen'[v]) = Len(seen[v]) + 1 /\ seen'[v][Len(seen[v]) + 1] = lane'[v]
            /\ \A i \in 1..Len(seen[v]) : seen'[v][i] = seen[v][i]
        BY <1>5, <2>2, ApplyStepFacts
      <3>2. 1 \in 1..Len(seen[v])
        BY <1>0
      <3> QED  BY <1>1, <3>1, <3>2
    <2> QED  BY <2>1, <2>2
  <1>6. CASE ~IngestRecord /\ ~Submit /\ ~SubmitOverload /\ \A u \in Feeds : ~LaneApply(u)
    BY <1>1, <1>6, OtherStepFacts
  <1> QED  BY <1>2, <1>3, <1>4, <1>5, <1>6

\* The lines stay what the lane has been through and what it has before it.
LEMMA LinesStep ==
    ASSUME TypeInv, AheadInv, BehindInv, LaneInv, LinesInv, [Next]_vars
    PROVE  LinesInv'
  <1> SUFFICES ASSUME NEW v \in Feeds, v \notin overloaded',
                      NEW i \in 1..Len(rec'.written), rec'.written[i].venue = v
               PROVE  LineIsEvent(v, Count(rec.written, i, v), ToEvent(rec.written[i]))'
    BY DEF LinesInv
  <1> DEFINE k == Count(rec.written, i, v)
             k2 == Count(rec'.written, i, v)
             f == ToEvent(rec.written[i])
             f2 == ToEvent(rec'.written[i])
             q == Len(queue[v])  q2 == Len(queue'[v])
             s == Len(seen[v])   s2 == Len(seen'[v])
             Line(e, n) == \/ n < s2 /\ Content(seen'[v][n + 1]) = Content(Apply(seen'[v][n], e))
                           \/ \E j \in 1..q2 : n = s2 - 1 + j /\ e = queue'[v][j]
                           \/ n = s2 + q2 /\ AtIngest(v)' = 1 /\ e = Head(ingest')
  <1>0. /\ Recorded(v) \in Nat /\ q \in Nat /\ AtIngest(v) \in 0..1
        /\ s \in Nat /\ s >= 1 /\ Len(rec.written) \in Nat
        /\ seen[v] \in Seq(LaneStates)
    BY CounterTypes
  <1> SUFFICES Line(f2, k2)
    BY DEF LineIsEvent
  <1>1. ASSUME v \notin overloaded, i \in 1..Len(rec.written), rec.written[i].venue = v
        PROVE  /\ k \in Nat /\ k >= 1 /\ f \in Events
               /\ \/ k < s /\ Content(seen[v][k + 1]) = Content(Apply(seen[v][k], f))
                  \/ \E j \in 1..q : k = s - 1 + j /\ f = queue[v][j]
                  \/ k = s + q /\ AtIngest(v) = 1 /\ f = Head(ingest)
    <2>1. k \in Nat /\ k >= 1 /\ f \in Events
      BY <1>1, RankFacts
    <2>2. LineIsEvent(v, k, f)
      BY <1>1 DEF LinesInv
    <2> QED  BY <2>1, <2>2 DEF LineIsEvent
  <1>2. CASE IngestRecord
    <2> DEFINE n == Len(rec.written)
    <2>1. /\ queue' = queue /\ seen' = seen /\ overloaded' = overloaded /\ AtIngest(v) = 0
          /\ \A j \in 1..n : rec'.written[j] = rec.written[j] /\ Count(rec'.written, j, v) = Count(rec.written, j, v)
          /\ ~rec.open => rec'.written = rec.written
          /\ rec.open => Len(rec'.written) = n + 1
      BY <1>2, IngestFacts
    <2>2. CASE i \in 1..n
      <3>1. k2 = k /\ f2 = f /\ s2 = s /\ q2 = q /\ rec.written[i].venue = v
        BY <2>1, <2>2
      <3>2. \/ k < s /\ Content(seen[v][k + 1]) = Content(Apply(seen[v][k], f))
            \/ \E j \in 1..q : k = s - 1 + j /\ f = queue[v][j]
        BY <1>1, <2>1, <2>2, <3>1
      <3> HIDE DEF k, k2, f, f2, q, q2, s, s2
      <3> QED  BY <2>1, <3>1, <3>2
    <2>3. CASE i \notin 1..n
      <3>1. rec.open /\ i = n + 1 /\ i = Len(rec'.written)
        BY <1>0, <2>1, <2>3
      <3>2. ToEvent(rec'.written[i]) = Head(ingest') /\ AtIngest(v)' = 1
        BY <1>2, <3>1, IngestFacts
      <3>3. Recorded(v)' = Recorded(v) + 1
        BY <1>2, <3>1, <3>2, IngestFacts
      <3>4. Recorded(v) = s - 1 + q + AtIngest(v)
        <4>1. Way(v) <= Recorded(v) /\ Recorded(v) <= Way(v)
          BY <2>1, <3>1 DEF AheadInv, BehindInv
        <4>2. Way(v) = s - 1 + q + AtIngest(v)
          BY DEF Way, Applied
        <4> HIDE DEF q, s
        <4> QED  BY <1>0, <4>1, <4>2
      <3>5. k2 = Recorded(v)' /\ s2 = s /\ q2 = q
        BY <2>1, <3>1 DEF Recorded
      <3>6. k2 = s2 + q2
        <4> HIDE DEF k2, q, q2, s, s2
        <4> QED  BY <1>0, <2>1, <3>3, <3>4, <3>5
      <3> QED  BY <3>2, <3>6
    <2> QED  BY <2>2, <2>3
  <1>3. ASSUME rec'.written = rec.written, v \notin overloaded
        PROVE  /\ k2 = k /\ f2 = f
               /\ k \in Nat /\ k >= 1 /\ f \in Events
               /\ \/ k < s /\ Content(seen[v][k + 1]) = Content(Apply(seen[v][k], f))
                  \/ \E j \in 1..q : k = s - 1 + j /\ f = queue[v][j]
                  \/ k = s + q /\ AtIngest(v) = 1 /\ f = Head(ingest)
    <2>1. i \in 1..Len(rec.written) /\ rec.written[i].venue = v /\ k2 = k /\ f2 = f
      BY <1>3
    <2> HIDE DEF k, k2, f, f2, q, s
    <2> QED  BY <1>1, <1>3, <2>1
  <1> HIDE DEF k, k2, f, f2
  <1>4. CASE Submit
    <2>1. /\ rec' = rec /\ seen' = seen /\ overloaded' = overloaded
          /\ q2 = q + AtIngest(v)
          /\ \A j \in 1..q : queue'[v][j] = queue[v][j]
          /\ AtIngest(v) = 1 => queue'[v][q + 1] = Head(ingest)
      BY <1>4, SubmitFacts
    <2>2. s2 = s /\ q2 \in Nat /\ q2 >= q
      BY <1>0, <2>1
    <2> HIDE DEF q, q2, s, s2
    <2>3. \/ k < s /\ Content(seen[v][k + 1]) = Content(Apply(seen[v][k], f))
          \/ \E j \in 1..q : k = s - 1 + j /\ f = queue[v][j]
          \/ k = s + q /\ AtIngest(v) = 1 /\ f = Head(ingest)
      BY <1>3, <2>1
    <2>4. k2 = k /\ f2 = f
      BY <1>3, <2>1
    <2>5. CASE k < s /\ Content(seen[v][k + 1]) = Content(Apply(seen[v][k], f))
      BY <2>1, <2>2, <2>4, <2>5
    <2>6. ASSUME NEW j \in 1..q, k = s - 1 + j, f = queue[v][j] PROVE Line(f2, k2)
      <3>1. j \in 1..q2 /\ queue'[v][j] = queue[v][j]
        BY <1>0, <2>1, <2>2, <2>6
      <3> QED  BY <2>2, <2>4, <2>6, <3>1
    <2>7. CASE k = s + q /\ AtIngest(v) = 1 /\ f = Head(ingest)
      <3>1. q + 1 \in 1..q2 /\ queue'[v][q + 1] = Head(ingest) /\ k = s2 - 1 + (q + 1)
        BY <1>0, <2>1, <2>2, <2>7
      <3> QED  BY <2>4, <2>7, <3>1
    <2> QED  BY <2>3, <2>5, <2>6, <2>7
  <1>5. CASE SubmitOverload
    <2>1. /\ rec' = rec /\ seen' = seen /\ queue' = queue
          /\ overloaded' = overloaded \cup {Head(ingest).venue}
          /\ AtIngest(v) = IF Head(ingest).venue = v THEN 1 ELSE 0
      BY <1>5, OverloadFacts
    <2>2. v \notin overloaded /\ AtIngest(v) = 0 /\ s2 = s /\ q2 = q
      BY <2>1
    <2> HIDE DEF q, q2, s, s2
    <2>3. \/ k < s /\ Content(seen[v][k + 1]) = Content(Apply(seen[v][k], f))
          \/ \E j \in 1..q : k = s - 1 + j /\ f = queue[v][j]
      BY <1>3, <2>1, <2>2
    <2>4. k2 = k /\ f2 = f
      BY <1>3, <2>1, <2>2
    <2> QED  BY <2>1, <2>2, <2>3, <2>4
  <1>6. ASSUME NEW u \in Feeds, LaneApply(u) PROVE Line(f2, k2)
    <2>1. rec' = rec /\ ingest' = ingest /\ overloaded' = overloaded /\ AtIngest(v)' = AtIngest(v)
      BY <1>6, ApplyStepFacts
    <2>2. /\ k2 = k /\ f2 = f /\ k \in Nat /\ k >= 1 /\ f \in Events
          /\ \/ k < s /\ Content(seen[v][k + 1]) = Content(Apply(seen[v][k], f))
             \/ \E j \in 1..q : k = s - 1 + j /\ f = queue[v][j]
             \/ k = s + q /\ AtIngest(v) = 1 /\ f = Head(ingest)
      BY <1>3, <2>1
    <2>3. CASE v # u
      <3>1. queue'[v] = queue[v] /\ seen'[v] = seen[v] /\ q2 = q /\ s2 = s
        BY <1>6, <2>3, ApplyStepFacts
      <3> HIDE DEF q, q2, s, s2
      <3> QED  BY <2>1, <2>2, <3>1
    <2>4. CASE v = u
      <3>1. /\ q >= 1 /\ q2 = q - 1
            /\ \A j \in 1..q2 : queue'[v][j] = queue[v][j + 1]
            /\ lane'[v] = Apply(lane[v], queue[v][1]) /\ lane[v] \in LaneStates
            /\ s2 = s + 1 /\ seen'[v][s + 1] = lane'[v]
            /\ \A j \in 1..s : seen'[v][j] = seen[v][j]
        BY <1>6, <2>4, ApplyStepFacts
      <3>2. Content(lane[v]) = Content(seen[v][s]) /\ seen[v][s] \in LaneStates
        BY <1>0, <2>1 DEF LaneInv
      <3> HIDE DEF q, q2, s, s2
      <3>3. CASE k < s /\ Content(seen[v][k + 1]) = Content(Apply(seen[v][k], f))
        <4>1. k \in 1..s /\ k + 1 \in 1..s /\ k < s2
          BY <1>0, <2>2, <3>1, <3>3
        <4> QED  BY <2>2, <3>1, <3>3, <4>1
      <3>4. ASSUME NEW j \in 1..q, k = s - 1 + j, f = queue[v][j] PROVE Line(f2, k2)
        <4>1. CASE j = 1
          <5>1. k = s /\ k < s2 /\ s \in 1..s
            BY <1>0, <3>1, <3>4, <4>1
          <5>2. Content(lane'[v]) = Content(Apply(seen[v][s], f))
            BY <2>2, <3>1, <3>2, <3>4, <4>1, ApplyContent
          <5> QED  BY <2>2, <3>1, <5>1, <5>2
        <4>2. CASE j # 1
          <5> DEFINE m == j - 1
          <5>0. q \in Nat /\ s \in Nat /\ j \in 1..q
            BY <1>0, <3>4
          <5>1. m \in 1..q2 /\ m + 1 = j /\ k = s2 - 1 + m
            <6>1. q2 = q - 1 /\ s2 = s + 1 /\ k = s - 1 + j /\ j # 1
              BY <3>1, <3>4, <4>2
            <6> QED  BY <5>0, <6>1
          <5> HIDE DEF m
          <5> QED  BY <2>2, <3>1, <3>4, <5>1
        <4> QED  BY <4>1, <4>2
      <3>5. CASE k = s + q /\ AtIngest(v) = 1 /\ f = Head(ingest)
        <4>1. k = s2 + q2
          BY <1>0, <3>1, <3>5
        <4> QED  BY <2>1, <2>2, <3>5, <4>1
      <3> QED  BY <2>2, <3>3, <3>4, <3>5
    <2> QED  BY <2>3, <2>4
  <1>7. CASE ~IngestRecord /\ ~Submit /\ ~SubmitOverload /\ \A u \in Feeds : ~LaneApply(u)
    <2>1. UNCHANGED <<ingest, queue, seen, overloaded>> /\ rec'.written = rec.written
      BY <1>7, OtherStepFacts
    <2>2. /\ k2 = k /\ f2 = f
          /\ \/ k < s /\ Content(seen[v][k + 1]) = Content(Apply(seen[v][k], f))
             \/ \E j \in 1..q : k = s - 1 + j /\ f = queue[v][j]
             \/ k = s + q /\ AtIngest(v) = 1 /\ f = Head(ingest)
      BY <1>3, <2>1
    <2>3. s2 = s /\ q2 = q /\ AtIngest(v)' = AtIngest(v)
      BY <2>1 DEF AtIngest
    <2> HIDE DEF q, q2, s, s2
    <2> QED  BY <2>1, <2>2, <2>3
  <1> HIDE DEF Line, q, q2, s, s2
  <1> QED  BY <1>2, <1>4, <1>5, <1>6, <1>7

\* Once the live run has ended only the replays and the clock move.
LEMMA EndedStep ==
    ASSUME phase = "ended", [Next]_vars
    PROVE  /\ UNCHANGED <<phase, clk, rec, ingest, queue, lane, seen, overloaded>>
           /\ replays' = replays \/ StartReplay \/ ReplayEvent \/ ReplayEnd
  <1>1. ~Live
    BY DEF Live, SendSnapshot, SendTrade, SendDelta, Send, LaneApply, Sweep, IngestRecord, Submit,
           SubmitOverload, Flush, CloseRecorder, End
  <1>2. CASE Tick
    BY <1>2 DEF Tick, live
  <1>3. CASE Replay
    BY <1>3 DEF Replay, StartReplay, ReplayEvent, ReplayEnd, live
  <1>4. CASE UNCHANGED vars
    BY <1>4 DEF vars, live
  <1> QED  BY <1>1, <1>2, <1>3, <1>4 DEF Next

\* Before the end there are no replays, and none starts.
LEMMA EndStep ==
    ASSUME TypeInv, EndInv, [Next]_vars
    PROVE  EndInv' /\ (phase # "ended" => replays' = <<>>)
  <1>1. CASE phase = "ended"
    BY <1>1, EndedStep DEF EndInv
  <1>2. CASE phase # "ended"
    <2>1. replays = <<>>
      BY <1>2 DEF EndInv
    <2>2. ~StartReplay /\ ~ReplayEvent /\ ~ReplayEnd
      BY <1>2, <2>1 DEF StartReplay, ReplayEvent, ReplayEnd
    <2>3. replays' = replays
      BY <2>2, IngestFacts, SubmitFacts, OverloadFacts, ApplyStepFacts, OtherStepFacts
    <2> QED  BY <2>1, <2>3 DEF EndInv
  <1> QED  BY <1>1, <1>2

\* The live run starts with an empty recording and every lane in its first
\* state.
LEMMA LiveInit == Init => LiveInv
  <1> SUFFICES ASSUME Init PROVE LiveInv
    OBVIOUS
  <1>1. TypeInv
    BY TypeInit
  <1>2. /\ rec.written = <<>> /\ ingest = <<>> /\ replays = <<>> /\ lane = NewLanes
        /\ queue = [v \in Feeds |-> <<>>] /\ seen = [v \in Feeds |-> <<NewLane>>]
    BY DEF Init, NewRecorder
  <1>3. Len(rec.written) = 0
    BY <1>2
  <1>4. ASSUME NEW v \in Feeds PROVE Recorded(v) = 0 /\ Way(v) = 0
    <2>1. Recorded(v) = 0
      BY <1>2, <1>3, CountFacts DEF Recorded
    <2>2. Len(seen[v]) = 1 /\ Len(queue[v]) = 0 /\ AtIngest(v) = 0
      BY <1>2 DEF AtIngest
    <2> QED  BY <2>1, <2>2 DEF Way, Applied
  <1>5. AheadInv /\ BehindInv
    BY <1>4 DEF AheadInv, BehindInv
  <1>6. LinesInv
    BY <1>3 DEF LinesInv
  <1>7. LaneInv
    <2> SUFFICES ASSUME NEW v \in Feeds
                 PROVE  seen[v][1] = NewLane /\ Content(lane[v]) = Content(seen[v][Len(seen[v])])
      BY DEF LaneInv
    <2>1. seen[v] = <<NewLane>> /\ lane[v] = NewLane
      BY <1>2 DEF NewLanes
    <2> QED  BY <2>1
  <1>8. EndInv
    BY <1>2 DEF EndInv
  <1> QED  BY <1>1, <1>5, <1>6, <1>7, <1>8 DEF LiveInv

\* What the recording says of the live run is invariant.
LEMMA LiveInvariant == Spec => []LiveInv
  <1>1. LiveInv /\ [Next]_vars => LiveInv'
    <2> SUFFICES ASSUME LiveInv, [Next]_vars PROVE LiveInv'
      OBVIOUS
    <2>1. TypeInv /\ AheadInv /\ BehindInv /\ LinesInv /\ LaneInv /\ EndInv
      BY DEF LiveInv
    <2>2. TypeInv'
      BY <2>1, TypeStep
    <2>3. AheadInv' /\ BehindInv'
      BY <2>1, AheadStep, BehindStep
    <2>4. LaneInv' /\ LinesInv'
      BY <2>1, LaneStep, LinesStep
    <2>5. EndInv'
      BY <2>1, EndStep
    <2> QED  BY <2>2, <2>3, <2>4, <2>5 DEF LiveInv
  <1> QED  BY LiveInit, <1>1, PTL DEF Spec

\* As long as the recorder is open, no lane has applied an event that is not
\* in the recording, for any capacities and any interleaving of the adapters,
\* the fan-in goroutine and the lanes.
THEOREM RecorderIsAhead == Spec => []RecordedBeforeApplied
  <1>1. LiveInv => RecordedBeforeApplied
    <2> SUFFICES ASSUME LiveInv, rec.open, NEW v \in Feeds
                 PROVE  Len(seen[v]) - 1 <= Count(rec.written, Len(rec.written), v)
      BY DEF RecordedBeforeApplied
    <2> DEFINE r == Count(rec.written, Len(rec.written), v)
               q == Len(queue[v])
               a == AtIngest(v)
               s == Len(seen[v])
    <2>1. r \in Nat /\ q \in Nat /\ a \in Nat /\ s \in Nat
      BY CounterTypes DEF LiveInv, Recorded
    <2>2. s - 1 + q + a <= r
      BY DEF LiveInv, AheadInv, Way, Applied, Recorded
    <2> HIDE DEF r, q, a, s
    <2>3. s - 1 <= r
      BY <2>1, <2>2
    <2> QED  BY <2>3 DEF r, s
  <1> QED  BY <1>1, LiveInvariant, PTL
-----------------------------------------------------------------------------
(* A replay against the live run. *)

\* The replay goes on retracing the live run.
LEMMA RetraceStep ==
    ASSUME LiveInv, ReplayRetracesLive, [Next]_vars
    PROVE  ReplayRetracesLive'
  <1>0. /\ TypeInv /\ LinesInv /\ LaneInv /\ EndInv
        /\ replays \in Seq(Replays) /\ rec.written \in Seq(Envelopes)
        /\ rec.lines <= Len(rec.written) /\ Len(rec.written) \in Nat /\ rec.lines \in Nat
    BY TypeParts DEF LiveInv, ReplayTypes, RecTypes, Recorders
  <1>1. CASE phase # "ended"
    <2>1. replays' = <<>>
      BY <1>0, <1>1, EndStep
    <2> QED  BY <2>1 DEF ReplayRetracesLive
  <1>2. CASE phase = "ended"
    <2>0. /\ UNCHANGED <<rec, seen, overloaded>>
          /\ replays' = replays \/ StartReplay \/ ReplayEvent \/ ReplayEnd
      BY <1>2, EndedStep
    <2> DEFINE Like(r, v) == LET n == Count(rec.written, r.pos, v)
                             IN  n < Len(seen[v]) => Content(r.lanes[v]) = Content(seen[v][n + 1])
    <2>1. \A i \in DOMAIN replays : \A v \in Feeds \ overloaded : Like(replays[i], v)
      BY DEF ReplayRetracesLive
    <2>2. SUFFICES ASSUME NEW i \in DOMAIN replays', NEW v \in Feeds \ overloaded
                   PROVE  Like(replays'[i], v)
      BY <2>0 DEF ReplayRetracesLive
    <2>3. Len(seen[v]) \in Nat /\ Len(seen[v]) >= 1 /\ seen[v] \in Seq(LaneStates)
      BY <1>0, CounterTypes
    <2>4. CASE replays' = replays
      BY <2>1, <2>4
    <2>5. CASE StartReplay
      <3>1. replays' = Append(replays, NewReplay) /\ NewReplay \in Replays
        BY <1>0, <2>5, ReplayFacts DEF StartReplay
      <3>2. /\ DOMAIN replays' = 1..(Len(replays) + 1) /\ replays'[Len(replays) + 1] = NewReplay
            /\ \A j \in 1..Len(replays) : replays'[j] = replays[j]
        BY <1>0, <3>1, AppendFacts
      <3>3. i \in DOMAIN replays \/ i = Len(replays) + 1
        BY <1>0, <3>2
      <3>4. CASE i \in DOMAIN replays
        BY <1>0, <2>1, <3>2, <3>4
      <3>5. CASE i = Len(replays) + 1
        <4>1. NewReplay.pos = 0 /\ NewReplay.lanes[v] = NewLane
          BY DEF NewReplay, NewLanes
        <4>2. Count(rec.written, 0, v) = 0
          <5>1. \A n \in Nat : Count(rec.written, 0, v) = 0
            BY CountFacts
          <5> QED  BY <5>1
        <4>3. seen[v][1] = NewLane
          BY <1>0 DEF LaneInv
        <4> QED  BY <3>2, <3>5, <4>1, <4>2, <4>3
      <3> QED  BY <3>3, <3>4, <3>5
    <2>6. CASE ReplayEvent
      <3> DEFINE p == Current.pos
                 e == ToEvent(rec.written[p + 1])
                 ls == Current.lanes
                 n == Count(rec.written, p, v)
      <3>1. /\ replays # <<>> /\ Current.pos < rec.lines /\ Current \in Replays
            /\ Len(replays) \in DOMAIN replays
        <4>1. replays # <<>> /\ Current.pos < rec.lines
          BY <2>6 DEF ReplayEvent
        <4> QED  BY <1>0, <4>1, ReplayFacts
      <3>2. /\ e \in Events /\ e.venue = rec.written[p + 1].venue /\ e.venue \in Feeds
            /\ Len(replays') = Len(replays) /\ replays' \in Seq(Replays)
            /\ \A j \in DOMAIN replays : j # Len(replays) => replays'[j] = replays[j]
            /\ replays'[Len(replays)].pos = p + 1
            /\ replays'[Len(replays)].lanes = [ls EXCEPT ![e.venue] = Apply(@, e)]
        BY <1>0, <2>6, ReplayFacts
      <3>3. p \in Nat /\ p + 1 \in 1..Len(rec.written) /\ ls \in [Feeds -> LaneStates]
        BY <1>0, <3>1 DEF Replays
      <3>4. i \in DOMAIN replays
        BY <1>0, <3>2
      <3>5. CASE i # Len(replays)
        BY <2>1, <3>2, <3>4, <3>5
      <3>6. CASE i = Len(replays)
        <4>1. n < Len(seen[v]) => Content(ls[v]) = Content(seen[v][n + 1])
          BY <2>1, <3>1 DEF Current
        <4>2. n \in Nat /\ Count(rec.written, p + 1, v) = n + (IF rec.written[p + 1].venue = v THEN 1 ELSE 0)
          <5> DEFINE x == rec.written
          <5>1. p \in Nat
            BY <3>3
          <5> HIDE DEF p, x
          <5>2. /\ Count(x, p, v) \in Nat
                /\ Count(x, p + 1, v) = Count(x, p, v) + (IF x[p + 1].venue = v THEN 1 ELSE 0)
            BY <5>1, CountFacts
          <5> QED  BY <5>2 DEF x
        <4> HIDE DEF p, e, ls, n
        <4>3. CASE e.venue # v
          <5>1. Count(rec.written, p + 1, v) = n
            BY <3>2, <4>2, <4>3
          <5>2. replays'[i].lanes[v] = ls[v]
            BY <3>2, <3>3, <3>6, <4>3
          <5> QED  BY <3>2, <3>6, <4>1, <5>1, <5>2
        <4>4. CASE e.venue = v
          <5>1. Count(rec.written, p + 1, v) = n + 1
            BY <3>2, <4>2, <4>4
          <5>2. replays'[i].lanes[v] = Apply(ls[v], e)
            BY <3>2, <3>3, <3>6, <4>4
          <5>3. SUFFICES ASSUME n + 1 < Len(seen[v])
                         PROVE  Content(Apply(ls[v], e)) = Content(seen[v][n + 1 + 1])
            BY <3>2, <3>6, <5>1, <5>2
          <5>4. Content(seen[v][n + 1 + 1]) = Content(Apply(seen[v][n + 1], e))
            <6>1. LineIsEvent(v, n + 1, e)
              <7>1. p + 1 \in 1..Len(rec.written) /\ rec.written[p + 1].venue = v
                BY <3>2, <3>3, <4>4
              <7>2. LineIsEvent(v, Count(rec.written, p + 1, v), ToEvent(rec.written[p + 1]))
                BY <1>0, <7>1 DEF LinesInv
              <7> QED  BY <5>1, <7>2 DEF e
            <6>2. Len(queue[v]) \in Nat
              BY <1>0, CounterTypes
            <6> DEFINE s == Len(seen[v])
                       q == Len(queue[v])
            <6>3. /\ ~\E j \in 1..q : n + 1 = s - 1 + j /\ e = queue[v][j]
                  /\ n + 1 # s + q
              <7>1. s \in Nat /\ q \in Nat /\ n \in Nat /\ n + 1 < s
                BY <2>3, <4>2, <5>3, <6>2
              <7> HIDE DEF s, q
              <7> QED  BY <7>1
            <6> QED  BY <6>1, <6>3 DEF LineIsEvent
          <5>5. n + 1 \in 1..Len(seen[v]) /\ n < Len(seen[v])
            BY <2>3, <4>2, <5>3
          <5>6. seen[v][n + 1] \in LaneStates /\ ls[v] \in LaneStates
            BY <2>3, <3>3, <5>5
          <5> QED  BY <3>2, <4>1, <5>4, <5>5, <5>6, ApplyContent
        <4> QED  BY <4>3, <4>4
      <3> QED  BY <3>5, <3>6
    <2>7. CASE ReplayEnd
      <3>1. /\ replays # <<>> /\ Len(replays) \in DOMAIN replays
            /\ Len(replays') = Len(replays) /\ replays' \in Seq(Replays)
            /\ \A j \in DOMAIN replays : j # Len(replays) => replays'[j] = replays[j]
            /\ replays'[Len(replays)].pos = Current.pos /\ replays'[Len(replays)].lanes = Current.lanes
        BY <1>0, <2>7, ReplayFacts DEF ReplayEnd
      <3>2. i \in DOMAIN replays
        BY <1>0, <3>1
      <3>3. CASE i # Len(replays)
        BY <2>1, <3>1, <3>2, <3>3
      <3>4. CASE i = Len(replays)
        BY <2>1, <3>1, <3>2, <3>4 DEF Current
      <3> QED  BY <3>3, <3>4
    <2> QED  BY <2>0, <2>4, <2>5, <2>6, <2>7
  <1> QED  BY <1>1, <1>2

\* A replay takes every book of a lane that never refused an event through
\* the states of the live book, for any prefix of the recording that a crash
\* leaves, any capacities and any number of venues.
THEOREM ReplayIsFaithful == Spec => []ReplayRetracesLive
  <1>1. Init => ReplayRetracesLive
    BY DEF Init, ReplayRetracesLive
  <1>2. LiveInv /\ ReplayRetracesLive /\ [Next]_vars => ReplayRetracesLive'
    BY RetraceStep
  <1> QED  BY <1>1, <1>2, LiveInvariant, PTL DEF Spec
=============================================================================
