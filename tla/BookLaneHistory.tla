-------------------------- MODULE BookLaneHistory ---------------------------
(***************************************************************************)
(* BookLane with two more history variables, for properties that compare   *)
(* the book with an update that was refused or lost earlier.               *)
(***************************************************************************)
EXTENDS BookLane

VARIABLES
    gapAt,      \* highest sequence number at which a gap was detected
    lostAt      \* highest sequence number lost to a full lane channel

historyVars == <<gapAt, lostAt>>

Larger(a, b) == IF a > b THEN a ELSE b

\* The lane found that the delta at the head of its channel does not chain.
DetectsGap ==
    /\ queue # <<>> /\ queue' = Tail(queue)
    /\ Head(queue).type = "delta" /\ Check(Venue, tracker, Head(queue)) = "gap"

\* Submit found the lane channel full.
FindsLaneFull == ingest = "idle" /\ ingest' = "overload"

HistoryInit == Init /\ gapAt = 0 /\ lostAt = 0

HistoryNext ==
    /\ Next
    /\ gapAt' = IF DetectsGap THEN Larger(gapAt, Head(queue).seq) ELSE gapAt
    /\ lostAt' = IF FindsLaneFull THEN Larger(lostAt, Head(raw).seq) ELSE lostAt

HistorySpec == HistoryInit /\ [][HistoryNext]_<<vars, historyVars>>

\* After a gap the book is ready again only on an image that contains the
\* delta that exposed it: "the book returns to ready only after a fresh
\* snapshot applies" (the Gap case of Pipeline.apply).
FreshAfterGap == book.ready => book.seq >= gapAt

\* The same for an update lost to a full lane channel, once Submit has
\* returned: "deltas are never silently dropped while continuing to trade"
\* (the overload branch of Pipeline.Submit).
FreshAfterOverload == book.ready /\ ingest = "idle" => book.seq >= lostAt
=============================================================================
