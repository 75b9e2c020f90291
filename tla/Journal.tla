------------------------------ MODULE Journal -------------------------------
(***************************************************************************)
(* The in-memory event log of internal/journal as a value.  RecordFull is  *)
(* its locked section; the caller then appends the event to the sinks,     *)
(* after the mutex is released.                                            *)
(***************************************************************************)
EXTENDS Integers, Sequences

CONSTANT MaxEvents      \* 0: unbounded, which is what the program runs with

NewJournal == [seq |-> 0, events |-> <<>>]

\* Keeps the latest MaxEvents events.
Trim(events) ==
    IF MaxEvents > 0 /\ Len(events) > MaxEvents
    THEN SubSeq(events, Len(events) - MaxEvents + 1, Len(events)) ELSE events

\* Faulty: the number is taken and not used up.
RecordFullReusesSeq(j, by, fill) ==
    [j EXCEPT !.events = Trim(Append(@, [id |-> j.seq + 1, by |-> by, fill |-> fill]))]

\* An event is its number, who recorded it and, for a fill, what was filled.
RecordFull(j, by, fill) ==
    [seq    |-> j.seq + 1,
     events |-> Trim(Append(j.events, [id |-> j.seq + 1, by |-> by, fill |-> fill]))]

LastRecorded(j) == j.events[Len(j.events)]
=============================================================================
