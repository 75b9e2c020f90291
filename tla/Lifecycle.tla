----------------------------- MODULE Lifecycle ------------------------------
(***************************************************************************)
(* The life of the crossvenue process, from one start to the next: main's  *)
(* startup, Supervisor.Run with its goroutines, the shutdown after a       *)
(* signal, the final save, and what a crash leaves behind.                 *)
(*                                                                         *)
(*   adapters --raw--> ingest --queue--> lanes --view--> evaluation loop   *)
(*      |                                  |                  |            *)
(*      +- LiveSource.Stream closes raw    +---- journal -----+--> store   *)
(*                                                                         *)
(* The evaluation loop, the wait for the source, the save and the deferred *)
(* closes run on the main goroutine.  Market data and trading are reduced  *)
(* to what the other modules leave open here: whether a book is ready, and *)
(* which fills a trade consists of.                                        *)
(***************************************************************************)
EXTENDS FiniteSets, Journal, Storage

CONSTANTS
    Adapters,       \* the enabled venues: one adapter, one lane, one book each
    Seed,           \* venue -> configured initial balance
    RawCap,         \* capacity of the raw channel
    QueueSize,      \* capacity of a lane's channel
    FaultKinds,     \* which faults of the environment may happen
    MaxFaults,      \* bound: how many of them, over all runs
    MaxFrames,      \* bound: frames read, over all runs
    MaxTrades,      \* bound: opportunities found, over all runs
    MaxRuns         \* bound: how often the process is started

AllFaults == {"crash", "append", "save"}
\* The goroutines that write the journal beside the lanes.  A request of the
\* HTTP API that switches the kill switch journals too, on a goroutine of its
\* own; those are left out.
Engine == "engine"      \* the main goroutine
FanIn == "fan-in"       \* the fan-in goroutine, for a lane that is full

ASSUME LifecycleAssumption ==
    /\ MaxEvents \in Nat
    /\ IsFiniteSet(Adapters) /\ {Engine, FanIn} \cap Adapters = {}
    /\ Seed \in [Adapters -> Int]
    /\ RawCap \in Nat \ {0} /\ QueueSize \in Nat \ {0}
    /\ FaultKinds \subseteq AllFaults
    /\ {MaxFaults, MaxFrames, MaxTrades, MaxRuns} \subseteq Nat

VARIABLES
    pc,         \* where the main goroutine is; "off": no process
    signal,     \* SIGINT or SIGTERM has cancelled the context
    adapter,    \* venue -> where its adapter's goroutine is
    raw,        \* the raw channel: whose event it is
    rawClosed,  \* LiveSource.Stream has returned and raw is closed
    fanin,      \* where the fan-in goroutine is
    dropped,    \* the venue whose event found its lane full; FanIn: none
    queue,      \* venue -> events in its lane's channel
    lane,       \* venue -> where its lane goroutine is
    ready,      \* venue -> the published view is ready
    todo,       \* events of the current opportunity not yet journaled
    trade,      \* the current trade
    ledger,
    journal,
    pending,    \* writer -> the event it is appending to the sink
    db,
    \* bounds and history
    run,        \* number of the current or last run
    since,      \* rows of engine_events that are older than this run
    frames, trades, faults,
    lost,       \* appends that failed in this run
    refused,    \* the ledger has refused a leg in this run
    last        \* how the last run ended

source == <<adapter, raw, rawClosed, frames>>
ingest == <<fanin, dropped>>
lanes == <<queue, lane, ready>>
money == <<todo, trade, ledger, refused, trades>>
log == <<journal, pending, lost>>
memory == <<signal, source, ingest, lanes, money, log>>
durable == <<db, run, since, faults, last>>
vars == <<pc, memory, durable>>

NoTrade == <<>>
NoFill == [venue |-> Engine, qty |-> 0]
NoEvent == [id |-> 0, by |-> Engine, fill |-> NoFill]
Writers == Adapters \cup {Engine, FanIn}

Fills == [venue : Adapters, qty : {-1, 1}]
Buy(v) == [venue |-> v, qty |-> 1]
Sell(v) == [venue |-> v, qty |-> -1]

\* A matched trade, or one whose second leg found no book.
Trades ==
    {<<Buy(p[1]), Sell(p[2])>> : p \in {q \in Adapters \X Adapters : q[1] # q[2]}}
        \cup {<<Buy(v)>> : v \in Adapters} \cup {<<Sell(v)>> : v \in Adapters}

\* The base balances and net positions of internal/portfolio.
NewLedger == [bal |-> Seed, pos |-> [v \in Adapters |-> 0]]

\* What a set of fills, at most one each way at a venue, moves at venue v.
Moved(fills, v) ==
    (IF Buy(v) \in fills THEN 1 ELSE 0) - (IF Sell(v) \in fills THEN 1 ELSE 0)

ApplyTrade(l, fills) ==
    [bal |-> [v \in Adapters |-> l.bal[v] + Moved(fills, v)],
     pos |-> [v \in Adapters |-> l.pos[v] + Moved(fills, v)]]

Balances(l) == l.bal

\* Only the positions that are not zero.
Positions(l) == [v \in {w \in Adapters : l.pos[w] # 0} |-> l.pos[v]]

NoRun == [how |-> "none", ledger |-> NewLedger, saved |-> FALSE,
          lost |-> 0, refused |-> FALSE]

\* The same value for every venue or writer.
All(S, x) == [e \in S |-> x]

Init ==
    /\ pc = "off" /\ signal = FALSE
    /\ adapter = All(Adapters, "poll") /\ raw = <<>> /\ rawClosed = FALSE
    /\ fanin = "receive" /\ dropped = FanIn
    /\ queue = All(Adapters, 0) /\ lane = All(Adapters, "select") /\ ready = All(Adapters, FALSE)
    /\ todo = <<>> /\ trade = NoTrade /\ ledger = NewLedger
    /\ journal = NewJournal /\ pending = All(Writers, NoEvent)
    /\ frames = 0 /\ trades = 0 /\ lost = 0 /\ refused = FALSE
    /\ db = Migrate
    /\ run = 0 /\ since = 0 /\ faults = 0
    /\ last = NoRun

Fault(kind) ==
    /\ kind \in FaultKinds /\ faults < MaxFaults
    /\ faults' = faults + 1

\* The process ends; what the next one finds is a new process's memory, with
\* invalid books and without the kill switch, and the tables.
Die(how) ==
    /\ pc' = "off"
    /\ signal' = FALSE
    /\ adapter' = All(Adapters, "poll") /\ raw' = <<>> /\ rawClosed' = FALSE
    /\ fanin' = "receive" /\ dropped' = FanIn
    /\ queue' = All(Adapters, 0) /\ lane' = All(Adapters, "select") /\ ready' = All(Adapters, FALSE)
    /\ todo' = <<>> /\ trade' = NoTrade /\ ledger' = NewLedger
    /\ journal' = NewJournal /\ pending' = All(Writers, NoEvent)
    /\ lost' = 0 /\ refused' = FALSE
    /\ last' = [how |-> how, ledger |-> ledger, saved |-> pc = "close",
                lost |-> lost, refused |-> refused]
    /\ UNCHANGED <<db, run, since, frames, trades>>

-----------------------------------------------------------------------------
(* Startup. *)

\* The store is opened and migrated; the stored balances are read and only
\* counted in the log; engine.New seeds the ledger and journal.New starts to
\* number from 1 again, although the event rows of earlier runs stay.
Start ==
    /\ pc = "off" /\ run < MaxRuns
    /\ pc' = "loop"
    /\ run' = run + 1
    /\ since' = Len(db.events)
    /\ ledger' = NewLedger
    /\ last' = NoRun
    /\ UNCHANGED <<signal, source, ingest, lanes, todo, trade, trades, refused, log, db, faults>>

\* SIGINT, SIGTERM.
Signal ==
    /\ pc # "off" /\ ~signal
    /\ signal' = TRUE
    /\ UNCHANGED <<pc, source, ingest, lanes, money, log, durable>>

Crash == pc # "off" /\ Fault("crash") /\ Die("crash")

-----------------------------------------------------------------------------
(* The adapters: the read loop of a session, or the generator's ticker. *)

AdapterRead(a) ==
    /\ pc # "off" /\ adapter[a] = "poll" /\ frames < MaxFrames
    /\ adapter' = [adapter EXCEPT ![a] = "send"]
    /\ frames' = frames + 1
    /\ UNCHANGED <<pc, signal, raw, rawClosed, ingest, lanes, money, log, durable>>

\* Faulty: the channel has no capacity to run out of.
AdapterSendUnbounded(a) ==
    /\ adapter[a] = "send" /\ ~rawClosed
    /\ adapter' = [adapter EXCEPT ![a] = "poll"]
    /\ raw' = Append(raw, a)
    /\ UNCHANGED <<pc, signal, rawClosed, frames, ingest, lanes, money, log, durable>>

\* The select sends, or finds the channel full and loses the event.
AdapterSend(a) ==
    /\ adapter[a] = "send" /\ ~rawClosed
    /\ adapter' = [adapter EXCEPT ![a] = "poll"]
    /\ raw' = IF Len(raw) < RawCap THEN Append(raw, a) ELSE raw
    /\ UNCHANGED <<pc, signal, rawClosed, frames, ingest, lanes, money, log, durable>>

\* The same select on a closed channel, when it does not pick ctx.Done: the
\* send panics and takes the process down.
AdapterPanic(a) ==
    /\ adapter[a] = "send" /\ rawClosed
    /\ Die("panic") /\ UNCHANGED faults

\* Faulty: only stops when it finds the channel closed.
AdapterReturnLate(a) ==
    /\ pc # "off" /\ signal /\ rawClosed /\ adapter[a] # "done"
    /\ adapter' = [adapter EXCEPT ![a] = "done"]
    /\ UNCHANGED <<pc, signal, raw, rawClosed, frames, ingest, lanes, money, log, durable>>

\* ctx.Done, in the select or in the read.
AdapterReturn(a) ==
    /\ pc # "off" /\ signal /\ adapter[a] # "done"
    /\ adapter' = [adapter EXCEPT ![a] = "done"]
    /\ UNCHANGED <<pc, signal, raw, rawClosed, frames, ingest, lanes, money, log, durable>>

\* LiveSource.Stream returns with the first adapter; the deferred close.
CloseRaw ==
    /\ ~rawClosed /\ \E a \in Adapters : adapter[a] = "done"
    /\ rawClosed' = TRUE
    /\ UNCHANGED <<pc, signal, adapter, raw, frames, ingest, lanes, money, log, durable>>

-----------------------------------------------------------------------------
(* The fan-in goroutine and the lanes.  A lane that returns on ctx.Done, with *)
(* events left in its channel, is one that takes no further step.          *)

\* Submit finds room in the lane's channel, or drops the event.
Ingest ==
    /\ fanin = "receive" /\ raw # <<>>
    /\ raw' = Tail(raw)
    /\ LET v == Head(raw) IN
       \/ /\ queue[v] < QueueSize
          /\ queue' = [queue EXCEPT ![v] = @ + 1]
          /\ UNCHANGED ingest
       \/ /\ queue[v] >= QueueSize
          /\ fanin' = "full" /\ dropped' = v
          /\ UNCHANGED queue
    /\ UNCHANGED <<pc, signal, adapter, rawClosed, frames, lane, ready, money, log, durable>>

\* Submit's overload branch waits for the lane's mutex, which apply holds
\* until it has journaled and appended.
OverloadInvalidate ==
    /\ fanin = "full" /\ lane[dropped] = "select"
    /\ ready' = [ready EXCEPT ![dropped] = FALSE]
    /\ fanin' = "journal" /\ dropped' = FanIn
    /\ UNCHANGED <<pc, signal, source, queue, lane, money, log, durable>>

\* apply changes the book before it journals.  What the event is and whether
\* the book is ready after it, BookLane decides: an event that is journaled
\* is a snapshot, an applied delta or a gap, and only a snapshot makes a book
\* ready; a repeat is not journaled, nor is a delta that finds no snapshot,
\* which invalidates the book.  The two events of a snapshot that makes the
\* book ready, applied and resynced, count as one.
LaneApply(a, next, isReady) ==
    /\ lane[a] = "select" /\ queue[a] > 0
    /\ next = "journal" \/ ready[a] \/ ~isReady
    /\ queue' = [queue EXCEPT ![a] = @ - 1]
    /\ ready' = [ready EXCEPT ![a] = isReady]
    /\ lane' = [lane EXCEPT ![a] = next]
    /\ UNCHANGED <<pc, signal, source, ingest, money, log, durable>>

\* RecordFull by writer w; the event is then appended to the sink by the
\* same goroutine.
Record(w, fill) ==
    /\ journal' = RecordFull(journal, w, fill)
    /\ pending' = [pending EXCEPT ![w] = LastRecorded(journal')]

\* Faulty: leaves the append to nobody.
LaneRecordNoSink(a) ==
    /\ lane[a] = "journal"
    /\ journal' = RecordFull(journal, a, NoFill)
    /\ lane' = [lane EXCEPT ![a] = "select"]
    /\ UNCHANGED <<pc, signal, source, ingest, queue, ready, money, pending, lost, durable>>

LaneRecord(a) ==
    /\ lane[a] = "journal"
    /\ Record(a, NoFill)
    /\ lane' = [lane EXCEPT ![a] = "append"]
    /\ UNCHANGED <<pc, signal, source, ingest, queue, ready, money, lost, durable>>

OverloadRecord ==
    /\ fanin = "journal"
    /\ Record(FanIn, NoFill)
    /\ fanin' = "append"
    /\ UNCHANGED <<pc, signal, source, dropped, lanes, money, lost, durable>>

-----------------------------------------------------------------------------
(* The sink. *)

\* Where a writer goes on once its append has returned.
AppendReturns(w) ==
    /\ pending' = [pending EXCEPT ![w] = NoEvent]
    /\ \/ /\ w = Engine
          /\ todo' = Tail(todo)
          /\ pc' = IF Len(todo) > 1 THEN "record" ELSE "settle"
          /\ UNCHANGED <<ingest, lane>>
       \/ /\ w = FanIn
          /\ fanin' = "receive"
          /\ UNCHANGED <<pc, todo, dropped, lane>>
       \/ /\ w \in Adapters
          /\ lane' = [lane EXCEPT ![w] = "select"]
          /\ UNCHANGED <<pc, todo, ingest>>
    /\ UNCHANGED <<signal, source, queue, ready, trade, ledger, trades, refused, journal,
                   run, since, last>>

AppendRow(w) ==
    /\ pending[w] # NoEvent
    /\ db' = AppendEvent(db, pending[w])
    /\ AppendReturns(w)
    /\ UNCHANGED <<lost, faults>>

\* "durable sink failures must not stall the engine": the error is dropped.
AppendFails(w) ==
    /\ pending[w] # NoEvent
    /\ Fault("append")
    /\ lost' = lost + 1
    /\ AppendReturns(w)
    /\ UNCHANGED db

-----------------------------------------------------------------------------
(* The main goroutine. *)

\* The ticker fires and an opportunity is found between two ready books.  It
\* is rejected (NoTrade), or it is traded.  The events recorded before the
\* first fill (detected; rejected or submitted) count as one.
EvaluateOnce(t) ==
    /\ pc = "loop" /\ trades < MaxTrades
    /\ \E a, b \in Adapters : a # b /\ ready[a] /\ ready[b]
    /\ \A i \in DOMAIN t : ready[t[i].venue]
    /\ pc' = "record" /\ trade' = t /\ todo' = <<NoFill>> \o t
    /\ trades' = trades + 1
    /\ UNCHANGED <<signal, source, ingest, lanes, ledger, refused, log, durable>>

\* Journal.RecordFull, for a fill from within fillJournal.OnFill.
RecordEvent ==
    /\ pc = "record"
    /\ Record(Engine, Head(todo))
    /\ pc' = "append"
    /\ UNCHANGED <<signal, source, ingest, lanes, money, lost, durable>>

Legs(t) == {t[i] : i \in DOMAIN t}

\* The ledger may refuse the buy, which is logged and journaled nowhere; it
\* cannot refuse the sale, which the inventory check has covered.
Accepted(t, ok) == {f \in Legs(t) : ok \/ f.qty < 0}

\* Faulty: a trade without its buy leg is not settled at all.
SettleNeedsBuy(ok) ==
    /\ pc = "settle"
    /\ ledger' = IF \E f \in Accepted(trade, ok) : f.qty > 0
                 THEN ApplyTrade(ledger, Accepted(trade, ok)) ELSE ledger
    /\ refused' = (refused \/ Accepted(trade, ok) # Legs(trade))
    /\ trade' = NoTrade
    /\ pc' = "loop"
    /\ UNCHANGED <<signal, source, ingest, lanes, todo, trades, log, durable>>

Settle(ok) ==
    /\ pc = "settle"
    /\ ledger' = ApplyTrade(ledger, Accepted(trade, ok))
    /\ refused' = (refused \/ Accepted(trade, ok) # Legs(trade))
    /\ trade' = NoTrade
    /\ pc' = "loop"
    /\ UNCHANGED <<signal, source, ingest, lanes, todo, trades, log, durable>>

\* ctx.Done or ingestDone ends the loop.
EndLoop ==
    /\ pc = "loop"
    /\ signal \/ (rawClosed /\ raw = <<>> /\ fanin = "receive")
    /\ pc' = "wait"
    /\ UNCHANGED <<memory, durable>>

\* srcWG.Wait, Pipe.Stop: Run returns.  The fan-in and lane goroutines are
\* not waited for.
SourceDone ==
    /\ pc = "wait" /\ rawClosed
    /\ pc' = "save"
    /\ UNCHANGED <<memory, durable>>

\* "Persist final portfolio state."
SavePortfolioStep ==
    /\ pc = "save"
    /\ db' = SavePortfolio(db, Balances(ledger), Positions(ledger))
    /\ pc' = "close"
    /\ UNCHANGED <<memory, run, since, faults, last>>

\* The transaction fails or runs out of time; the error is logged.
SaveFails ==
    /\ pc = "save"
    /\ Fault("save")
    /\ pc' = "unsaved"
    /\ UNCHANGED <<memory, db, run, since, last>>

\* The deferred closes, and the end of the process.  Closing the pool waits
\* for appends that are under way; later ones would fail.
Exit ==
    /\ pc \in {"close", "unsaved"}
    /\ Die("exit") /\ UNCHANGED faults

-----------------------------------------------------------------------------
Environment == Start \/ Signal \/ Crash

Goroutines ==
    \/ \E a \in Adapters :
          \/ AdapterRead(a) \/ AdapterSend(a) \/ AdapterPanic(a) \/ AdapterReturn(a)
          \/ LaneRecord(a)
          \/ \E next \in {"journal", "select"}, isReady \in BOOLEAN : LaneApply(a, next, isReady)
    \/ CloseRaw \/ Ingest \/ OverloadInvalidate \/ OverloadRecord

Sink == \E w \in Writers : AppendRow(w) \/ AppendFails(w)

Main ==
    \/ \E t \in Trades \cup {NoTrade} : EvaluateOnce(t)
    \/ \E ok \in BOOLEAN : Settle(ok)
    \/ RecordEvent \/ EndLoop \/ SourceDone
    \/ SavePortfolioStep \/ SaveFails \/ Exit

Next == Environment \/ Goroutines \/ Sink \/ Main

Spec == Init /\ [][Next]_vars

\* Everything the main goroutine does once its ticker has not fired.
MainContinues ==
    \/ RecordEvent \/ AppendRow(Engine) \/ AppendFails(Engine)
    \/ \E ok \in BOOLEAN : Settle(ok)
    \/ EndLoop \/ SourceDone \/ SavePortfolioStep \/ SaveFails \/ Exit

\* The main goroutine runs and its appends return; an adapter looks at its
\* context.  Nothing obliges the lanes, the fan-in or the venues to go on.
Fairness ==
    /\ \A a \in Adapters : WF_vars(AdapterReturn(a))
    /\ WF_vars(CloseRaw) /\ WF_vars(MainContinues)

FairSpec == Spec /\ Fairness
-----------------------------------------------------------------------------
(* Properties. *)

Events == [id : Nat, by : Writers, fill : Fills \cup {NoFill}]
Ledgers == [bal : [Adapters -> Int], pos : [Adapters -> Int]]
IsStore(d) ==
    \E B, P \in SUBSET Adapters :
        d \in [balances : [B -> Int], positions : [P -> Int], events : Seq(Events)]
EndedRuns == [how : {"none", "exit", "crash", "panic"}, ledger : Ledgers, saved : BOOLEAN,
              lost : Nat, refused : BOOLEAN]

\* Every variable has its type.
TypeOK ==
    /\ pc \in {"off", "loop", "record", "append", "settle", "wait", "save", "close", "unsaved"}
    /\ signal \in BOOLEAN /\ rawClosed \in BOOLEAN
    /\ adapter \in [Adapters -> {"poll", "send", "done"}]
    /\ raw \in Seq(Adapters) /\ Len(raw) <= RawCap
    /\ fanin \in {"receive", "full", "journal", "append"}
    /\ dropped \in Adapters \cup {FanIn} /\ (fanin = "full" => dropped \in Adapters)
    /\ queue \in [Adapters -> 0..QueueSize]
    /\ lane \in [Adapters -> {"select", "journal", "append"}]
    /\ ready \in [Adapters -> BOOLEAN]
    /\ todo \in Seq(Fills \cup {NoFill}) /\ trade \in Trades \cup {NoTrade}
    /\ ledger \in Ledgers /\ refused \in BOOLEAN
    /\ journal \in [seq : Nat, events : Seq(Events)]
    /\ pending \in [Writers -> Events \cup {NoEvent}]
    /\ IsStore(db)
    /\ {run, since, frames, trades, faults, lost} \subseteq Nat
    /\ last \in EndedRuns

\* What a run that saved its portfolio has stored is the ledger it ended
\* with: nothing trades after Run has returned, and every balance and every
\* open position is in the tables, over whatever earlier runs have left
\* there (SavePortfolio after Run in main).
SavedPortfolioIsFinal ==
    last.saved =>
        /\ db.balances = last.ledger.bal
        /\ \A v \in Adapters : last.ledger.pos[v] # 0 => db.positions[v] = last.ledger.pos[v]

\* The event rows that the current or last run has stored.
RunRows == SubSeq(db.events, since + 1, Len(db.events))

\* The quantity that the stored fills of the run have moved at venue v: its
\* purchases less its sales.  (A stored OrderFilled carries no side; which
\* leg of its opportunity a fill was is told by the venue.)
Rows(events, fill) == {i \in DOMAIN events : events[i].fill = fill}
StoredFills(v) ==
    Cardinality(Rows(RunRows, Buy(v))) - Cardinality(Rows(RunRows, Sell(v)))

\* The two durable records of a run explain each other: unless an append
\* failed or the ledger refused a leg, the balances a run stored are the
\* configured ones moved by the fills its journal stored (fillJournal and
\* Ledger.Apply* against the sink and SavePortfolio).
StoredFillsExplainBalances ==
    pc = "off" /\ last.saved /\ last.lost = 0 /\ ~last.refused =>
        \A v \in Adapters : db.balances[v] = Seed[v] + StoredFills(v)

\* The stored journal trails the one in memory by at most one event per
\* goroutine that records, apart from appends that failed, so this is all
\* that a crash can lose (RecordFull appends to the sinks on the caller's
\* goroutine, after the mutex is released).
JournalTrailsByOnePerWriter ==
    LET inFlight == {w \in Writers : pending[w] # NoEvent}
    IN  pc # "off" => Len(journal.events) = Len(RunRows) + lost + Cardinality(inFlight)

\* No two rows of a run carry the same number, and the rows of one goroutine
\* are stored in the order it recorded them, although rows of different
\* goroutines may not be: the sinks are written outside the mutex.  Rows of
\* different runs do carry the same numbers.
WriterOrderIsKept ==
    \A i, j \in DOMAIN RunRows :
        LET x == RunRows[i]  y == RunRows[j] IN
        i < j => x.id # y.id /\ (x.by = y.by => x.id < y.id)

\* A signal ends the process, whatever the adapters, the lanes and the
\* store are doing (ctx.Done in every select, srcWG.Wait in Run).
StopsAfterSignal == signal ~> pc = "off"

\* "Balances/positions restored from Postgres": a start that finds stored
\* balances goes on with them (LoadBalances in main against engine.New).
RestartRestores ==
    [][pc = "off" /\ pc' = "loop" /\ DOMAIN db.balances # {}
          => Balances(ledger') = LoadBalances(db)]_vars

\* "Persist final portfolio state.": a process that was asked to stop and
\* did not crash has stored its portfolio (main after Run, against the
\* deferred close of the raw channel).
StopPersists ==
    pc = "off" /\ last.how \in {"exit", "panic"} => db.balances = last.ledger.bal
=============================================================================
