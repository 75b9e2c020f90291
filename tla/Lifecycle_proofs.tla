-------------------------- MODULE Lifecycle_proofs --------------------------
(***************************************************************************)
(* What the store holds, proved for any set of venues, any bounds and any  *)
(* number of crashes, failed appends, failed saves and restarts.           *)
(***************************************************************************)
EXTENDS Lifecycle, FiniteSetTheorems, SequenceFacts, TLAPS

-----------------------------------------------------------------------------
(* The invariant.                                                          *)

InFlight == {w \in Writers : pending[w] # NoEvent}

\* No process: what a start finds in memory is what a new process has.
OffIsClean ==
    pc = "off" =>
        /\ adapter = All(Adapters, "poll") /\ raw = <<>> /\ fanin = "receive"
        /\ queue = All(Adapters, 0) /\ lane = All(Adapters, "select")
        /\ todo = <<>> /\ trade = NoTrade /\ ledger = NewLedger
        /\ journal = NewJournal /\ pending = All(Writers, NoEvent)
        /\ lost = 0 /\ refused = FALSE

\* An event is in flight exactly while its writer is in its append, and it is
\* the event that writer is at.
AppendsMatchWriters ==
    /\ pending[Engine] # NoEvent <=> pc = "append"
    /\ pc = "append" => pending[Engine].fill = Head(todo)
    /\ pending[FanIn] # NoEvent <=> fanin = "append"
    /\ \A a \in Adapters : pending[a] # NoEvent <=> lane[a] = "append"
    /\ \A w \in Writers \ {Engine} : pending[w].fill = NoFill
    /\ \A w \in Writers : pending[w] # NoEvent => pending[w].by = w

\* The events of a trade are journaled once each, and all before it settles.
TodoIsTheRest ==
    /\ pc \in {"record", "append"} <=> todo # <<>>
    /\ pc \notin {"record", "append", "settle"} => trade = NoTrade
    /\ \A i, j \in DOMAIN todo : todo[i] = todo[j] => i = j

\* Rows of earlier runs are never deleted.
OldRowsStay == since <= Len(db.events)

ControlInv == OffIsClean /\ AppendsMatchWriters /\ TodoIsTheRest /\ OldRowsStay

\* The rows of the run and the events in flight carry numbers the journal
\* has given out, no number twice, and a writer's event in flight is newer
\* than all its rows.
NumbersInv ==
    /\ pc # "off" => \A i \in DOMAIN RunRows : RunRows[i].id <= journal.seq
    /\ \A w \in InFlight :
          /\ pending[w].id <= journal.seq
          /\ \A x \in InFlight : pending[x].id = pending[w].id => x = w
          /\ \A i \in DOMAIN RunRows :
                /\ RunRows[i].id # pending[w].id
                /\ RunRows[i].by = w => RunRows[i].id < pending[w].id

\* From the save to the exit the tables hold the ledger; afterwards they hold
\* the one the run ended with.
SavedInv ==
    /\ last.saved => pc = "off"
    /\ pc = "close" => /\ db.balances = ledger.bal
                       /\ \A v \in Adapters : ledger.pos[v] # 0 =>
                             db.positions[v] = ledger.pos[v]

\* The stored fills, with those still to be journaled, are what the ledger
\* has booked, with the trade still to be settled.
BooksInv ==
    pc # "off" /\ lost = 0 /\ ~refused =>
        \A v \in Adapters :
            Seed[v] + StoredFills(v) + Moved(Legs(todo), v) = ledger.bal[v] + Moved(Legs(trade), v)

-----------------------------------------------------------------------------
(* Type correctness. *)

\* The writers of the journal are told apart.
LEMMA WriterNames == Engine \notin Adapters /\ FanIn \notin Adapters /\ Engine # FanIn
  BY LifecycleAssumption DEF Engine, FanIn

\* The legs of a trade, one by one: a purchase first, at most one leg a venue.
LEMMA TradeShapes ==
    ASSUME NEW t \in Trades \cup {NoTrade}
    PROVE  /\ t \in Seq(Fills)
           /\ \/ t = <<>>
              \/ \E v \in Adapters : t = <<Buy(v)>> \/ t = <<Sell(v)>>
              \/ \E b, s \in Adapters : b # s /\ t = <<Buy(b), Sell(s)>>
  <1>1. \A v \in Adapters : Buy(v) \in Fills /\ Sell(v) \in Fills
    BY DEF Buy, Sell, Fills
  <1>2. \/ t = <<>>
        \/ \E v \in Adapters : t = <<Buy(v)>> \/ t = <<Sell(v)>>
        \/ \E b, s \in Adapters : b # s /\ t = <<Buy(b), Sell(s)>>
    BY DEF Trades, NoTrade
  <1>3. t \in Seq(Fills)
    <2>1. CASE t = <<>>
      BY <2>1
    <2>2. ASSUME NEW v \in Adapters, t = <<Buy(v)>> \/ t = <<Sell(v)>> PROVE t \in Seq(Fills)
      BY <1>1, <2>2
    <2>3. ASSUME NEW b \in Adapters, NEW s \in Adapters, t = <<Buy(b), Sell(s)>>
          PROVE  t \in Seq(Fills)
      BY <1>1, <2>3
    <2> QED  BY <1>2, <2>1, <2>2, <2>3
  <1> QED  BY <1>2, <1>3

\* Trimming keeps the newest event; without a bound it keeps everything.
LEMMA TrimFacts ==
    ASSUME NEW S, NEW s \in Seq(S), s # <<>>
    PROVE  /\ Trim(s) \in Seq(S) /\ Trim(s) # <<>>
           /\ Trim(s)[Len(Trim(s))] = s[Len(s)]
           /\ MaxEvents = 0 => Trim(s) = s
  <1>1. CASE MaxEvents > 0 /\ Len(s) > MaxEvents
    <2> DEFINE m == Len(s) - MaxEvents + 1
               n == Len(s)
    <2>1. m \in 1..n /\ n \in Nat /\ n - m + 1 = MaxEvents /\ \A i \in m..n : s[i] \in S
      BY <1>1, LifecycleAssumption
    <2>2. Trim(s) = SubSeq(s, m, n)
      BY <1>1 DEF Trim
    <2> HIDE DEF m, n
    <2>3. /\ SubSeq(s, m, n) \in Seq(S) /\ Len(SubSeq(s, m, n)) = n - m + 1
          /\ \A i \in 1..n - m + 1 : SubSeq(s, m, n)[i] = s[m + i - 1]
      BY <2>1
    <2>4. Trim(s)[Len(Trim(s))] = s[n]
      BY <1>1, <2>1, <2>2, <2>3, LifecycleAssumption
    <2>5. Trim(s) # <<>>
      BY <1>1, <2>1, <2>2, <2>3, LifecycleAssumption
    <2>6. MaxEvents # 0
      BY <1>1
    <2> QED  BY <2>2, <2>3, <2>4, <2>5, <2>6 DEF n
  <1>2. CASE ~(MaxEvents > 0 /\ Len(s) > MaxEvents)
    BY <1>2, LifecycleAssumption DEF Trim
  <1> QED  BY <1>1, <1>2, LifecycleAssumption

Journals == [seq : Nat, events : Seq(Events)]

\* RecordFull gives out the next number, and the event it returns carries it.
LEMMA RecordFacts ==
    ASSUME NEW j \in Journals, NEW w \in Writers, NEW fill \in Fills \cup {NoFill}
    PROVE  /\ RecordFull(j, w, fill) \in Journals
           /\ RecordFull(j, w, fill).seq = j.seq + 1
           /\ LastRecorded(RecordFull(j, w, fill)) = [id |-> j.seq + 1, by |-> w, fill |-> fill]
           /\ LastRecorded(RecordFull(j, w, fill)) \in Events
           /\ MaxEvents = 0 => Len(RecordFull(j, w, fill).events) = Len(j.events) + 1
  <1> DEFINE e == [id |-> j.seq + 1, by |-> w, fill |-> fill]
             s == Append(j.events, e)
  <1>1. e \in Events
    BY DEF Events, Journals
  <1>2. s \in Seq(Events) /\ s # <<>> /\ Len(s) = Len(j.events) + 1 /\ s[Len(s)] = e
    BY <1>1 DEF Journals
  <1>3. RecordFull(j, w, fill) = [seq |-> j.seq + 1, events |-> Trim(s)]
    BY DEF RecordFull
  <1> HIDE DEF s, e
  <1>4. /\ Trim(s) \in Seq(Events) /\ Trim(s)[Len(Trim(s))] = e
        /\ MaxEvents = 0 => Trim(s) = s
    BY <1>2, TrimFacts
  <1> QED  BY <1>1, <1>2, <1>3, <1>4 DEF Journals, LastRecorded, e

\* The operations on the tables return tables, and the save stores the ledger.
LEMMA StoreFacts ==
    ASSUME NEW d, IsStore(d)
    PROVE  /\ d.events \in Seq(Events)
           /\ \A q \in Seq(Events) : /\ IsStore([d EXCEPT !.events = q])
                                     /\ [d EXCEPT !.events = q].events = q
                                     /\ [d EXCEPT !.events = q].balances = d.balances
                                     /\ [d EXCEPT !.events = q].positions = d.positions
           /\ \A l \in Ledgers :
                 LET e == SavePortfolio(d, Balances(l), Positions(l))
                 IN  /\ IsStore(e) /\ e.events = d.events /\ e.balances = l.bal
                     /\ \A v \in Adapters : l.pos[v] # 0 => e.positions[v] = l.pos[v]
  <1>1. PICK B \in SUBSET Adapters, P \in SUBSET Adapters :
             d \in [balances : [B -> Int], positions : [P -> Int], events : Seq(Events)]
    BY DEF IsStore
  <1>2. ASSUME NEW q \in Seq(Events)
        PROVE  /\ IsStore([d EXCEPT !.events = q])
               /\ [d EXCEPT !.events = q].events = q
               /\ [d EXCEPT !.events = q].balances = d.balances
               /\ [d EXCEPT !.events = q].positions = d.positions
    <2>1. [d EXCEPT !.events = q] \in [balances : [B -> Int], positions : [P -> Int], events : Seq(Events)]
      BY <1>1
    <2> QED  BY <1>1, <2>1 DEF IsStore
  <1>3. ASSUME NEW l \in Ledgers
        PROVE  LET e == SavePortfolio(d, Balances(l), Positions(l))
               IN  /\ IsStore(e) /\ e.events = d.events /\ e.balances = l.bal
                   /\ \A v \in Adapters : l.pos[v] # 0 => e.positions[v] = l.pos[v]
    <2> DEFINE open == {w \in Adapters : l.pos[w] # 0}
               bs == Upsert(d.balances, l.bal)
               ps == Upsert(d.positions, Positions(l))
               e == SavePortfolio(d, Balances(l), Positions(l))
    <2>1. l.bal \in [Adapters -> Int] /\ l.pos \in [Adapters -> Int]
      BY DEF Ledgers
    <2>2. bs = l.bal
      BY <1>1, <2>1 DEF Upsert
    <2>3. Positions(l) = [v \in open |-> l.pos[v]]
      BY DEF Positions
    <2>4. ps \in [P \cup open -> Int] /\ \A v \in open : ps[v] = l.pos[v]
      BY <1>1, <2>1, <2>3 DEF Upsert
    <2>5. e = [d EXCEPT !.balances = bs, !.positions = ps]
      BY <1>1 DEF SavePortfolio, Balances
    <2> HIDE DEF bs, ps
    <2>6. /\ e \in [balances : [Adapters -> Int], positions : [P \cup open -> Int], events : Seq(Events)]
          /\ e.events = d.events /\ e.balances = bs /\ e.positions = ps
      BY <1>1, <2>1, <2>2, <2>4, <2>5
    <2>7. IsStore(e)
      BY <2>6 DEF IsStore
    <2> QED  BY <2>2, <2>4, <2>6, <2>7
  <1> QED  BY <1>1, <1>2, <1>3

\* A ledger that has settled fills is a ledger.
LEMMA LedgerFacts ==
    /\ NewLedger \in Ledgers
    /\ \A fills, v : Moved(fills, v) \in Int
    /\ \A l \in Ledgers : \A fills : ApplyTrade(l, fills) \in Ledgers
  <1>1. NewLedger \in Ledgers
    BY LifecycleAssumption DEF NewLedger, Ledgers
  <1>2. \A fills, v : Moved(fills, v) \in Int
    BY DEF Moved
  <1>3. ASSUME NEW l \in Ledgers, NEW fills PROVE ApplyTrade(l, fills) \in Ledgers
    BY <1>2 DEF ApplyTrade, Ledgers
  <1> QED  BY <1>1, <1>2, <1>3

\* The values of a new process are well typed.
LEMMA NewTypes ==
    /\ All(Adapters, "poll") \in [Adapters -> {"poll", "send", "done"}]
    /\ All(Adapters, 0) \in [Adapters -> 0..QueueSize]
    /\ All(Adapters, "select") \in [Adapters -> {"select", "journal", "append"}]
    /\ All(Adapters, FALSE) \in [Adapters -> BOOLEAN]
    /\ NewJournal \in Journals
    /\ All(Writers, NoEvent) \in [Writers -> Events \cup {NoEvent}]
    /\ NoRun \in EndedRuns
  <1>1. NoRun \in EndedRuns
    BY LedgerFacts DEF NoRun, EndedRuns
  <1>2. 0 \in 0..QueueSize
    BY LifecycleAssumption
  <1> QED  BY <1>1, <1>2 DEF All, NewJournal, Journals

\* Before the first start.
LEMMA InitType == Init => TypeOK
  <1> SUFFICES ASSUME Init PROVE TypeOK
    OBVIOUS
  <1>1. IsStore(db)
    <2>1. db \in [balances : [{} -> Int], positions : [{} -> Int], events : Seq(Events)]
      BY DEF Init, Migrate, NoRows
    <2> QED  BY <2>1 DEF IsStore
  <1>2. raw \in Seq(Adapters) /\ Len(raw) <= RawCap /\ todo \in Seq(Fills \cup {NoFill})
    BY LifecycleAssumption DEF Init
  <1>3. /\ pc = "off" /\ signal \in BOOLEAN /\ rawClosed \in BOOLEAN /\ refused \in BOOLEAN
        /\ trade \in Trades \cup {NoTrade}
    BY DEF Init
  <1>5. {run, since, frames, trades, faults, lost} \subseteq Nat
    BY DEF Init
  <1>6. fanin = "receive" /\ dropped = FanIn
    BY DEF Init
  <1>4. /\ adapter \in [Adapters -> {"poll", "send", "done"}]
        /\ queue \in [Adapters -> 0..QueueSize]
        /\ lane \in [Adapters -> {"select", "journal", "append"}]
        /\ ready \in [Adapters -> BOOLEAN]
        /\ journal \in Journals
        /\ pending \in [Writers -> Events \cup {NoEvent}]
        /\ ledger \in Ledgers /\ last \in EndedRuns
    BY NewTypes, LedgerFacts DEF Init
  <1> QED  BY <1>1, <1>2, <1>3, <1>4, <1>5, <1>6 DEF TypeOK, Journals

\* The end of a process, however it comes about.
LEMMA DieType ==
    ASSUME TypeOK, NEW how \in {"exit", "crash", "panic"}, Die(how), faults' \in Nat
    PROVE  TypeOK'
  <1>1. last' \in EndedRuns
    BY DEF Die, TypeOK, EndedRuns
  <1>2. pc' = "off" /\ signal' = FALSE /\ rawClosed' = FALSE /\ raw' = <<>> /\ todo' = <<>>
        /\ trade' = NoTrade /\ lost' = 0 /\ refused' = FALSE
        /\ fanin' = "receive" /\ dropped' = FanIn
    BY DEF Die
  <1>3. /\ adapter' \in [Adapters -> {"poll", "send", "done"}]
        /\ queue' \in [Adapters -> 0..QueueSize]
        /\ lane' \in [Adapters -> {"select", "journal", "append"}]
        /\ ready' \in [Adapters -> BOOLEAN]
        /\ journal' \in Journals
        /\ pending' \in [Writers -> Events \cup {NoEvent}]
        /\ ledger' \in Ledgers
    BY NewTypes, LedgerFacts DEF Die
  <1>4. UNCHANGED <<db, run, since, frames, trades>>
    BY DEF Die
  <1>5. raw' \in Seq(Adapters) /\ Len(raw') <= RawCap /\ todo' \in Seq(Fills \cup {NoFill})
    BY <1>2, LifecycleAssumption
  <1>6. {run', since', frames', trades', faults', lost'} \subseteq Nat
    BY <1>2, <1>4 DEF TypeOK
  <1> QED  BY <1>1, <1>2, <1>3, <1>4, <1>5, <1>6 DEF TypeOK, Journals

\* Recording an event, and the return of an append.
LEMMA WriterTypes ==
    ASSUME TypeOK
    PROVE  /\ \A w \in Writers, fill \in Fills \cup {NoFill} :
                 Record(w, fill) => /\ journal' \in Journals
                                    /\ pending' \in [Writers -> Events \cup {NoEvent}]
           /\ \A w \in Writers :
                 pending[w] # NoEvent =>
                    /\ pending[w] \in Events
                    /\ IsStore(AppendEvent(db, pending[w]))
                    /\ AppendEvent(db, pending[w]).events = Append(db.events, pending[w])
                    /\ AppendEvent(db, pending[w]).balances = db.balances
                    /\ AppendEvent(db, pending[w]).positions = db.positions
  <1>1. journal \in Journals /\ IsStore(db) /\ pending \in [Writers -> Events \cup {NoEvent}]
    BY DEF TypeOK, Journals
  <1>2. ASSUME NEW w \in Writers, NEW fill \in Fills \cup {NoFill}, Record(w, fill)
        PROVE  journal' \in Journals /\ pending' \in [Writers -> Events \cup {NoEvent}]
    <2>1. journal' \in Journals /\ LastRecorded(journal') \in Events
      BY <1>1, <1>2, RecordFacts DEF Record
    <2> QED  BY <1>1, <1>2, <2>1 DEF Record
  <1>3. ASSUME NEW w \in Writers, pending[w] # NoEvent
        PROVE  /\ pending[w] \in Events
               /\ IsStore(AppendEvent(db, pending[w]))
               /\ AppendEvent(db, pending[w]).events = Append(db.events, pending[w])
               /\ AppendEvent(db, pending[w]).balances = db.balances
               /\ AppendEvent(db, pending[w]).positions = db.positions
    <2>1. pending[w] \in Events
      BY <1>1, <1>3
    <2>2. Append(db.events, pending[w]) \in Seq(Events)
      BY <1>1, <2>1, StoreFacts, AppendFacts
    <2> QED  BY <1>1, <2>1, <2>2, StoreFacts DEF AppendEvent
  <1> QED  BY <1>2, <1>3

\* The control part of an append's return is well typed.
LEMMA ReturnTypes ==
    ASSUME TypeOK, NEW w \in Writers, AppendReturns(w), w = Engine => todo # <<>>
    PROVE  /\ pc' \in {pc, "record", "settle"}
           /\ todo' \in Seq(Fills \cup {NoFill})
           /\ lane' \in [Adapters -> {"select", "journal", "append"}]
           /\ pending' \in [Writers -> Events \cup {NoEvent}]
           /\ fanin' \in {fanin, "receive"} /\ dropped' = dropped
  <1> USE DEF ingest
  <1>0. Engine \notin Adapters /\ FanIn \notin Adapters /\ Engine # FanIn
    BY WriterNames
  <1>1. pending' \in [Writers -> Events \cup {NoEvent}]
    BY DEF AppendReturns, TypeOK
  <1>2. CASE w = Engine
    <2>1. todo' \in Seq(Fills \cup {NoFill})
      <3>1. todo' = Tail(todo) /\ todo \in Seq(Fills \cup {NoFill}) /\ todo # <<>>
        BY <1>0, <1>2 DEF AppendReturns, TypeOK
      <3> QED  BY <3>1, TailFacts
    <2>2. lane' = lane /\ pc' \in {"record", "settle"} /\ fanin' = fanin /\ dropped' = dropped
      BY <1>0, <1>2 DEF AppendReturns
    <2> QED  BY <1>1, <2>1, <2>2 DEF TypeOK
  <1>3. CASE w = FanIn
    BY <1>0, <1>1, <1>3 DEF AppendReturns, TypeOK
  <1>4. CASE w \in Adapters
    BY <1>0, <1>1, <1>4 DEF AppendReturns, TypeOK
  <1> QED  BY <1>2, <1>3, <1>4 DEF Writers

\* Every step keeps the types; that the main goroutine has an event to journal
\* while it journals is TodoIsTheRest.
LEMMA TypeStep == TypeOK /\ ControlInv /\ [Next]_vars => TypeOK'
  <1> SUFFICES ASSUME TypeOK, ControlInv, [Next]_vars PROVE TypeOK'
    OBVIOUS
  <1> USE DEF source, ingest, lanes, money, log, memory, durable
  <1>1. CASE Start
    <2>1. since' \in Nat
      <3>1. db.events \in Seq(Events)
        BY StoreFacts DEF TypeOK
      <3> QED  BY <1>1, <3>1 DEF Start
    <2>2. run' \in Nat
      BY <1>1 DEF Start, TypeOK
    <2> QED  BY <1>1, <2>1, <2>2, LedgerFacts, NewTypes DEF Start, TypeOK
  <1>2. CASE Signal
    BY <1>2 DEF Signal, TypeOK
  <1>3. CASE Crash
    <2>1. faults' \in Nat /\ Die("crash")
      BY <1>3 DEF Crash, Fault, TypeOK
    <2> QED  BY <2>1, DieType
  <1>4. ASSUME NEW a \in Adapters, AdapterRead(a) \/ AdapterReturn(a) PROVE TypeOK'
    <2>1. adapter' \in [Adapters -> {"poll", "send", "done"}]
      BY <1>4 DEF AdapterRead, AdapterReturn, TypeOK
    <2>2. frames' \in Nat
      BY <1>4 DEF AdapterRead, AdapterReturn, TypeOK
    <2> QED  BY <1>4, <2>1, <2>2 DEF AdapterRead, AdapterReturn, TypeOK
  <1>5. ASSUME NEW a \in Adapters, AdapterSend(a) PROVE TypeOK'
    <2>1. adapter' \in [Adapters -> {"poll", "send", "done"}]
      BY <1>5 DEF AdapterSend, TypeOK
    <2>2. raw' \in Seq(Adapters) /\ Len(raw') <= RawCap
      <3>1. /\ raw \in Seq(Adapters) /\ Len(raw) \in Nat /\ RawCap \in Nat
            /\ Len(raw) <= RawCap
        BY LifecycleAssumption DEF TypeOK
      <3>2. CASE Len(raw) < RawCap
        BY <1>5, <3>1, <3>2, AppendFacts DEF AdapterSend
      <3>3. CASE ~(Len(raw) < RawCap)
        BY <1>5, <3>1, <3>3 DEF AdapterSend
      <3> QED  BY <3>2, <3>3
    <2> QED  BY <1>5, <2>1, <2>2 DEF AdapterSend, TypeOK
  <1>6. ASSUME NEW a \in Adapters, AdapterPanic(a) PROVE TypeOK'
    <2>1. faults' \in Nat /\ Die("panic")
      BY <1>6 DEF AdapterPanic, TypeOK
    <2> QED  BY <2>1, DieType
  <1>7. ASSUME NEW a \in Adapters, LaneRecord(a) PROVE TypeOK'
    <2>1. journal' \in Journals /\ pending' \in [Writers -> Events \cup {NoEvent}]
      BY <1>7, WriterTypes DEF LaneRecord, Writers
    <2>2. lane' \in [Adapters -> {"select", "journal", "append"}]
      BY <1>7 DEF LaneRecord, TypeOK
    <2> QED  BY <1>7, <2>1, <2>2 DEF LaneRecord, TypeOK, Journals
  <1>8. ASSUME NEW a \in Adapters, NEW next \in {"journal", "select"}, NEW isReady \in BOOLEAN,
               LaneApply(a, next, isReady)
        PROVE  TypeOK'
    <2>1. queue' \in [Adapters -> 0..QueueSize]
      <3>1. queue[a] \in 0..QueueSize /\ queue[a] > 0 /\ QueueSize \in Nat
        BY <1>8, LifecycleAssumption DEF LaneApply, TypeOK
      <3>2. queue[a] - 1 \in 0..QueueSize
        BY <3>1
      <3> QED  BY <1>8, <3>2 DEF LaneApply, TypeOK
    <2>2. /\ ready' \in [Adapters -> BOOLEAN]
          /\ lane' \in [Adapters -> {"select", "journal", "append"}]
      BY <1>8 DEF LaneApply, TypeOK
    <2> QED  BY <1>8, <2>1, <2>2 DEF LaneApply, TypeOK
  <1>9. CASE CloseRaw
    BY <1>9 DEF CloseRaw, TypeOK
  <1>10. CASE Ingest
    <2>1. Head(raw) \in Adapters /\ raw' \in Seq(Adapters) /\ Len(raw') = Len(raw) - 1
      BY <1>10, TailFacts DEF Ingest, TypeOK
    <2>2. Len(raw') <= RawCap
      BY <2>1, LifecycleAssumption DEF TypeOK
    <2>3. queue' \in [Adapters -> 0..QueueSize]
      <3>1. \/ queue' = queue
            \/ queue[Head(raw)] < QueueSize /\ queue' = [queue EXCEPT ![Head(raw)] = @ + 1]
        BY <1>10 DEF Ingest
      <3>2. queue[Head(raw)] \in 0..QueueSize /\ QueueSize \in Nat
        BY <2>1, LifecycleAssumption DEF TypeOK
      <3>3. queue[Head(raw)] < QueueSize => queue[Head(raw)] + 1 \in 0..QueueSize
        BY <3>2
      <3> QED  BY <2>1, <3>1, <3>3 DEF TypeOK
    <2>4. /\ fanin' \in {"receive", "full", "journal", "append"}
          /\ dropped' \in Adapters \cup {FanIn} /\ (fanin' = "full" => dropped' \in Adapters)
      BY <1>10, <2>1 DEF Ingest, TypeOK
    <2> QED  BY <1>10, <2>1, <2>2, <2>3, <2>4 DEF Ingest, TypeOK
  <1>20. CASE OverloadInvalidate
    BY <1>20 DEF OverloadInvalidate, TypeOK
  <1>21. CASE OverloadRecord
    <2>1. journal' \in Journals /\ pending' \in [Writers -> Events \cup {NoEvent}]
      BY <1>21, WriterTypes DEF OverloadRecord, Writers
    <2> QED  BY <1>21, <2>1 DEF OverloadRecord, TypeOK, Journals
  <1>11. ASSUME NEW w \in Writers, AppendRow(w) \/ AppendFails(w) PROVE TypeOK'
    <2>1. AppendReturns(w) /\ pending[w] # NoEvent
      BY <1>11 DEF AppendRow, AppendFails
    <2>2. w = Engine => todo # <<>>
      BY <2>1 DEF ControlInv, AppendsMatchWriters, TodoIsTheRest
    <2>3. IsStore(db') /\ lost' \in Nat /\ faults' \in Nat
      BY <1>11, WriterTypes DEF AppendRow, AppendFails, Fault, TypeOK
    <2>4. /\ pc' \in {pc, "record", "settle"}
          /\ todo' \in Seq(Fills \cup {NoFill})
          /\ lane' \in [Adapters -> {"select", "journal", "append"}]
          /\ pending' \in [Writers -> Events \cup {NoEvent}]
          /\ fanin' \in {fanin, "receive"} /\ dropped' = dropped
      BY <2>1, <2>2, ReturnTypes
    <2>5. UNCHANGED <<signal, source, queue, ready, trade, ledger, trades, refused, journal,
                      run, since, last>>
      BY <2>1 DEF AppendReturns
    <2> QED  BY <2>3, <2>4, <2>5 DEF TypeOK
  <1>12. ASSUME NEW t \in Trades \cup {NoTrade}, EvaluateOnce(t) PROVE TypeOK'
    <2>1. todo' \in Seq(Fills \cup {NoFill})
      BY <1>12, TradeShapes DEF EvaluateOnce
    <2>2. pc' = "record" /\ trade' = t /\ trades' \in Nat
      BY <1>12 DEF EvaluateOnce, TypeOK
    <2>3. UNCHANGED <<signal, source, ingest, lanes, ledger, refused, log, durable>>
      BY <1>12 DEF EvaluateOnce
    <2> QED  BY <2>1, <2>2, <2>3 DEF TypeOK
  <1>13. ASSUME NEW ok \in BOOLEAN, Settle(ok) PROVE TypeOK'
    <2>1. ledger' \in Ledgers
      BY <1>13, LedgerFacts DEF Settle, TypeOK
    <2> QED  BY <1>13, <2>1 DEF Settle, TypeOK
  <1>14. CASE RecordEvent
    <2>1. Head(todo) \in Fills \cup {NoFill}
      BY <1>14, TailFacts DEF RecordEvent, TypeOK, ControlInv, TodoIsTheRest
    <2>2. journal' \in Journals /\ pending' \in [Writers -> Events \cup {NoEvent}]
      BY <1>14, <2>1, WriterTypes DEF RecordEvent, Writers
    <2> QED  BY <1>14, <2>2 DEF RecordEvent, TypeOK, Journals
  <1>15. CASE EndLoop \/ SourceDone
    BY <1>15 DEF EndLoop, SourceDone, TypeOK
  <1>16. CASE SavePortfolioStep
    <2>1. IsStore(db')
      BY <1>16, StoreFacts DEF SavePortfolioStep, TypeOK
    <2> QED  BY <1>16, <2>1 DEF SavePortfolioStep, TypeOK
  <1>17. CASE SaveFails
    BY <1>17 DEF SaveFails, Fault, TypeOK
  <1>18. CASE Exit
    <2>1. faults' \in Nat /\ Die("exit")
      BY <1>18 DEF Exit, TypeOK
    <2> QED  BY <2>1, DieType
  <1>19. CASE UNCHANGED vars
    BY <1>19 DEF vars, TypeOK
  <1> QED
    BY <1>1, <1>2, <1>3, <1>4, <1>5, <1>6, <1>7, <1>8, <1>9, <1>10, <1>11, <1>12, <1>13,
       <1>14, <1>15, <1>16, <1>17, <1>18, <1>19, <1>20, <1>21
    DEF Next, Environment, Goroutines, Sink, Main

-----------------------------------------------------------------------------
(* Control: who is where, and what is in flight. *)

\* While no process runs, nothing but a start can happen.
LEMMA OffOnlyStarts ==
    ASSUME TypeOK, OffIsClean, pc = "off", Next
    PROVE  Start
  <1>1. /\ \A a \in Adapters : adapter[a] = "poll" /\ queue[a] = 0 /\ lane[a] = "select"
        /\ \A w \in Writers : pending[w] = NoEvent
        /\ raw = <<>> /\ fanin = "receive"
    BY DEF OffIsClean, All
  <1>2. ~Signal /\ ~Crash /\ ~Ingest /\ ~CloseRaw /\ ~OverloadInvalidate /\ ~OverloadRecord
    BY <1>1 DEF Signal, Crash, Ingest, CloseRaw, OverloadInvalidate, OverloadRecord
  <1>3. ASSUME NEW a \in Adapters
        PROVE  /\ ~AdapterRead(a) /\ ~AdapterSend(a) /\ ~AdapterPanic(a) /\ ~AdapterReturn(a)
               /\ ~LaneRecord(a) /\ \A next, isReady : ~LaneApply(a, next, isReady)
    BY <1>1 DEF AdapterRead, AdapterSend, AdapterPanic, AdapterReturn, LaneRecord, LaneApply
  <1>4. ~Sink
    BY <1>1 DEF Sink, AppendRow, AppendFails
  <1>5. ~Main
    BY DEF Main, EvaluateOnce, Settle, RecordEvent, EndLoop, SourceDone, SavePortfolioStep,
           SaveFails, Exit
  <1> QED  BY <1>2, <1>3, <1>4, <1>5 DEF Next, Environment, Goroutines

\* A new event is not the empty one.
LEMMA NewEvent ==
    ASSUME NEW n \in Nat, NEW w \in Writers, NEW fill
    PROVE  [id |-> n + 1, by |-> w, fill |-> fill] # NoEvent
  BY DEF NoEvent

\* A new process has nothing in flight and nothing to do.
LEMMA DieControl ==
    ASSUME ControlInv, NEW how, Die(how)
    PROVE  ControlInv'
  <1>1. OffIsClean'
    BY DEF Die, OffIsClean
  <1>2. AppendsMatchWriters'
    <2>1. \A w \in Writers : pending'[w] = NoEvent
      BY DEF Die, All
    <2>2. pc' = "off" /\ \A a \in Adapters : lane'[a] = "select"
      BY DEF Die, All
    <2>3. /\ NoEvent.fill = NoFill /\ fanin' = "receive"
          /\ Engine \in Writers /\ FanIn \in Writers /\ Adapters \subseteq Writers
      BY DEF NoEvent, Writers, Die
    <2> QED  BY <2>1, <2>2, <2>3 DEF AppendsMatchWriters
  <1>3. TodoIsTheRest'
    BY DEF Die, TodoIsTheRest
  <1>4. OldRowsStay'
    BY DEF Die, ControlInv, OldRowsStay
  <1> QED  BY <1>1, <1>2, <1>3, <1>4 DEF ControlInv

\* Every step keeps an event in flight exactly while its writer appends.
LEMMA AppendsStep ==
    ASSUME TypeOK, ControlInv, Next
    PROVE  AppendsMatchWriters'
  <1> USE DEF source, ingest, lanes, money, log, memory, durable
  <1>0. /\ pending \in [Writers -> Events \cup {NoEvent}]
        /\ lane \in [Adapters -> {"select", "journal", "append"}]
        /\ Engine \in Writers /\ FanIn \in Writers /\ Adapters \subseteq Writers
        /\ Engine \notin Adapters /\ FanIn \notin Adapters /\ Engine # FanIn
        /\ Writers = Adapters \cup {Engine, FanIn}
    BY WriterNames DEF TypeOK, Writers
  <1>1. ASSUME pending' = pending, pc' = "append" <=> pc = "append",
               todo' = todo \/ pc # "append", fanin' = "append" <=> fanin = "append",
               \A a \in Adapters : lane'[a] = "append" <=> lane[a] = "append"
        PROVE  AppendsMatchWriters'
    BY <1>1 DEF ControlInv, AppendsMatchWriters
  <1>2. CASE Start \/ Signal
    BY <1>1, <1>2 DEF Start, Signal
  <1>3. ASSUME NEW how, Die(how) PROVE AppendsMatchWriters'
    BY <1>3, DieControl DEF ControlInv
  <1>4. ASSUME NEW a \in Adapters, AdapterRead(a) \/ AdapterSend(a) \/ AdapterReturn(a)
        PROVE  AppendsMatchWriters'
    BY <1>1, <1>4 DEF AdapterRead, AdapterSend, AdapterReturn
  <1>5. ASSUME NEW a \in Adapters, NEW next \in {"journal", "select"}, NEW isReady \in BOOLEAN,
               LaneApply(a, next, isReady)
        PROVE  AppendsMatchWriters'
    <2>1. \A b \in Adapters : lane'[b] = "append" <=> lane[b] = "append"
      BY <1>0, <1>5 DEF LaneApply
    <2> QED  BY <1>1, <1>5, <2>1 DEF LaneApply
  <1>6. ASSUME NEW w \in Writers, NEW fill \in Fills \cup {NoFill}, Record(w, fill)
        PROVE  /\ pending'[w] # NoEvent /\ pending'[w].by = w /\ pending'[w].fill = fill
               /\ \A x \in Writers \ {w} : pending'[x] = pending[x]
    <2>1. journal \in Journals
      BY DEF TypeOK, Journals
    <2>2. pending'[w] = [id |-> journal.seq + 1, by |-> w, fill |-> fill]
      BY <1>0, <1>6, <2>1, RecordFacts DEF Record
    <2>3. pending'[w] # NoEvent
      BY <2>1, <2>2, NewEvent DEF Journals
    <2> QED  BY <1>0, <1>6, <2>2, <2>3 DEF Record
  <1>7. ASSUME NEW a \in Adapters, LaneRecord(a) PROVE AppendsMatchWriters'
    <2>1. /\ pending'[a] # NoEvent /\ pending'[a].by = a /\ pending'[a].fill = NoFill
          /\ \A x \in Writers \ {a} : pending'[x] = pending[x]
      BY <1>0, <1>6, <1>7 DEF LaneRecord
    <2>2. /\ lane'[a] = "append" /\ \A b \in Adapters \ {a} : lane'[b] = lane[b]
          /\ pc' = pc /\ todo' = todo /\ fanin' = fanin
      BY <1>0, <1>7 DEF LaneRecord
    <2> QED  BY <1>0, <2>1, <2>2 DEF ControlInv, AppendsMatchWriters
  <1>8. CASE RecordEvent
    <2>1. Head(todo) \in Fills \cup {NoFill}
      BY <1>8, TailFacts DEF RecordEvent, TypeOK, ControlInv, TodoIsTheRest
    <2>2. /\ pending'[Engine] # NoEvent /\ pending'[Engine].by = Engine
          /\ pending'[Engine].fill = Head(todo)
          /\ \A x \in Writers \ {Engine} : pending'[x] = pending[x]
      BY <1>0, <1>6, <1>8, <2>1 DEF RecordEvent
    <2>3. lane' = lane /\ pc' = "append" /\ todo' = todo /\ fanin' = fanin
      BY <1>8 DEF RecordEvent
    <2> QED  BY <1>0, <2>2, <2>3 DEF ControlInv, AppendsMatchWriters
  <1>9. ASSUME NEW w \in Writers, AppendRow(w) \/ AppendFails(w) PROVE AppendsMatchWriters'
    <2>1. AppendReturns(w) /\ pending[w] # NoEvent
      BY <1>9 DEF AppendRow, AppendFails
    <2>2. pending'[w] = NoEvent /\ \A x \in Writers \ {w} : pending'[x] = pending[x]
      BY <1>0, <2>1 DEF AppendReturns
    <2>3. NoEvent.fill = NoFill
      BY DEF NoEvent
    <2>4. CASE w = Engine
      <3>1. pc' # "append" /\ lane' = lane /\ fanin' = fanin
        BY <1>0, <2>1, <2>4 DEF AppendReturns
      <3> QED  BY <1>0, <2>2, <2>3, <2>4, <3>1 DEF ControlInv, AppendsMatchWriters
    <2>5. CASE w \in Adapters
      <3>1. /\ lane'[w] = "select" /\ pc' = pc /\ todo' = todo /\ fanin' = fanin
            /\ \A b \in Adapters \ {w} : lane'[b] = lane[b]
        BY <1>0, <2>1, <2>5 DEF AppendReturns
      <3> QED  BY <1>0, <2>2, <2>3, <2>5, <3>1 DEF ControlInv, AppendsMatchWriters
    <2>6. CASE w = FanIn
      <3>1. fanin' = "receive" /\ pc' = pc /\ todo' = todo /\ lane' = lane
        BY <1>0, <2>1, <2>6 DEF AppendReturns
      <3> QED  BY <1>0, <2>2, <2>3, <2>6, <3>1 DEF ControlInv, AppendsMatchWriters
    <2> QED  BY <1>0, <2>4, <2>5, <2>6
  <1>10. CASE CloseRaw \/ Ingest \/ OverloadInvalidate
    BY <1>1, <1>10 DEF CloseRaw, Ingest, OverloadInvalidate
  <1>14. CASE OverloadRecord
    <2>1. /\ pending'[FanIn] # NoEvent /\ pending'[FanIn].by = FanIn
          /\ pending'[FanIn].fill = NoFill
          /\ \A x \in Writers \ {FanIn} : pending'[x] = pending[x]
      BY <1>0, <1>6, <1>14 DEF OverloadRecord
    <2>2. fanin' = "append" /\ lane' = lane /\ pc' = pc /\ todo' = todo
      BY <1>14 DEF OverloadRecord
    <2> QED  BY <1>0, <2>1, <2>2 DEF ControlInv, AppendsMatchWriters
  <1>11. ASSUME NEW t \in Trades \cup {NoTrade}, EvaluateOnce(t) PROVE AppendsMatchWriters'
    BY <1>1, <1>11 DEF EvaluateOnce
  <1>12. ASSUME NEW ok \in BOOLEAN, Settle(ok) PROVE AppendsMatchWriters'
    BY <1>1, <1>12 DEF Settle
  <1>13. CASE EndLoop \/ SourceDone \/ SavePortfolioStep \/ SaveFails
    BY <1>1, <1>13 DEF EndLoop, SourceDone, SavePortfolioStep, SaveFails
  <1> QED
    BY <1>2, <1>3, <1>4, <1>5, <1>7, <1>8, <1>9, <1>10, <1>11, <1>12, <1>13, <1>14
    DEF Next, Environment, Goroutines, Sink, Main, Crash, AdapterPanic, Exit

\* The events of an opportunity are all different.
LEMMA FreshTodo ==
    ASSUME NEW t \in Trades \cup {NoTrade}
    PROVE  /\ <<NoFill>> \o t # <<>>
           /\ \A i, j \in DOMAIN (<<NoFill>> \o t) : (<<NoFill>> \o t)[i] = (<<NoFill>> \o t)[j] => i = j
           /\ Legs(<<NoFill>> \o t) = Legs(t) \cup {NoFill}
  <1> DEFINE q == <<NoFill>> \o t
  <1>1. \A i, j \in DOMAIN t : t[i] = t[j] => i = j
    <2>1. \A b, s : Buy(b) # Sell(s)
      BY DEF Buy, Sell
    <2>2. ASSUME NEW f, t = <<f>> PROVE \A i, j \in DOMAIN t : t[i] = t[j] => i = j
      <3>1. DOMAIN t = {1}
        BY <2>2
      <3> QED  BY <3>1
    <2>3. ASSUME NEW b, NEW s, t = <<Buy(b), Sell(s)>>
          PROVE  \A i, j \in DOMAIN t : t[i] = t[j] => i = j
      <3>1. DOMAIN t = {1, 2} /\ t[1] = Buy(b) /\ t[2] = Sell(s)
        BY <2>3
      <3> QED  BY <2>1, <3>1
    <2> QED  BY <2>2, <2>3, TradeShapes
  <1>2. t \in Seq(Fills) /\ NoFill \notin Fills
    <2>1. NoFill \notin Fills
      BY DEF NoFill, Fills
    <2> QED  BY <2>1, TradeShapes
  <1>3. /\ Len(q) = Len(t) + 1 /\ DOMAIN q = 1..Len(t) + 1 /\ q[1] = NoFill
        /\ \A i \in 1..Len(t) : q[i + 1] = t[i]
    <2>1. <<NoFill>> \in Seq({NoFill} \cup Fills) /\ t \in Seq({NoFill} \cup Fills)
      BY <1>2
    <2>2. Len(<<NoFill>>) = 1 /\ <<NoFill>>[1] = NoFill
      OBVIOUS
    <2>3. Len(q) = 1 + Len(t) /\ DOMAIN q = 1..Len(q)
      BY <2>1, <2>2
    <2>4. \A i \in 1..Len(q) : q[i] = IF i <= 1 THEN <<NoFill>>[i] ELSE t[i - 1]
      BY <2>1, <2>2
    <2>5. Len(t) \in Nat
      BY <1>2
    <2> HIDE DEF q
    <2> QED  BY <2>2, <2>3, <2>4, <2>5
  <1>4. \A i \in DOMAIN q : i = 1 \/ (i - 1 \in DOMAIN t /\ q[i] = t[i - 1] /\ q[i] # NoFill)
    <2> SUFFICES ASSUME NEW i \in DOMAIN q, i # 1
                 PROVE  i - 1 \in DOMAIN t /\ q[i] = t[i - 1] /\ q[i] # NoFill
      OBVIOUS
    <2>1. i - 1 \in 1..Len(t) /\ (i - 1) + 1 = i
      BY <1>2, <1>3
    <2>2. q[i] = t[i - 1]
      BY <1>3, <2>1
    <2> QED  BY <1>2, <2>1, <2>2
  <1>5. DOMAIN q \subseteq Int /\ q # <<>>
    BY <1>2, <1>3
  <1>6. \A i \in DOMAIN t : i + 1 \in DOMAIN q /\ q[i + 1] = t[i]
    BY <1>2, <1>3
  <1>7. 1 \in DOMAIN q
    BY <1>2, <1>3
  <1> HIDE DEF q
  <1>8. \A i, j \in DOMAIN q : q[i] = q[j] => i = j
    BY <1>1, <1>3, <1>4, <1>5
  <1>9. Legs(q) = Legs(t) \cup {NoFill}
    <2>1. \A f : f \in Legs(q) <=> \E i \in DOMAIN q : f = q[i]
      BY DEF Legs
    <2>2. \A f : f \in Legs(t) <=> \E i \in DOMAIN t : f = t[i]
      BY DEF Legs
    <2> QED  BY <1>3, <1>4, <1>6, <1>7, <2>1, <2>2
  <1> QED  BY <1>5, <1>8, <1>9 DEF q

\* Dealing with the first of several different events.
LEMMA TailOfTodo ==
    ASSUME NEW S, NEW s \in Seq(S), s # <<>>,
           \A i, j \in DOMAIN s : s[i] = s[j] => i = j
    PROVE  /\ \A i, j \in DOMAIN Tail(s) : Tail(s)[i] = Tail(s)[j] => i = j
           /\ Legs(Tail(s)) = Legs(s) \ {Head(s)}
           /\ Head(s) \in Legs(s)
           /\ Tail(s) # <<>> <=> Len(s) > 1
  <1> DEFINE t == Tail(s)
  <1>1. /\ DOMAIN t \subseteq Int /\ 1 \in DOMAIN s /\ Head(s) = s[1]
        /\ \A i \in DOMAIN t : i + 1 \in DOMAIN s /\ i + 1 # 1 /\ t[i] = s[i + 1]
        /\ \A i \in DOMAIN s : i = 1 \/ (i - 1 \in DOMAIN t /\ t[i - 1] = s[i])
        /\ t \in Seq(S) /\ Len(t) = Len(s) - 1
    BY TailFacts
  <1> HIDE DEF t
  <1>2. \A i, j \in DOMAIN t : t[i] = t[j] => i = j
    <2> SUFFICES ASSUME NEW i \in DOMAIN t, NEW j \in DOMAIN t, t[i] = t[j] PROVE i = j
      OBVIOUS
    <2>1. i + 1 = j + 1
      BY <1>1
    <2> QED  BY <1>1, <2>1
  <1>3. Legs(t) = Legs(s) \ {Head(s)}
    <2>1. \A f : f \in Legs(s) <=> \E i \in DOMAIN s : f = s[i]
      BY DEF Legs
    <2>2. \A f : f \in Legs(t) <=> \E i \in DOMAIN t : f = t[i]
      BY DEF Legs
    <2>3. \A f \in Legs(t) : f \in Legs(s) /\ f # Head(s)
      BY <1>1, <2>1, <2>2
    <2>4. \A f \in Legs(s) \ {Head(s)} : f \in Legs(t)
      BY <1>1, <2>1, <2>2
    <2> QED  BY <2>3, <2>4
  <1>4. Head(s) \in Legs(s)
    BY <1>1 DEF Legs
  <1>5. t # <<>> <=> Len(s) > 1
    BY <1>1
  <1> QED  BY <1>2, <1>3, <1>4, <1>5 DEF t

\* Every step keeps the rest of the events with the main goroutine.
LEMMA TodoStep ==
    ASSUME TypeOK, ControlInv, Next
    PROVE  TodoIsTheRest'
  <1> USE DEF source, ingest, lanes, money, log, memory, durable
  <1>1. ASSUME todo' = todo, trade' = trade,
               pc' = pc \/ {pc, pc'} \subseteq {"record", "append"}
                        \/ {pc, pc'} \subseteq {"off", "loop", "wait", "save", "close", "unsaved"}
        PROVE  TodoIsTheRest'
    BY <1>1 DEF ControlInv, TodoIsTheRest
  <1>2. CASE Start \/ Signal
    BY <1>1, <1>2 DEF Start, Signal
  <1>3. ASSUME NEW how, Die(how) PROVE TodoIsTheRest'
    BY <1>3, DieControl DEF ControlInv
  <1>4. ASSUME NEW a \in Adapters,
               \/ AdapterRead(a) \/ AdapterSend(a) \/ AdapterReturn(a) \/ LaneRecord(a)
               \/ \E next \in {"journal", "select"}, isReady \in BOOLEAN : LaneApply(a, next, isReady)
        PROVE  TodoIsTheRest'
    BY <1>1, <1>4 DEF AdapterRead, AdapterSend, AdapterReturn, LaneRecord, LaneApply
  <1>5. CASE CloseRaw \/ Ingest \/ OverloadInvalidate \/ OverloadRecord \/ RecordEvent
    BY <1>1, <1>5 DEF CloseRaw, Ingest, OverloadInvalidate, OverloadRecord, RecordEvent
  <1>6. ASSUME NEW w \in Writers, AppendRow(w) \/ AppendFails(w) PROVE TodoIsTheRest'
    <2>1. AppendReturns(w) /\ pending[w] # NoEvent
      BY <1>6 DEF AppendRow, AppendFails
    <2>2. CASE w = Engine
      <3>1. pc = "append" /\ todo # <<>> /\ todo \in Seq(Fills \cup {NoFill})
        BY <2>1, <2>2 DEF ControlInv, AppendsMatchWriters, TodoIsTheRest, TypeOK
      <3>2. /\ todo' = Tail(todo) /\ trade' = trade
            /\ pc' = IF Len(todo) > 1 THEN "record" ELSE "settle"
        BY <2>1, <2>2, WriterNames DEF AppendReturns
      <3>3. \A i, j \in DOMAIN todo : todo[i] = todo[j] => i = j
        BY DEF ControlInv, TodoIsTheRest
      <3>4. /\ \A i, j \in DOMAIN todo' : todo'[i] = todo'[j] => i = j
            /\ todo' # <<>> <=> Len(todo) > 1
        BY <3>1, <3>2, <3>3, TailOfTodo
      <3> QED  BY <3>2, <3>4 DEF TodoIsTheRest
    <2>3. CASE w # Engine
      BY <1>1, <2>1, <2>3 DEF AppendReturns
    <2> QED  BY <2>2, <2>3
  <1>7. ASSUME NEW t \in Trades \cup {NoTrade}, EvaluateOnce(t) PROVE TodoIsTheRest'
    <2>1. todo' = <<NoFill>> \o t /\ pc' = "record"
      BY <1>7 DEF EvaluateOnce
    <2> QED  BY <2>1, FreshTodo DEF TodoIsTheRest
  <1>8. ASSUME NEW ok \in BOOLEAN, Settle(ok) PROVE TodoIsTheRest'
    BY <1>8 DEF Settle, ControlInv, TodoIsTheRest
  <1>9. CASE EndLoop \/ SourceDone \/ SavePortfolioStep \/ SaveFails
    BY <1>1, <1>9 DEF EndLoop, SourceDone, SavePortfolioStep, SaveFails
  <1> QED
    BY <1>2, <1>3, <1>4, <1>5, <1>6, <1>7, <1>8, <1>9
    DEF Next, Environment, Goroutines, Sink, Main, Crash, AdapterPanic, Exit

\* A process that does not end leaves "off" only by starting.
LEMMA OffStep ==
    ASSUME TypeOK, ControlInv, Next
    PROVE  OffIsClean'
  <1> USE DEF source, ingest, lanes, money, log, memory, durable
  <1>1. CASE pc = "off"
    <2>1. Start
      BY <1>1, OffOnlyStarts DEF ControlInv
    <2> QED  BY <2>1 DEF Start, OffIsClean
  <1>2. ASSUME NEW how, Die(how) PROVE OffIsClean'
    BY <1>2, DieControl DEF ControlInv
  <1>3. ASSUME pc # "off", pc' # "off" PROVE OffIsClean'
    BY <1>3 DEF OffIsClean
  <1>4. ASSUME NEW a \in Adapters, pc # "off",
               \/ AdapterRead(a) \/ AdapterSend(a) \/ AdapterReturn(a) \/ LaneRecord(a)
               \/ \E next \in {"journal", "select"}, isReady \in BOOLEAN : LaneApply(a, next, isReady)
        PROVE  OffIsClean'
    BY <1>3, <1>4 DEF AdapterRead, AdapterSend, AdapterReturn, LaneRecord, LaneApply
  <1>5. CASE pc # "off" /\ (\/ Start \/ Signal \/ CloseRaw \/ Sink
                           \/ Ingest \/ OverloadInvalidate \/ OverloadRecord)
    BY <1>3, <1>5 DEF Start, Signal, CloseRaw, Ingest, OverloadInvalidate, OverloadRecord, Sink,
         AppendRow, AppendFails, AppendReturns
  <1>6. CASE Main
    BY <1>2, <1>3, <1>6 DEF Main, EvaluateOnce, Settle, RecordEvent, EndLoop, SourceDone,
         SavePortfolioStep, SaveFails, Exit
  <1> QED
    BY <1>1, <1>2, <1>4, <1>5, <1>6 DEF Next, Environment, Goroutines, Crash, AdapterPanic

\* No step takes rows away, and a start counts them.
LEMMA OldRowsStep ==
    ASSUME TypeOK, ControlInv, Next
    PROVE  OldRowsStay'
  <1> USE DEF source, ingest, lanes, money, log, memory, durable
  <1>0. since \in Nat /\ since <= Len(db.events) /\ IsStore(db) /\ db.events \in Seq(Events)
    BY StoreFacts DEF TypeOK, ControlInv, OldRowsStay
  <1>1. ASSUME since' = since, Len(db'.events) >= Len(db.events), Len(db'.events) \in Nat
        PROVE  OldRowsStay'
    BY <1>0, <1>1 DEF OldRowsStay
  <1>2. CASE Start
    <2>1. Len(db.events) \in Nat /\ since' = Len(db.events) /\ db' = db
      BY <1>0, <1>2 DEF Start
    <2> QED  BY <2>1 DEF OldRowsStay
  <1>3. CASE SavePortfolioStep
    <2>1. db'.events = db.events /\ since' = since
      BY <1>0, <1>3, StoreFacts DEF SavePortfolioStep, TypeOK
    <2> QED  BY <1>0, <2>1 DEF OldRowsStay
  <1>4. ASSUME NEW w \in Writers, AppendRow(w) PROVE OldRowsStay'
    <2>1. since' = since
      BY <1>4 DEF AppendRow, AppendReturns
    <2>2. db'.events = Append(db.events, pending[w]) /\ pending[w] \in Events
      BY <1>4, WriterTypes DEF AppendRow
    <2>3. Len(db'.events) = Len(db.events) + 1 /\ Len(db.events) \in Nat
      BY <1>0, <2>2, AppendFacts
    <2> QED  BY <1>1, <2>1, <2>3
  <1>5. ASSUME db' = db, since' = since PROVE OldRowsStay'
    BY <1>5 DEF ControlInv, OldRowsStay
  <1>6. ASSUME NEW how, Die(how) PROVE OldRowsStay'
    BY <1>6, DieControl DEF ControlInv
  <1>7. CASE Signal \/ Goroutines
    <2>1. ASSUME NEW a \in Adapters, AdapterPanic(a) PROVE OldRowsStay'
      BY <1>6, <2>1 DEF AdapterPanic
    <2> QED  BY <1>5, <1>7, <2>1
             DEF Signal, Goroutines, AdapterRead, AdapterSend, AdapterReturn, LaneRecord, LaneApply,
                 CloseRaw, Ingest, OverloadInvalidate, OverloadRecord
  <1>8. ASSUME NEW w \in Writers, AppendFails(w) PROVE OldRowsStay'
    BY <1>5, <1>8 DEF AppendFails, AppendReturns
  <1>9. CASE Main
    BY <1>3, <1>5, <1>6, <1>9 DEF Main, EvaluateOnce, Settle, RecordEvent, EndLoop, SourceDone,
                                  SaveFails, Exit
  <1> QED
    BY <1>2, <1>4, <1>6, <1>7, <1>8, <1>9 DEF Next, Environment, Sink, Crash

\* The control invariant is inductive.
LEMMA ControlStep == TypeOK /\ ControlInv /\ [Next]_vars => ControlInv'
  <1>1. CASE Next
    BY <1>1, AppendsStep, TodoStep, OffStep, OldRowsStep DEF ControlInv
  <1>2. CASE UNCHANGED vars
    BY <1>2 DEF vars, memory, source, ingest, lanes, money, log, durable, ControlInv, OffIsClean,
                AppendsMatchWriters, TodoIsTheRest, OldRowsStay
  <1> QED  BY <1>1, <1>2

\* It holds before the first start.
LEMMA ControlInit == Init => ControlInv
  <1> SUFFICES ASSUME Init PROVE ControlInv
    OBVIOUS
  <1>1. OffIsClean /\ TodoIsTheRest /\ OldRowsStay
    BY DEF Init, OffIsClean, TodoIsTheRest, OldRowsStay, Migrate
  <1>2. /\ pc = "off" /\ fanin = "receive" /\ \A a \in Adapters : lane[a] = "select"
        /\ \A w \in Writers : pending[w] = NoEvent
    BY DEF Init, All
  <1>3. AppendsMatchWriters
    BY <1>2 DEF AppendsMatchWriters, Writers, NoEvent
  <1> QED  BY <1>1, <1>3 DEF ControlInv

TypeInv == TypeOK /\ ControlInv

\* Types and control together.
LEMMA TypeInvariant == Spec => []TypeInv
  BY InitType, ControlInit, TypeStep, ControlStep, PTL DEF Spec, TypeInv

\* Lifecycle is type correct through any number of runs, crashes and faults;
\* in particular the raw channel never exceeds its capacity, and the main
\* goroutine never journals an event it does not have.
THEOREM LifecycleTypeCorrect == Spec => []TypeOK
  <1>1. TypeInv => TypeOK
    BY DEF TypeInv
  <1> QED  BY <1>1, TypeInvariant, PTL

-----------------------------------------------------------------------------
(* The rows of one run. *)

\* A start begins with no rows of its own behind those of earlier runs, and
\* afterwards only the sink adds rows.
LEMMA RunRowsFacts ==
    ASSUME TypeInv
    PROVE  /\ RunRows \in Seq(Events)
           /\ Start => RunRows' = <<>>
           /\ since' = since /\ db'.events = db.events => RunRows' = RunRows
           /\ \A w \in Writers : AppendRow(w) => RunRows' = Append(RunRows, pending[w])
           /\ \A w \in Writers : AppendFails(w) => RunRows' = RunRows
           /\ SavePortfolioStep => RunRows' = RunRows
  <1>0. /\ db.events \in Seq(Events) /\ since \in Nat /\ since <= Len(db.events)
        /\ IsStore(db) /\ ledger \in Ledgers
    BY StoreFacts DEF TypeInv, TypeOK, ControlInv, OldRowsStay
  <1>1. RunRows \in Seq(Events)
    BY <1>0, RestFacts DEF RunRows
  <1>2. ASSUME Start PROVE RunRows' = <<>>
    <2>1. since' = Len(db.events) /\ db' = db
      BY <1>2 DEF Start
    <2>2. RunRows' = SubSeq(db.events, Len(db.events) + 1, Len(db.events))
      BY <2>1 DEF RunRows
    <2> QED  BY <1>0, <2>2, RestFacts
  <1>3. since' = since /\ db'.events = db.events => RunRows' = RunRows
    BY DEF RunRows
  <1>4. ASSUME NEW w \in Writers, AppendRow(w) PROVE RunRows' = Append(RunRows, pending[w])
    <2>1. /\ db'.events = Append(db.events, pending[w]) /\ pending[w] \in Events
          /\ since' = since
      BY <1>4, WriterTypes DEF TypeInv, AppendRow, AppendReturns
    <2> DEFINE rows == db.events
               e == pending[w]
    <2>2. /\ RunRows' = SubSeq(Append(rows, e), since + 1, Len(Append(rows, e)))
          /\ RunRows = SubSeq(rows, since + 1, Len(rows))
      BY <2>1 DEF RunRows
    <2>3. rows \in Seq(Events) /\ e \in Events /\ since \in Nat /\ since <= Len(rows)
      BY <1>0, <2>1
    <2> HIDE DEF rows, e
    <2>4. SubSeq(Append(rows, e), since + 1, Len(Append(rows, e)))
             = Append(SubSeq(rows, since + 1, Len(rows)), e)
      BY <2>3, RestFacts
    <2> QED  BY <2>2, <2>4 DEF e
  <1>5. ASSUME NEW w \in Writers, AppendFails(w) PROVE RunRows' = RunRows
    BY <1>3, <1>5 DEF AppendFails, AppendReturns
  <1>6. ASSUME SavePortfolioStep PROVE RunRows' = RunRows
    <2>1. db'.events = db.events /\ since' = since
      BY <1>0, <1>6, StoreFacts DEF SavePortfolioStep
    <2> QED  BY <1>3, <2>1
  <1> QED  BY <1>1, <1>2, <1>3, <1>4, <1>5, <1>6

-----------------------------------------------------------------------------
(* The order of the stored journal.                                        *)
(*                                                                         *)
(* WriterOrderIsKept alone is not inductive: the next row of a writer is   *)
(* stored after its last one in the right order only because its number    *)
(* was given out later, which is what NumbersInv keeps of the time between *)
(* the locked section of RecordFull and the append.                        *)

OrderInv == TypeInv /\ NumbersInv /\ WriterOrderIsKept

\* Recording: the number is above every row's and every one in flight.
LEMMA RecordNumbers ==
    ASSUME OrderInv, NEW w \in Writers, NEW fill \in Fills \cup {NoFill}, Record(w, fill),
           pending[w] = NoEvent, pc # "off", RunRows' = RunRows
    PROVE  NumbersInv' /\ WriterOrderIsKept'
  <1>0. /\ journal \in Journals /\ RunRows \in Seq(Events)
        /\ pending \in [Writers -> Events \cup {NoEvent}]
    BY RunRowsFacts DEF OrderInv, TypeInv, TypeOK, Journals
  <1>1. /\ journal.seq \in Nat /\ journal'.seq = journal.seq + 1
        /\ pending'[w] = [id |-> journal.seq + 1, by |-> w, fill |-> fill]
        /\ \A x \in Writers \ {w} : pending'[x] = pending[x]
    BY <1>0, RecordFacts DEF Record, Journals
  <1>2. InFlight' \subseteq InFlight \cup {w} /\ w \notin InFlight
    BY <1>1 DEF InFlight
  <1>3. \A x \in InFlight : /\ x \in Writers /\ x # w /\ pending'[x] = pending[x]
                            /\ pending[x].id \in Nat /\ pending[x].id <= journal.seq
    BY <1>0, <1>1, <1>2 DEF InFlight, OrderInv, NumbersInv, Events
  <1>4. \A i \in DOMAIN RunRows : RunRows[i].id \in Nat /\ RunRows[i].id <= journal.seq
    <2>1. \A i \in DOMAIN RunRows : RunRows[i] \in Events
      BY <1>0
    <2> QED  BY <2>1 DEF OrderInv, NumbersInv, Events
  <1>5. pending'[w].id = journal.seq + 1
    BY <1>1
  <1>6. ASSUME NEW x \in InFlight'
        PROVE  /\ pending'[x].id <= journal'.seq
               /\ \A y \in InFlight' : pending'[y].id = pending'[x].id => y = x
               /\ \A i \in DOMAIN RunRows' :
                     /\ RunRows'[i].id # pending'[x].id
                     /\ RunRows'[i].by = x => RunRows'[i].id < pending'[x].id
    <2>1. CASE x = w
      BY <1>1, <1>2, <1>3, <1>4, <1>5, <2>1
    <2>2. CASE x # w
      <3>1. x \in InFlight
        BY <1>2, <1>6, <2>2
      <3>2. \A y \in InFlight' : pending'[y].id = pending'[x].id => y = x
        BY <1>1, <1>2, <1>3, <1>5, <3>1 DEF OrderInv, NumbersInv
      <3> QED  BY <1>1, <1>3, <3>1, <3>2 DEF OrderInv, NumbersInv
    <2> QED  BY <2>1, <2>2
  <1>7. \A i \in DOMAIN RunRows' : RunRows'[i].id <= journal'.seq
    BY <1>1, <1>4
  <1>8. WriterOrderIsKept'
    BY DEF OrderInv, WriterOrderIsKept
  <1> QED  BY <1>6, <1>7, <1>8 DEF NumbersInv

\* The return of an append, with or without a row.
LEMMA AppendNumbers ==
    ASSUME OrderInv, NEW w \in Writers, AppendRow(w) \/ AppendFails(w)
    PROVE  NumbersInv' /\ WriterOrderIsKept'
  <1> DEFINE e == pending[w]
  <1>0. /\ journal \in Journals /\ RunRows \in Seq(Events)
        /\ pending \in [Writers -> Events \cup {NoEvent}]
    BY RunRowsFacts DEF OrderInv, TypeInv, TypeOK, Journals
  <1>1. /\ AppendReturns(w) /\ e # NoEvent /\ e \in Events /\ e.by = w /\ w \in InFlight
    BY WriterTypes DEF AppendRow, AppendFails, OrderInv, TypeInv, ControlInv,
                       AppendsMatchWriters, InFlight
  <1>2. /\ pending'[w] = NoEvent /\ journal' = journal
        /\ \A x \in Writers \ {w} : pending'[x] = pending[x]
    BY <1>0, <1>1 DEF AppendReturns
  <1>3. InFlight' \subseteq InFlight \ {w} /\ InFlight \subseteq Writers
    BY <1>2 DEF InFlight
  <1>4. pc # "off"
    <2>1. pc = "off" => pending[w] = NoEvent
      BY DEF OrderInv, TypeInv, ControlInv, OffIsClean, All
    <2> QED  BY <1>1, <2>1
  <1>5. ASSUME NEW q, q = RunRows \/ q = Append(RunRows, e), RunRows' = q
        PROVE  NumbersInv' /\ WriterOrderIsKept'
    <2>1. \A i \in DOMAIN q : \/ i \in DOMAIN RunRows /\ q[i] = RunRows[i]
                              \/ i = Len(RunRows) + 1 /\ q[i] = e
      BY <1>0, <1>1, <1>5, AppendFacts
    <2>2. \A i \in DOMAIN RunRows : i \in Nat /\ i < Len(RunRows) + 1
      BY <1>0
    <2>3. \A x \in InFlight : pending[x].id <= journal.seq
      BY DEF OrderInv, NumbersInv
    <2>4. \A i \in DOMAIN RunRows : RunRows[i].id <= journal.seq
      BY <1>4 DEF OrderInv, NumbersInv
    <2>5. \A i \in DOMAIN q : q[i].id <= journal.seq
      BY <1>1, <2>1, <2>3, <2>4
    <2>6. ASSUME NEW x \in InFlight'
          PROVE  /\ pending'[x].id <= journal'.seq
                 /\ \A y \in InFlight' : pending'[y].id = pending'[x].id => y = x
                 /\ \A i \in DOMAIN RunRows' :
                       /\ RunRows'[i].id # pending'[x].id
                       /\ RunRows'[i].by = x => RunRows'[i].id < pending'[x].id
      <3>1. x \in InFlight /\ x # w /\ pending'[x] = pending[x]
        BY <1>2, <1>3, <2>6
      <3>2. \A y \in InFlight' : y \in InFlight /\ pending'[y] = pending[y]
        BY <1>2, <1>3
      <3>3. e.id # pending[x].id
        BY <1>1, <3>1 DEF OrderInv, NumbersInv
      <3>4. \A i \in DOMAIN RunRows :
                /\ RunRows[i].id # pending[x].id
                /\ RunRows[i].by = x => RunRows[i].id < pending[x].id
        BY <3>1 DEF OrderInv, NumbersInv
      <3>5. \A y \in InFlight' : pending'[y].id = pending'[x].id => y = x
        BY <3>1, <3>2 DEF OrderInv, NumbersInv
      <3> QED  BY <1>1, <1>2, <1>5, <2>1, <2>3, <3>1, <3>3, <3>4, <3>5
    <2>7. NumbersInv'
      BY <1>2, <1>5, <2>5, <2>6 DEF NumbersInv
    <2>8. WriterOrderIsKept'
      <3> SUFFICES ASSUME NEW i \in DOMAIN q, NEW j \in DOMAIN q, i < j
                   PROVE  q[i].id # q[j].id /\ (q[i].by = q[j].by => q[i].id < q[j].id)
        BY <1>5 DEF WriterOrderIsKept
      <3>1. CASE j \in DOMAIN RunRows /\ q[j] = RunRows[j]
        <4>1. i \in DOMAIN RunRows /\ q[i] = RunRows[i]
          BY <1>0, <2>1, <2>2, <3>1
        <4> QED  BY <3>1, <4>1 DEF OrderInv, WriterOrderIsKept
      <3>2. CASE j = Len(RunRows) + 1 /\ q[j] = e
        <4>1. i \in DOMAIN RunRows /\ q[i] = RunRows[i]
          BY <1>0, <2>1, <2>2, <3>2
        <4>2. RunRows[i].id # e.id /\ (RunRows[i].by = w => RunRows[i].id < e.id)
          BY <1>1, <4>1 DEF OrderInv, NumbersInv
        <4> QED  BY <1>1, <3>2, <4>1, <4>2
      <3> QED  BY <2>1, <3>1, <3>2
    <2> QED  BY <2>7, <2>8
  <1>6. RunRows' = RunRows \/ RunRows' = Append(RunRows, e)
    BY RunRowsFacts DEF OrderInv
  <1> QED  BY <1>5, <1>6

\* Every step keeps the numbers and the order.
LEMMA OrderStep ==
    ASSUME OrderInv, [Next]_vars
    PROVE  OrderInv'
  <1> USE DEF source, ingest, lanes, money, log, memory, durable
  <1>0. TypeOK /\ ControlInv /\ NumbersInv /\ WriterOrderIsKept /\ TypeInv /\ TypeInv'
    BY TypeStep, ControlStep DEF OrderInv, TypeInv, TypeOK
  <1> SUFFICES NumbersInv' /\ WriterOrderIsKept'
    BY <1>0 DEF OrderInv
  <1>1. ASSUME pending' = pending, journal' = journal, since' = since, db'.events = db.events,
               pc' # "off" => pc # "off"
        PROVE  NumbersInv' /\ WriterOrderIsKept'
    <2>1. InFlight' = InFlight
      BY <1>1 DEF InFlight
    <2>2. RunRows' = RunRows
      BY <1>0, <1>1, RunRowsFacts
    <2> QED  BY <1>0, <1>1, <2>1, <2>2 DEF NumbersInv, WriterOrderIsKept
  <1>2. CASE pc = "off" /\ Next
    <2>1. Start
      BY <1>0, <1>2, OffOnlyStarts DEF ControlInv
    <2>2. \A w \in Writers : pending'[w] = NoEvent
      BY <1>0, <1>2, <2>1 DEF Start, ControlInv, OffIsClean, All
    <2>3. RunRows' = <<>>
      BY <1>0, <2>1, RunRowsFacts
    <2> QED  BY <2>2, <2>3 DEF NumbersInv, WriterOrderIsKept, InFlight
  <1>3. ASSUME NEW how, Die(how) PROVE NumbersInv' /\ WriterOrderIsKept'
    <2>1. \A w \in Writers : pending'[w] = NoEvent
      BY <1>3 DEF Die, All
    <2>2. pc' = "off" /\ RunRows' = RunRows
      BY <1>0, <1>3, RunRowsFacts DEF Die
    <2> QED  BY <1>0, <2>1, <2>2 DEF NumbersInv, WriterOrderIsKept, InFlight
  <1>4. CASE pc # "off" /\ (Signal \/ CloseRaw \/ Ingest \/ OverloadInvalidate)
    BY <1>1, <1>4 DEF Signal, CloseRaw, Ingest, OverloadInvalidate
  <1>5. ASSUME NEW a \in Adapters, pc # "off",
               \/ AdapterRead(a) \/ AdapterSend(a) \/ AdapterReturn(a)
               \/ \E next \in {"journal", "select"}, isReady \in BOOLEAN : LaneApply(a, next, isReady)
        PROVE  NumbersInv' /\ WriterOrderIsKept'
    BY <1>1, <1>5 DEF AdapterRead, AdapterSend, AdapterReturn, LaneApply
  <1>6. ASSUME NEW a \in Adapters, pc # "off", LaneRecord(a)
        PROVE  NumbersInv' /\ WriterOrderIsKept'
    <2>1. a \in Writers /\ pending[a] = NoEvent
      BY <1>0, <1>6 DEF LaneRecord, ControlInv, AppendsMatchWriters, Writers
    <2>2. RunRows' = RunRows
      BY <1>0, <1>6, RunRowsFacts DEF LaneRecord
    <2> QED  BY <1>6, <2>1, <2>2, RecordNumbers DEF LaneRecord
  <1>15. CASE pc # "off" /\ OverloadRecord
    <2>1. FanIn \in Writers /\ pending[FanIn] = NoEvent
      BY <1>0, <1>15 DEF OverloadRecord, ControlInv, AppendsMatchWriters, Writers
    <2>2. RunRows' = RunRows
      BY <1>0, <1>15, RunRowsFacts DEF OverloadRecord
    <2> QED  BY <1>15, <2>1, <2>2, RecordNumbers DEF OverloadRecord
  <1>7. CASE RecordEvent
    <2>1. Engine \in Writers /\ pending[Engine] = NoEvent /\ Head(todo) \in Fills \cup {NoFill}
      BY <1>0, <1>7, TailFacts DEF RecordEvent, ControlInv, AppendsMatchWriters, Writers,
                                   TypeOK, TodoIsTheRest
    <2>2. RunRows' = RunRows
      BY <1>0, <1>7, RunRowsFacts DEF RecordEvent
    <2> QED  BY <1>7, <2>1, <2>2, RecordNumbers DEF RecordEvent
  <1>8. CASE Sink
    BY <1>8, AppendNumbers DEF Sink
  <1>9. ASSUME NEW t \in Trades \cup {NoTrade}, EvaluateOnce(t) PROVE NumbersInv' /\ WriterOrderIsKept'
    BY <1>1, <1>9 DEF EvaluateOnce
  <1>10. ASSUME NEW ok \in BOOLEAN, Settle(ok) PROVE NumbersInv' /\ WriterOrderIsKept'
    BY <1>1, <1>10 DEF Settle
  <1>11. CASE EndLoop \/ SourceDone \/ SaveFails
    BY <1>1, <1>11 DEF EndLoop, SourceDone, SaveFails
  <1>12. CASE SavePortfolioStep
    <2>1. db'.events = db.events
      BY <1>0, <1>12, StoreFacts DEF SavePortfolioStep, TypeOK
    <2> QED  BY <1>1, <1>12, <2>1 DEF SavePortfolioStep
  <1>13. CASE UNCHANGED vars
    BY <1>1, <1>13 DEF vars
  <1>14. CASE pc # "off" /\ Next
    BY <1>3, <1>4, <1>5, <1>6, <1>7, <1>8, <1>9, <1>10, <1>11, <1>12, <1>14, <1>15
    DEF Next, Environment, Goroutines, Main, Crash, AdapterPanic, Exit, Start
  <1> QED  BY <1>2, <1>13, <1>14

\* Whatever the interleaving of the goroutines, which write the sink outside
\* the journal's mutex, and whatever earlier runs have stored: no number is
\* stored twice in one run and the rows of one goroutine are stored in the
\* order it recorded them.
THEOREM StoredOrder == Spec => []WriterOrderIsKept
  <1>1. Init => OrderInv
    <2>1. Init => NumbersInv
      <3>1. Init => RunRows = <<>>
        BY DEF Init, RunRows, Migrate
      <3> QED  BY <3>1 DEF Init, NumbersInv, InFlight, All
    <2>2. Init => WriterOrderIsKept
      <3>1. Init => RunRows = <<>>
        BY DEF Init, RunRows, Migrate
      <3> QED  BY <3>1 DEF WriterOrderIsKept
    <2> QED  BY <2>1, <2>2, InitType, ControlInit DEF OrderInv, TypeInv
  <1>2. OrderInv /\ [Next]_vars => OrderInv'
    BY OrderStep
  <1>3. OrderInv => WriterOrderIsKept
    BY DEF OrderInv
  <1> QED  BY <1>1, <1>2, <1>3, PTL DEF Spec

-----------------------------------------------------------------------------
(* The final save. *)

SaveInv == TypeInv /\ SavedInv /\ SavedPortfolioIsFinal

\* Every step keeps what was saved.
LEMMA SaveStep ==
    ASSUME SaveInv, [Next]_vars
    PROVE  SaveInv'
  <1> USE DEF source, ingest, lanes, money, log, memory, durable
  <1>0. TypeOK /\ ControlInv /\ SavedInv /\ SavedPortfolioIsFinal /\ IsStore(db) /\ TypeInv'
    BY TypeStep, ControlStep DEF SaveInv, TypeInv, TypeOK
  <1> SUFFICES SavedInv' /\ SavedPortfolioIsFinal'
    BY <1>0 DEF SaveInv
  <1>1. ASSUME pc # "off", last' = last, pc' # "close"
        PROVE  SavedInv' /\ SavedPortfolioIsFinal'
    BY <1>0, <1>1 DEF SavedInv, SavedPortfolioIsFinal
  <1>2. ASSUME pc # "off", last' = last, pc' = pc, ledger' = ledger,
               db'.balances = db.balances, db'.positions = db.positions
        PROVE  SavedInv' /\ SavedPortfolioIsFinal'
    BY <1>0, <1>2 DEF SavedInv, SavedPortfolioIsFinal
  <1>3. CASE pc = "off" /\ Next
    <2>1. Start
      BY <1>0, <1>3, OffOnlyStarts DEF ControlInv
    <2>2. pc' = "loop" /\ ~last'.saved
      BY <2>1 DEF Start, NoRun
    <2> QED  BY <2>2 DEF SavedInv, SavedPortfolioIsFinal
  <1>4. ASSUME NEW how, Die(how) PROVE SavedInv' /\ SavedPortfolioIsFinal'
    <2>1. /\ last'.saved = (pc = "close") /\ last'.ledger = ledger
          /\ pc' = "off" /\ db' = db
      BY <1>4 DEF Die
    <2> QED  BY <1>0, <2>1 DEF SavedInv, SavedPortfolioIsFinal
  <1>5. CASE pc # "off" /\ (\/ Signal \/ CloseRaw
                           \/ Ingest \/ OverloadInvalidate \/ OverloadRecord)
    BY <1>2, <1>5 DEF Signal, CloseRaw, Ingest, OverloadInvalidate, OverloadRecord
  <1>6. ASSUME NEW a \in Adapters, pc # "off",
               \/ AdapterRead(a) \/ AdapterSend(a) \/ AdapterReturn(a) \/ LaneRecord(a)
               \/ \E next \in {"journal", "select"}, isReady \in BOOLEAN : LaneApply(a, next, isReady)
        PROVE  SavedInv' /\ SavedPortfolioIsFinal'
    BY <1>2, <1>6 DEF AdapterRead, AdapterSend, AdapterReturn, LaneRecord, LaneApply
  <1>7. ASSUME NEW w \in Writers, pc # "off", AppendRow(w) \/ AppendFails(w)
        PROVE  SavedInv' /\ SavedPortfolioIsFinal'
    <2>1. AppendReturns(w) /\ pending[w] # NoEvent /\ last' = last /\ ledger' = ledger
      BY <1>7 DEF AppendRow, AppendFails, AppendReturns
    <2>2. db'.balances = db.balances /\ db'.positions = db.positions
      BY <1>0, <1>7, WriterTypes DEF AppendRow, AppendFails
    <2>3. pc' = pc \/ pc' # "close"
      BY <2>1 DEF AppendReturns
    <2> QED  BY <1>1, <1>2, <1>7, <2>1, <2>2, <2>3
  <1>8. CASE SavePortfolioStep
    <2>1. ledger' = ledger /\ last' = last /\ ~last.saved /\ pc' = "close"
      BY <1>0, <1>8 DEF SavePortfolioStep, SavedInv
    <2>2. /\ db'.balances = ledger.bal
          /\ \A v \in Adapters : ledger.pos[v] # 0 => db'.positions[v] = ledger.pos[v]
      BY <1>0, <1>8, StoreFacts DEF SavePortfolioStep, TypeOK
    <2> QED  BY <2>1, <2>2 DEF SavedInv, SavedPortfolioIsFinal
  <1>9. ASSUME NEW t \in Trades \cup {NoTrade}, EvaluateOnce(t)
        PROVE  SavedInv' /\ SavedPortfolioIsFinal'
    BY <1>1, <1>9 DEF EvaluateOnce
  <1>10. ASSUME NEW ok \in BOOLEAN, Settle(ok) PROVE SavedInv' /\ SavedPortfolioIsFinal'
    BY <1>1, <1>10 DEF Settle
  <1>11. CASE RecordEvent \/ EndLoop \/ SourceDone \/ SaveFails
    BY <1>1, <1>11 DEF RecordEvent, EndLoop, SourceDone, SaveFails
  <1>12. CASE UNCHANGED vars
    BY <1>0, <1>12 DEF vars, SavedInv, SavedPortfolioIsFinal
  <1>13. CASE pc # "off" /\ Next
    BY <1>4, <1>5, <1>6, <1>7, <1>8, <1>9, <1>10, <1>11, <1>13
    DEF Next, Environment, Goroutines, Sink, Main, Crash, AdapterPanic, Exit, Start
  <1> QED  BY <1>3, <1>12, <1>13

\* The invariant of the save.
LEMMA SaveInvariant == Spec => []SaveInv
  <1>1. Init => SaveInv
    <2>1. Init => SavedInv /\ SavedPortfolioIsFinal
      BY DEF Init, SavedInv, SavedPortfolioIsFinal, NoRun
    <2> QED  BY <2>1, InitType, ControlInit DEF SaveInv, TypeInv
  <1>2. SaveInv /\ [Next]_vars => SaveInv'
    BY SaveStep
  <1> QED  BY <1>1, <1>2, PTL DEF Spec

\* Over whatever rows earlier runs have left, and whatever the lanes append
\* in the meantime, a run that saved leaves its final ledger in the tables.
THEOREM SaveIsFinal == Spec => []SavedPortfolioIsFinal
  <1>1. SaveInv => SavedPortfolioIsFinal
    BY DEF SaveInv
  <1> QED  BY <1>1, SaveInvariant, PTL
-----------------------------------------------------------------------------
(* How far the store trails the memory. *)

TrailInv == TypeInv /\ JournalTrailsByOnePerWriter

\* Every step keeps the count, as long as the journal is not trimmed.
LEMMA TrailStep ==
    ASSUME MaxEvents = 0, TrailInv, [Next]_vars
    PROVE  TrailInv'
  <1> USE DEF source, ingest, lanes, money, log, memory, durable
  <1> DEFINE Trail == Len(journal.events) = Len(RunRows) + lost + Cardinality(InFlight)
  <1>0. /\ TypeInv /\ TypeOK /\ ControlInv /\ IsStore(db) /\ TypeInv'
        /\ journal \in Journals /\ RunRows \in Seq(Events) /\ lost \in Nat
        /\ pending \in [Writers -> Events \cup {NoEvent}]
    BY TypeStep, ControlStep, RunRowsFacts DEF TrailInv, TypeInv, TypeOK, Journals
  <1>1. JournalTrailsByOnePerWriter <=> (pc # "off" => Trail)
    BY DEF JournalTrailsByOnePerWriter, InFlight
  <1>2. pc # "off" => Trail
    BY <1>1 DEF TrailInv
  <1>3. (pc' # "off" => Trail') => JournalTrailsByOnePerWriter'
    BY DEF JournalTrailsByOnePerWriter, InFlight
  <1>4. /\ IsFiniteSet(Writers) /\ IsFiniteSet(InFlight) /\ Cardinality(InFlight) \in Nat
        /\ InFlight \subseteq Writers
    <2>1. IsFiniteSet(Adapters \cup {Engine}) /\ Writers = (Adapters \cup {Engine}) \cup {FanIn}
      BY LifecycleAssumption, FS_AddElement DEF Writers
    <2>2. IsFiniteSet(Writers)
      BY <2>1, FS_AddElement
    <2> QED  BY <2>2, FS_Subset, FS_CardinalityType DEF InFlight
  <1> SUFFICES pc' # "off" => Trail'
    BY <1>0, <1>3 DEF TrailInv
  <1>5. ASSUME pc # "off", pending' = pending, Len(journal'.events) = Len(journal.events),
               since' = since, db'.events = db.events, lost' = lost
        PROVE  Trail'
    <2>1. InFlight' = InFlight
      BY <1>5 DEF InFlight
    <2>2. RunRows' = RunRows
      BY <1>0, <1>5, RunRowsFacts
    <2> QED  BY <1>2, <1>5, <2>1, <2>2
  <1>6. CASE pc = "off" /\ Next
    <2>1. Start
      BY <1>0, <1>6, OffOnlyStarts DEF ControlInv
    <2>2. journal'.events = <<>> /\ lost' = 0
      BY <1>0, <1>6, <2>1 DEF Start, ControlInv, OffIsClean, NewJournal
    <2>3. InFlight' = {}
      BY <1>0, <1>6, <2>1 DEF Start, ControlInv, OffIsClean, All, InFlight
    <2>4. RunRows' = <<>>
      BY <1>0, <2>1, RunRowsFacts
    <2>5. Cardinality(InFlight') = 0
      BY <2>3, FS_EmptySet
    <2> QED  BY <2>2, <2>4, <2>5
  <1>7. ASSUME NEW w \in Writers, NEW fill \in Fills \cup {NoFill}, Record(w, fill),
               pending[w] = NoEvent, pc # "off", RunRows' = RunRows, lost' = lost
        PROVE  Trail'
    <2>1. /\ Len(journal'.events) = Len(journal.events) + 1
          /\ pending'[w] = [id |-> journal.seq + 1, by |-> w, fill |-> fill]
          /\ \A x \in Writers \ {w} : pending'[x] = pending[x]
      BY <1>0, <1>7, RecordFacts DEF Record
    <2>2. pending'[w] # NoEvent
      BY <1>0, <2>1, NewEvent DEF Journals
    <2>3. InFlight' = InFlight \cup {w} /\ w \notin InFlight
      BY <1>7, <2>1, <2>2 DEF InFlight
    <2>4. Cardinality(InFlight') = Cardinality(InFlight) + 1
      BY <1>4, <2>3, FS_AddElement
    <2> QED  BY <1>0, <1>2, <1>4, <1>7, <2>1, <2>4 DEF Journals
  <1>8. ASSUME NEW w \in Writers, pc # "off", AppendRow(w) \/ AppendFails(w)
        PROVE  Trail'
    <2>1. AppendReturns(w) /\ pending[w] # NoEvent /\ journal' = journal
      BY <1>8 DEF AppendRow, AppendFails, AppendReturns
    <2>2. InFlight' = InFlight \ {w} /\ w \in InFlight
      BY <1>0, <2>1 DEF AppendReturns, InFlight
    <2>3. Cardinality(InFlight') = Cardinality(InFlight) - 1
      BY <1>4, <2>2, FS_RemoveElement
    <2>4. Len(RunRows) \in Nat /\ pending[w] \in Events
      BY <1>0, <2>1
    <2>5. Len(Append(RunRows, pending[w])) = Len(RunRows) + 1
      BY <1>0, <2>4
    <2>6. AppendRow(w) => Len(RunRows') = Len(RunRows) + 1 /\ lost' = lost
      <3>1. AppendRow(w) => RunRows' = Append(RunRows, pending[w]) /\ lost' = lost
        BY <1>0, <1>8, RunRowsFacts DEF AppendRow
      <3> QED  BY <3>1, <2>5
    <2>7. AppendFails(w) => Len(RunRows') = Len(RunRows) /\ lost' = lost + 1
      BY <1>0, RunRowsFacts DEF AppendFails
    <2>8. Len(RunRows') + lost' = Len(RunRows) + lost + 1
      BY <1>0, <1>8, <2>4, <2>6, <2>7
    <2>9. Len(journal'.events) = Len(journal.events) /\ Len(RunRows') + lost' \in Nat
      BY <1>0, <2>1, <2>4, <2>8
    <2> QED  BY <1>0, <1>2, <1>4, <1>8, <2>3, <2>4, <2>8, <2>9
  <1>9. CASE pc # "off" /\ (Signal \/ CloseRaw \/ Ingest \/ OverloadInvalidate)
    BY <1>5, <1>9 DEF Signal, CloseRaw, Ingest, OverloadInvalidate
  <1>10. ASSUME NEW a \in Adapters, pc # "off",
               \/ AdapterRead(a) \/ AdapterSend(a) \/ AdapterReturn(a)
               \/ \E next \in {"journal", "select"}, isReady \in BOOLEAN : LaneApply(a, next, isReady)
        PROVE  Trail'
    BY <1>5, <1>10 DEF AdapterRead, AdapterSend, AdapterReturn, LaneApply
  <1>11. ASSUME NEW a \in Adapters, pc # "off", LaneRecord(a) PROVE Trail'
    <2>1. a \in Writers /\ pending[a] = NoEvent
      BY <1>0, <1>11 DEF LaneRecord, ControlInv, AppendsMatchWriters, Writers
    <2>2. RunRows' = RunRows
      BY <1>0, <1>11, RunRowsFacts DEF LaneRecord
    <2> QED  BY <1>7, <1>11, <2>1, <2>2 DEF LaneRecord
  <1>20. ASSUME pc # "off", OverloadRecord PROVE Trail'
    <2>1. FanIn \in Writers /\ pending[FanIn] = NoEvent
      BY <1>0, <1>20 DEF OverloadRecord, ControlInv, AppendsMatchWriters, Writers
    <2>2. RunRows' = RunRows
      BY <1>0, <1>20, RunRowsFacts DEF OverloadRecord
    <2> QED  BY <1>7, <1>20, <2>1, <2>2 DEF OverloadRecord
  <1>12. CASE RecordEvent
    <2>1. Engine \in Writers /\ pending[Engine] = NoEvent /\ Head(todo) \in Fills \cup {NoFill}
      BY <1>0, <1>12, TailFacts DEF RecordEvent, ControlInv, AppendsMatchWriters, Writers,
                                    TypeOK, TodoIsTheRest
    <2>2. RunRows' = RunRows
      BY <1>0, <1>12, RunRowsFacts DEF RecordEvent
    <2> QED  BY <1>7, <1>12, <2>1, <2>2 DEF RecordEvent
  <1>13. ASSUME NEW how, Die(how) PROVE pc' = "off"
    BY <1>13 DEF Die
  <1>14. ASSUME NEW t \in Trades \cup {NoTrade}, EvaluateOnce(t) PROVE Trail'
    BY <1>5, <1>14 DEF EvaluateOnce
  <1>15. ASSUME NEW ok \in BOOLEAN, Settle(ok) PROVE Trail'
    BY <1>5, <1>15 DEF Settle
  <1>16. CASE EndLoop \/ SourceDone \/ SaveFails
    BY <1>5, <1>16 DEF EndLoop, SourceDone, SaveFails
  <1>17. CASE SavePortfolioStep
    <2>1. db'.events = db.events
      BY <1>0, <1>17, StoreFacts DEF SavePortfolioStep, TypeOK
    <2> QED  BY <1>5, <1>17, <2>1 DEF SavePortfolioStep
  <1>18. CASE UNCHANGED vars
    BY <1>5, <1>18 DEF vars
  <1> HIDE DEF Trail
  <1>19. CASE pc # "off" /\ Next
    BY <1>8, <1>9, <1>10, <1>11, <1>12, <1>13, <1>14, <1>15, <1>16, <1>17, <1>19, <1>20
    DEF Next, Environment, Goroutines, Sink, Main, Crash, AdapterPanic, Exit, Start
  <1> QED  BY <1>6, <1>18, <1>19

\* With the unbounded journal the program runs with, the store lacks exactly
\* the failed appends and one event for each goroutine that is in an append:
\* this is all that a crash at any point can lose.
THEOREM CrashLosesOnePerWriter ==
    ASSUME MaxEvents = 0
    PROVE  Spec => []JournalTrailsByOnePerWriter
  <1>1. Init => TrailInv
    <2>1. Init => JournalTrailsByOnePerWriter
      BY DEF Init, JournalTrailsByOnePerWriter
    <2> QED  BY <2>1, InitType, ControlInit DEF TrailInv, TypeInv
  <1>2. TrailInv /\ [Next]_vars => TrailInv'
    BY TrailStep
  <1>3. TrailInv => JournalTrailsByOnePerWriter
    BY DEF TrailInv
  <1> QED  BY <1>1, <1>2, <1>3, PTL DEF Spec
-----------------------------------------------------------------------------
(* The stored fills and the stored balances. *)

BalanceInv == SaveInv /\ BooksInv /\ StoredFillsExplainBalances

\* One more row is one more row of its own fill.
LEMMA RowsAppend ==
    ASSUME NEW s \in Seq(Events), NEW e \in Events, NEW f
    PROVE  /\ Cardinality(Rows(s, f)) \in Nat
           /\ Cardinality(Rows(<<>>, f)) = 0
           /\ Cardinality(Rows(Append(s, e), f)) = Cardinality(Rows(s, f)) + (IF e.fill = f THEN 1 ELSE 0)
  <1>1. IsFiniteSet(Rows(s, f))
    <2>1. DOMAIN s = 1..Len(s) /\ Len(s) \in Int /\ 1 \in Int
      OBVIOUS
    <2>2. IsFiniteSet(DOMAIN s)
      BY <2>1, FS_Interval
    <2> QED  BY <2>2, FS_Subset DEF Rows
  <1>2. Cardinality(Rows(s, f)) \in Nat
    BY <1>1, FS_CardinalityType
  <1>3. Rows(<<>>, f) = {}
    BY DEF Rows
  <1>4. Cardinality(Rows(<<>>, f)) = 0
    BY <1>3, FS_EmptySet
  <1>5. CASE e.fill = f
    <2>1. Rows(Append(s, e), f) = Rows(s, f) \cup {Len(s) + 1} /\ Len(s) + 1 \notin Rows(s, f)
      BY <1>5, AppendFacts DEF Rows
    <2>2. Cardinality(Rows(Append(s, e), f)) = Cardinality(Rows(s, f)) + 1
      BY <1>1, <2>1, FS_AddElement
    <2> QED  BY <1>2, <1>4, <1>5, <2>2
  <1>6. CASE e.fill # f
    <2>1. Rows(Append(s, e), f) = Rows(s, f)
      BY <1>6, AppendFacts DEF Rows
    <2> QED  BY <1>2, <1>4, <1>6, <2>1
  <1> QED  BY <1>5, <1>6

\* What a set of fills moves is what each of them moves.
LEMMA MovedFacts ==
    ASSUME NEW v \in Adapters
    PROVE  /\ Moved({}, v) = 0
           /\ \A S, h : h \in S => Moved(S, v) = Moved(S \ {h}, v) + Moved({h}, v)
           /\ \A S : Moved(S \cup {NoFill}, v) = Moved(S, v)
           /\ Moved({NoFill}, v) = 0
           /\ \A h : Moved({h}, v) = (IF h = Buy(v) THEN 1 ELSE 0) - (IF h = Sell(v) THEN 1 ELSE 0)
  <1>1. Buy(v) # Sell(v) /\ Buy(v) # NoFill /\ Sell(v) # NoFill
    BY DEF Buy, Sell, NoFill
  <1> QED  BY <1>1 DEF Moved

\* Every step keeps the stored fills in step with the ledger.
LEMMA BalanceStep ==
    ASSUME BalanceInv, [Next]_vars
    PROVE  BalanceInv'
  <1> USE DEF source, ingest, lanes, money, log, memory, durable
  <1> DEFINE Open == pc # "off" /\ lost = 0 /\ ~refused
             Even(v) == Seed[v] + StoredFills(v) + Moved(Legs(todo), v)
                            = ledger.bal[v] + Moved(Legs(trade), v)
             Goal == BooksInv' /\ StoredFillsExplainBalances'
  <1>0. /\ TypeInv /\ TypeOK /\ ControlInv /\ SavedInv /\ IsStore(db) /\ SaveInv'
        /\ RunRows \in Seq(Events) /\ ledger \in Ledgers /\ lost \in Nat
        /\ pending \in [Writers -> Events \cup {NoEvent}]
        /\ todo \in Seq(Fills \cup {NoFill})
    BY SaveStep, RunRowsFacts DEF BalanceInv, SaveInv, TypeInv, TypeOK
  <1>1. Open => \A v \in Adapters : Even(v)
    BY DEF BalanceInv, BooksInv
  <1>2. \A v \in Adapters : /\ StoredFills(v) \in Int /\ Seed[v] \in Int /\ ledger.bal[v] \in Int
                            /\ Moved(Legs(todo), v) \in Int /\ Moved(Legs(trade), v) \in Int
    <2> SUFFICES ASSUME NEW v \in Adapters PROVE StoredFills(v) \in Int
      BY <1>0, LedgerFacts, LifecycleAssumption DEF Ledgers
    <2>1. \A f : Cardinality(Rows(RunRows, f)) \in Nat
      <3>1. NoEvent \in Events
        BY DEF NoEvent, Events, Writers
      <3> QED  BY <1>0, <3>1, RowsAppend
    <2> QED  BY <2>1 DEF StoredFills
  <1> SUFFICES Goal
    BY <1>0 DEF BalanceInv
  <1>3. ASSUME pc' # "off", Open' => \A v \in Adapters : Even(v)'
        PROVE  Goal
    BY <1>3 DEF BooksInv, StoredFillsExplainBalances
  <1>4. ASSUME pc # "off", pc' # "off", lost' = lost, refused' = refused, since' = since, db'.events = db.events,
               todo' = todo, trade' = trade, ledger' = ledger
        PROVE  Goal
    <2>2. RunRows' = RunRows
      BY <1>0, <1>4, RunRowsFacts
    <2>1. \A v \in Adapters : Even(v)' <=> Even(v)
      BY <1>4, <2>2 DEF StoredFills
    <2> QED  BY <1>1, <1>3, <1>4, <2>1
  <1>5. CASE pc = "off" /\ Next
    <2>1. Start
      BY <1>0, <1>5, OffOnlyStarts DEF ControlInv
    <2>2. pc' = "loop" /\ todo' = <<>> /\ trade' = <<>> /\ ledger'.bal = Seed
      BY <1>0, <1>5, <2>1 DEF Start, ControlInv, OffIsClean, NewLedger, NoTrade
    <2>3. RunRows' = <<>>
      BY <1>0, <2>1, RunRowsFacts
    <2>4. \A f : Cardinality(Rows(RunRows', f)) = 0
      <3>1. NoEvent \in Events /\ <<>> \in Seq(Events)
        BY DEF NoEvent, Events, Writers
      <3> QED  BY <2>3, <3>1, RowsAppend
    <2>5. \A v \in Adapters : StoredFills(v)' = 0
      BY <2>4 DEF StoredFills
    <2>6. \A v \in Adapters : Even(v)'
      BY <1>2, <2>2, <2>5
    <2> QED  BY <1>3, <2>2, <2>6
  <1>6. ASSUME NEW how, Die(how) PROVE Goal
    <2>1. /\ pc' = "off" /\ db' = db /\ since' = since /\ last'.saved = (pc = "close")
          /\ last'.lost = lost /\ last'.refused = refused
      BY <1>6 DEF Die
    <2>2. ASSUME pc = "close", lost = 0, ~refused, NEW v \in Adapters
          PROVE  db.balances[v] = Seed[v] + StoredFills(v)
      <3>1. trade = <<>> /\ todo = <<>> /\ db.balances = ledger.bal
        BY <1>0, <2>2 DEF ControlInv, TodoIsTheRest, SavedInv, NoTrade
      <3>2. Moved(Legs(todo), v) = 0 /\ Moved(Legs(trade), v) = 0
        BY <3>1, MovedFacts DEF Legs
      <3> QED  BY <1>1, <1>2, <2>2, <3>1, <3>2
    <2>3. \A v \in Adapters : StoredFills(v)' = StoredFills(v)
      BY <2>1 DEF StoredFills, RunRows
    <2> QED  BY <2>1, <2>2, <2>3 DEF BooksInv, StoredFillsExplainBalances
  <1>7. ASSUME NEW w \in Writers, pc # "off", AppendRow(w) PROVE Goal
    <2> DEFINE e == pending[w]
    <2>1. /\ AppendReturns(w) /\ e # NoEvent /\ e \in Events /\ lost' = lost
          /\ refused' = refused /\ trade' = trade /\ ledger' = ledger
      BY <1>0, <1>7 DEF AppendRow, AppendReturns
    <2>2. RunRows' = Append(RunRows, e)
      BY <1>0, <1>7, RunRowsFacts
    <2>3. pc' # "off"
      BY <1>7, <2>1 DEF AppendReturns
    <2>4. \A v \in Adapters : StoredFills(v)' = StoredFills(v) + Moved({e.fill}, v)
      <3> SUFFICES ASSUME NEW v \in Adapters
                   PROVE  StoredFills(v)' = StoredFills(v) + Moved({e.fill}, v)
        OBVIOUS
      <3> DEFINE n(q, f) == Cardinality(Rows(q, f))
      <3>1. /\ n(RunRows, Buy(v)) \in Nat /\ n(RunRows, Sell(v)) \in Nat
            /\ n(RunRows', Buy(v)) = n(RunRows, Buy(v)) + (IF e.fill = Buy(v) THEN 1 ELSE 0)
            /\ n(RunRows', Sell(v)) = n(RunRows, Sell(v)) + (IF e.fill = Sell(v) THEN 1 ELSE 0)
        BY <1>0, <2>1, <2>2, RowsAppend
      <3>2. /\ StoredFills(v) = n(RunRows, Buy(v)) - n(RunRows, Sell(v))
            /\ StoredFills(v)' = n(RunRows', Buy(v)) - n(RunRows', Sell(v))
        BY DEF StoredFills
      <3>3. Moved({e.fill}, v) = (IF e.fill = Buy(v) THEN 1 ELSE 0) - (IF e.fill = Sell(v) THEN 1 ELSE 0)
        BY MovedFacts
      <3> HIDE DEF n, e
      <3> QED  BY <3>1, <3>2, <3>3
    <2>5. \A v \in Adapters : Moved(Legs(todo), v) = Moved(Legs(todo'), v) + Moved({e.fill}, v)
      <3> SUFFICES ASSUME NEW v \in Adapters
                   PROVE  Moved(Legs(todo), v) = Moved(Legs(todo'), v) + Moved({e.fill}, v)
        OBVIOUS
      <3>1. CASE w = Engine
        <4>1. /\ pc = "append" /\ e.fill = Head(todo) /\ todo # <<>> /\ todo' = Tail(todo)
              /\ \A i, j \in DOMAIN todo : todo[i] = todo[j] => i = j
          BY <1>0, <2>1, <3>1, WriterNames
          DEF ControlInv, AppendsMatchWriters, TodoIsTheRest, AppendReturns
        <4>2. Legs(todo') = Legs(todo) \ {e.fill} /\ e.fill \in Legs(todo)
          BY <1>0, <4>1, TailOfTodo
        <4> QED  BY <4>2, MovedFacts
      <3>2. CASE w # Engine
        <4>1. e.fill = NoFill /\ todo' = todo
          <5>1. e.fill = NoFill
            BY <1>0, <2>1, <3>2 DEF ControlInv, AppendsMatchWriters
          <5>2. todo' = todo
            BY <2>1, <3>2 DEF AppendReturns
          <5> QED  BY <5>1, <5>2
        <4> QED  BY <1>2, <4>1, MovedFacts
      <3> QED  BY <3>1, <3>2
    <2> HIDE DEF e
    <2>6. ASSUME Open', NEW v \in Adapters PROVE Even(v)'
      <3>1. Even(v)
        BY <1>1, <1>7, <2>1, <2>6
      <3>2. Moved(Legs(todo'), v) \in Int /\ Moved({e.fill}, v) \in Int
        BY LedgerFacts
      <3>3. /\ StoredFills(v)' = StoredFills(v) + Moved({e.fill}, v)
            /\ Moved(Legs(todo), v) = Moved(Legs(todo'), v) + Moved({e.fill}, v)
            /\ ledger'.bal[v] = ledger.bal[v] /\ Moved(Legs(trade'), v) = Moved(Legs(trade), v)
        BY <2>1, <2>4, <2>5
      <3>4. /\ StoredFills(v) \in Int /\ Seed[v] \in Int /\ ledger.bal[v] \in Int
            /\ Moved(Legs(trade), v) \in Int
        BY <1>2
      <3> QED  BY <3>1, <3>2, <3>3, <3>4
    <2> QED  BY <1>3, <2>3, <2>6
  <1>8. ASSUME NEW w \in Writers, pc # "off", AppendFails(w) PROVE Goal
    <2>1. lost' # 0 /\ pc' # "off"
      BY <1>0, <1>8 DEF AppendFails, AppendReturns
    <2> QED  BY <1>3, <2>1
  <1>9. CASE pc # "off" /\ (\/ Signal \/ CloseRaw
                           \/ Ingest \/ OverloadInvalidate \/ OverloadRecord)
    BY <1>4, <1>9 DEF Signal, CloseRaw, Ingest, OverloadInvalidate, OverloadRecord
  <1>10. ASSUME NEW a \in Adapters, pc # "off",
                \/ AdapterRead(a) \/ AdapterSend(a) \/ AdapterReturn(a) \/ LaneRecord(a)
                \/ \E next \in {"journal", "select"}, isReady \in BOOLEAN : LaneApply(a, next, isReady)
         PROVE  Goal
    BY <1>4, <1>10 DEF AdapterRead, AdapterSend, AdapterReturn, LaneRecord, LaneApply
  <1>11. ASSUME NEW t \in Trades \cup {NoTrade}, EvaluateOnce(t) PROVE Goal
    <2>1. /\ pc = "loop" /\ pc' = "record" /\ trade' = t /\ todo' = <<NoFill>> \o t
          /\ ledger' = ledger /\ refused' = refused /\ lost' = lost
          /\ db' = db /\ since' = since
      BY <1>11 DEF EvaluateOnce
    <2>2. trade = <<>> /\ todo = <<>>
      BY <1>0, <2>1 DEF ControlInv, TodoIsTheRest, NoTrade
    <2>3. \A v \in Adapters : /\ Moved(Legs(todo), v) = 0 /\ Moved(Legs(trade), v) = 0
                              /\ Moved(Legs(todo'), v) = Moved(Legs(trade'), v)
                              /\ Moved(Legs(trade'), v) \in Int
      <3>1. Legs(todo') = Legs(trade') \cup {NoFill} /\ Legs(todo) = {} /\ Legs(trade) = {}
        <4>1. Legs(<<>>) = {}
          BY DEF Legs
        <4> QED  BY <1>11, <2>1, <2>2, <4>1, FreshTodo
      <3> QED  BY <3>1, MovedFacts, LedgerFacts
    <2>4. \A v \in Adapters : StoredFills(v)' = StoredFills(v)
      BY <2>1 DEF StoredFills, RunRows
    <2>5. ASSUME Open', NEW v \in Adapters PROVE Even(v)'
      <3>1. Even(v)
        BY <1>1, <2>1, <2>5
      <3> QED  BY <1>2, <2>1, <2>3, <2>4, <3>1
    <2> QED  BY <1>3, <2>1, <2>5
  <1>12. ASSUME NEW ok \in BOOLEAN, Settle(ok) PROVE Goal
    <2>1. /\ pc = "settle" /\ pc' = "loop" /\ trade' = <<>> /\ todo' = todo /\ lost' = lost
          /\ db' = db /\ since' = since
          /\ ledger' = ApplyTrade(ledger, Accepted(trade, ok))
          /\ refused' = (refused \/ Accepted(trade, ok) # Legs(trade))
      BY <1>12 DEF Settle, NoTrade
    <2>2. todo = <<>>
      BY <1>0, <2>1 DEF ControlInv, TodoIsTheRest
    <2>3. \A v \in Adapters : /\ Moved(Legs(todo), v) = 0 /\ Moved(Legs(todo'), v) = 0
                              /\ Moved(Legs(trade'), v) = 0
      BY <2>1, <2>2, MovedFacts DEF Legs
    <2>4. \A v \in Adapters : StoredFills(v)' = StoredFills(v)
      BY <2>1 DEF StoredFills, RunRows
    <2>5. ASSUME Open', NEW v \in Adapters PROVE Even(v)'
      <3>1. Open /\ Accepted(trade, ok) = Legs(trade)
        BY <2>1, <2>5
      <3>2. Even(v)
        BY <1>1, <3>1
      <3>3. ledger'.bal[v] = ledger.bal[v] + Moved(Legs(trade), v)
        BY <2>1, <3>1 DEF ApplyTrade
      <3> QED  BY <1>2, <2>3, <2>4, <3>2, <3>3
    <2> QED  BY <1>3, <2>1, <2>5
  <1>13. CASE RecordEvent \/ EndLoop \/ SourceDone \/ SaveFails
    BY <1>4, <1>13 DEF RecordEvent, EndLoop, SourceDone, SaveFails
  <1>14. CASE SavePortfolioStep
    <2>1. db'.events = db.events
      BY <1>0, <1>14, StoreFacts DEF SavePortfolioStep
    <2> QED  BY <1>4, <1>14, <2>1 DEF SavePortfolioStep
  <1>15. CASE UNCHANGED vars
    <2>1. \A v \in Adapters : StoredFills(v)' = StoredFills(v)
      BY <1>15 DEF vars, StoredFills, RunRows
    <2> QED  BY <1>15, <2>1 DEF vars, BalanceInv, BooksInv, StoredFillsExplainBalances
  <1> HIDE DEF Goal
  <1>16. CASE pc # "off" /\ Next
    BY <1>6, <1>7, <1>8, <1>9, <1>10, <1>11, <1>12, <1>13, <1>14, <1>16
    DEF Next, Environment, Goroutines, Sink, Main, Crash, AdapterPanic, Exit, Start
  <1> QED  BY <1>5, <1>15, <1>16

\* The two durable records of a run agree: for any venues and trades, and
\* whatever the lanes append in between, the balances a clean run stored are
\* the seeds moved by its stored fills.
THEOREM StoreExplainsItself == Spec => []StoredFillsExplainBalances
  <1>1. Init => BalanceInv
    <2>1. Init => SavedInv /\ SavedPortfolioIsFinal /\ BooksInv /\ StoredFillsExplainBalances
      BY DEF Init, SavedInv, SavedPortfolioIsFinal, BooksInv, StoredFillsExplainBalances, NoRun
    <2> QED  BY <2>1, InitType, ControlInit DEF BalanceInv, SaveInv, TypeInv
  <1>2. BalanceInv /\ [Next]_vars => BalanceInv'
    BY BalanceStep
  <1>3. BalanceInv => StoredFillsExplainBalances
    BY DEF BalanceInv
  <1> QED  BY <1>1, <1>2, <1>3, PTL DEF Spec
=============================================================================
