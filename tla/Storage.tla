------------------------------ MODULE Storage -------------------------------
(***************************************************************************)
(* The tables of internal/storage that the program reads or writes, as a   *)
(* value.  A table with a primary key is a function on the keys present.   *)
(* Orders, fills and system_state have methods that nothing calls.         *)
(***************************************************************************)
EXTENDS Sequences

NoRows == [k \in {} |-> 0]

Migrate == [balances |-> NoRows, positions |-> NoRows, events |-> <<>>]

\* Faulty: ON CONFLICT DO NOTHING.
UpsertKeeps(table, rows) ==
    [k \in DOMAIN table \cup DOMAIN rows |-> IF k \in DOMAIN table THEN table[k] ELSE rows[k]]

\* INSERT ... ON CONFLICT DO UPDATE: a row that is not given stays.
Upsert(table, rows) ==
    [k \in DOMAIN table \cup DOMAIN rows |-> IF k \in DOMAIN rows THEN rows[k] ELSE table[k]]

\* Both tables in one transaction.
SavePortfolio(db, bals, poss) ==
    [db EXCEPT !.balances = Upsert(@, bals), !.positions = Upsert(@, poss)]

LoadBalances(db) == db.balances

\* The sink of the journal.
AppendEvent(db, ev) == [db EXCEPT !.events = Append(@, ev)]
=============================================================================
