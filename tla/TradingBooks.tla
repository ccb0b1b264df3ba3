----------------------------- MODULE TradingBooks -----------------------------
(***************************************************************************)
(* What the worker writes down of the signals of its snapshots: simulated  *)
(* positions and trades (app/system/paper_trading.py), and what became of  *)
(* each signal (app/system/signal_outcome_audit.py).  Each book is in the  *)
(* memory of the worker and in a file (app/cache/paper_trading_cache.py,   *)
(* app/cache/signal_outcome_cache.py), which the API only reads.           *)
(***************************************************************************)
EXTENDS Integers, FiniteSets, Sequences, SequencesExt

CONSTANTS
    Snapshots,        \* those the worker may build
    Windows,          \* when an outcome is looked at: seconds after its signal
    DedupFor,         \* an equal signal is not written down again for so long
    MaxTrades, MaxSkips, MaxRecords, MaxObservations,  \* the ends of the books that are kept
    MaxCycles, MaxCrashes  \* bounds: snapshots, restarts

VARIABLES
    cycles, crashes,
    at,        \* the worker: "idle", or the snapshot it has still to audit
    book,      \* the positions and outcomes in the memory of the worker
    file       \* those on disk
vars == <<cycles, crashes, at, book, file>>

Books == {"paper", "outcome"}
Idle == [rows |-> <<>>, stale |-> FALSE, closes |-> FALSE, on |-> FALSE]
Empty == [paper |-> [positions |-> <<>>, trades |-> <<>>, skipped |-> <<>>], outcome |-> <<>>]

Init == cycles = 0 /\ crashes = 0 /\ at = Idle /\ book = Empty /\ file = Empty

Newest(s, n) == IF Len(s) > n THEN SubSeq(s, Len(s) - n + 1, Len(s)) ELSE s

---------------------------------------------------------------------------
(* Paper trading                                                             *)

\* _find_open_position: the index of the open position, 0 if there is none.
Open(p, symbol, side) ==
    LET found == {i \in DOMAIN p.positions :
                     p.positions[i].symbol = symbol /\ p.positions[i].side = side /\ p.positions[i].open}
    IN IF found = {} THEN 0 ELSE CHOOSE i \in found : \A j \in found : i <= j

Return(side, from, to) == IF side = "LONG" THEN to - from ELSE from - to

\* _open_position
Opened(p, row, side) ==
    [p EXCEPT !.positions = Append(@, [symbol |-> row.symbol, side |-> side, entry |-> row.price, open |-> TRUE, gain |-> 0])]

\* _close_position: the position becomes a trade.
Closed(p, i, row) ==
    LET q == p.positions[i]
        gain == Return(q.side, q.entry, row.price)
    IN [p EXCEPT !.positions[i] = [q EXCEPT !.open = FALSE, !.gain = gain],
                 !.trades = Newest(Append(@, [symbol |-> q.symbol, side |-> q.side, gain |-> gain]), MaxTrades)]

Skipped(p, reason) == [p EXCEPT !.skipped = Newest(Append(@, reason), MaxSkips)]

\* _base_skip_reason: the faults of a row; a conflict with the master score is none.
Unfit(row, snapshot) ==
    IF snapshot.stale \/ row.stale THEN "snapshot_stale"
    ELSE IF row.fault \in {"none", "master_direction_conflict"} THEN "" ELSE row.fault

Passive == {"NO_TRADE", "DO_NOT_TRADE", "WAIT", "HOLD", "WATCH", ""}
Side == [BUY |-> "LONG", SHORT |-> "SHORT"]
Opposite == [LONG |-> "SHORT", SHORT |-> "LONG"]

\* Mutant: a position of the other side is not looked for.
EnteringTwice(p, row, side) ==
    IF Open(p, row.symbol, side) # 0 THEN Skipped(p, "existing_open_position") ELSE Opened(p, row, side)

\* BUY and SHORT open a position, if the symbol has none on either side.
Entering(p, row, side) ==
    IF Open(p, row.symbol, side) # 0 THEN Skipped(p, "existing_open_position")
    ELSE IF Open(p, row.symbol, Opposite[side]) # 0 THEN Skipped(p, "opposite_position_open")
    ELSE Opened(p, row, side)

\* EXIT and CLOSE close either side, the long one first.
Leaving(p, row) ==
    LET long == Open(p, row.symbol, "LONG")
        short == Open(p, row.symbol, "SHORT")
    IN IF row.action \in {"SELL", "EXIT", "CLOSE"} /\ long # 0 THEN Closed(p, long, row)
       ELSE IF row.action = "SELL" THEN Skipped(p, "no_open_long_position")
       ELSE IF short # 0 THEN Closed(p, short, row)
       ELSE Skipped(p, IF row.action = "COVER" THEN "no_open_short_position" ELSE "no_open_position")

\* _process_row
Processed(p, row, snapshot) ==
    CASE row.action \in Passive -> Skipped(p, "decision_not_actionable")
      [] row.action \notin Passive /\ Unfit(row, snapshot) # "" -> Skipped(p, Unfit(row, snapshot))
      [] row.action \in DOMAIN Side /\ Unfit(row, snapshot) = "" -> Entering(p, row, Side[row.action])
      [] row.action \in {"SELL", "COVER", "EXIT", "CLOSE"} /\ Unfit(row, snapshot) = "" -> Leaving(p, row)
      [] OTHER -> Skipped(p, "unsupported_decision")

\* update_paper_trading_from_snapshot; switched off, it leaves the book alone.
Traded(p, snapshot) ==
    LET upTo[n \in 0..Len(snapshot.rows)] == IF n = 0 THEN p ELSE Processed(upTo[n - 1], snapshot.rows[n], snapshot)
    IN IF snapshot.on THEN upTo[Len(snapshot.rows)] ELSE p

---------------------------------------------------------------------------
(* Signal outcomes                                                           *)

Actionable(row, snapshot) ==
    ~snapshot.stale /\ ~row.stale /\ row.fault = "none" /\ row.action \in {"BUY", "SELL", "SHORT", "COVER"}

\* _intended_direction: by the signal, else by where the row leans.
Direction(row) ==
    IF row.action \in {"BUY", "COVER"} THEN "LONG"
    ELSE IF row.action \in {"SELL", "SHORT"} THEN "SHORT" ELSE row.leans

Blocking(row, snapshot) ==
    IF Actionable(row, snapshot) THEN "actionable"
    ELSE IF snapshot.stale \/ row.stale THEN "stale_data"
    ELSE IF row.action \notin {"BUY", "SELL", "SHORT", "COVER"} THEN "decision_not_actionable" ELSE row.fault

\* _signal_fingerprint: what the signal is, and not when it was given.
Fingerprint(row, snapshot) == <<row.symbol, row.action, Blocking(row, snapshot)>>

Status(row, snapshot) ==
    IF Direction(row) = "UNKNOWN" \/ Blocking(row, snapshot) = "decision_not_actionable" THEN "skipped"
    ELSE IF Actionable(row, snapshot) THEN "insufficient_data" ELSE "blocked"

\* _make_record
Record(row, snapshot) ==
    [fingerprint |-> Fingerprint(row, snapshot), symbol |-> row.symbol, time |-> row.time, entry |-> row.price,
     direction |-> Direction(row), actionable |-> Actionable(row, snapshot), status |-> Status(row, snapshot),
     windows |-> [w \in Windows |-> -1], dayClose |-> -1, observations |-> <<>>, result |-> "insufficient_data"]

\* _seen_recent_record
Gap(a, b) == IF a > b THEN a - b ELSE b - a
SeenRecently(records, r) ==
    \E i \in DOMAIN records : records[i].fingerprint = r.fingerprint /\ Gap(records[i].time, r.time) < DedupFor

\* A row tells what became of an earlier signal.
Tells(record, row) ==
    /\ ~row.stale /\ row.price > 0 /\ row.fault # "data_quality"
    /\ record.entry > 0 /\ record.direction # "UNKNOWN"
    /\ row.time > record.time

\* _add_observation: one of each time.
Observed(record, row) ==
    IF \E i \in DOMAIN record.observations : record.observations[i].time = row.time THEN record.observations
    ELSE Newest(Append(record.observations,
                       [time |-> row.time, gain |-> Return(record.direction, record.entry, row.price)]), MaxObservations)

\* _refresh_record_result: by the observation that came last.
Result(observations) ==
    LET gain == Last(observations).gain IN IF gain > 0 THEN "winner" ELSE IF gain < 0 THEN "loser" ELSE "neutral"
Settled(record) ==
    [record EXCEPT !.result = Result(record.observations),
                   !.status = IF record.actionable THEN Result(record.observations)
                              ELSE IF @ # "skipped" THEN "blocked" ELSE @]

\* A row fills every window whose time has come, once.
Filled(record, row) ==
    [w \in Windows |-> IF record.windows[w] = -1 /\ row.time - record.time >= w THEN row.time ELSE record.windows[w]]

\* _update_record_from_future_snapshot
Followed(record, row, snapshot) ==
    Settled([record EXCEPT !.observations = Observed(record, row), !.windows = Filled(record, row),
                           !.dayClose = IF @ = -1 /\ snapshot.closes THEN row.time ELSE @])

\* _rows_by_symbol: the last row of a symbol.
RowsOf(rows, symbol) == {i \in DOMAIN rows : rows[i].symbol = symbol}
LastOf(rows, symbol) == rows[CHOOSE i \in RowsOf(rows, symbol) : \A j \in RowsOf(rows, symbol) : j <= i]

Followups(records, snapshot) ==
    [i \in DOMAIN records |->
        LET row == LastOf(snapshot.rows, records[i].symbol)
        IN IF ~snapshot.stale /\ RowsOf(snapshot.rows, records[i].symbol) # {} /\ Tells(records[i], row)
           THEN Followed(records[i], row, snapshot) ELSE records[i]]

\* update_signal_outcome_audit_from_snapshot: the old records first, then the new ones.
Added(records, r) == IF SeenRecently(records, r) THEN records ELSE Append(records, r)
Audited(records, snapshot) ==
    LET upTo[n \in 0..Len(snapshot.rows)] ==
            IF n = 0 THEN Followups(records, snapshot) ELSE Added(upTo[n - 1], Record(snapshot.rows[n], snapshot))
    IN Newest(upTo[Len(snapshot.rows)], MaxRecords)

---------------------------------------------------------------------------
(* The worker                                                                *)

\* The book is changed in memory, and may then not be written.
Keep(b, value) ==
    /\ book' = [book EXCEPT ![b] = value]
    /\ file' = [file EXCEPT ![b] = value] \/ UNCHANGED file

Trade ==
    /\ at = Idle /\ cycles < MaxCycles /\ cycles' = cycles + 1
    /\ \E snapshot \in Snapshots : at' = snapshot /\ Keep("paper", Traded(book.paper, snapshot))
    /\ UNCHANGED crashes

AuditSignals ==
    /\ at # Idle /\ at' = Idle
    /\ Keep("outcome", Audited(book.outcome, at))
    /\ UNCHANGED <<cycles, crashes>>

\* A restart reads the files; one that it cannot read is an empty book.
Restart ==
    /\ crashes < MaxCrashes /\ crashes' = crashes + 1 /\ at' = Idle
    /\ \E unread \in SUBSET Books : book' = [b \in Books |-> IF b \in unread THEN Empty[b] ELSE file[b]]
    /\ UNCHANGED <<cycles, file>>

Next == Trade \/ AuditSignals \/ Restart
Spec == Init /\ [][Next]_vars

---------------------------------------------------------------------------
\* In memory and on disk.
Views == {book, file}

\* A symbol has one open position at most, whatever the signals and whichever
\* write failed, and its trades are the last positions it closed, in their order
\* and at their gain (_process_row, _close_position).
TradesBalance ==
    \A v \in Views :
        LET positions == v.paper.positions
            trades == v.paper.trades
        IN /\ \A i, j \in DOMAIN positions :
                  positions[i].open /\ positions[j].open /\ positions[i].symbol = positions[j].symbol => i = j
           /\ \E of \in [DOMAIN trades -> DOMAIN positions] : \A k \in DOMAIN trades :
                  LET q == positions[of[k]] IN
                  /\ ~q.open /\ q.symbol = trades[k].symbol /\ q.side = trades[k].side /\ q.gain = trades[k].gain
                  /\ \A l \in DOMAIN trades : k < l /\ trades[l].symbol = trades[k].symbol => of[k] < of[l]
                  /\ \A i \in DOMAIN positions : ~positions[i].open /\ positions[i].symbol = q.symbol /\ of[k] < i =>
                         \E l \in DOMAIN trades : of[l] = i

\* The windows of a signal are filled in their order, each no earlier than its
\* time, though rows arrive late or not in the order of their times
\* (_update_record_from_future_snapshot).
WindowsInOrder ==
    \A v \in Views : \A i \in DOMAIN v.outcome, w \in Windows :
        LET r == v.outcome[i] IN
            r.windows[w] # -1 =>
                /\ r.windows[w] - r.time >= w
                /\ \A u \in Windows : u < w => r.windows[u] # -1 /\ r.windows[u] <= r.windows[w]

\* Trades and windows balance in memory and on disk, whatever crashed, failed to
\* be written, came late or came again.
BooksBalance == TradesBalance /\ WindowsInOrder
===============================================================================
