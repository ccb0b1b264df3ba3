----------------------------- MODULE AlertHistory -----------------------------
(***************************************************************************)
(* The alerts of the AI tools since 07:00 of the day: one JSON file that   *)
(* the AI worker and the requests for the workspace page both read, merge  *)
(* and replace (app/services/ai_alert_history_service.py).  The lock is    *)
(* one of the process: two processes share the file and the name of its    *)
(* temporary copy.  Followed for one tool.                                 *)
(***************************************************************************)
EXTENDS Integers, FiniteSets, Sequences

CONSTANTS
    Procs,      \* the AI worker, the web processes
    Batches,    \* sequences of the rows a caller may report: a key, when the
                \* alert was found (0: the row does not say) and seen
    DayLength,  \* readings of the clock between two resets
    MaxRows,    \* rows of a tool that are kept
    MaxTime     \* bound: calls

VARIABLES
    now,     \* the clock, which no two calls read at the same time
    file,    \* history.json
    tmp,     \* history.json.tmp
    call     \* per process: its call of persist_ai_alert_history
vars == <<now, file, tmp, call>>

\* A store is its reset key and its rows, and "updated", the call that wrote it.
\* "by", the call that last reported a row, is not in the code: the property
\* needs it.
None == [kind |-> "none", day |-> 0, updated |-> 0, rows |-> <<>>]
Torn == [None EXCEPT !.kind = "torn"]
\* Two processes wrote it at once, or it was merged from one they wrote so: a valid
\* document all the same, whose rows may be of either and are not followed.
Mixed(day) == [None EXCEPT !.kind = "mixed", !.day = day]
Store(day, updated, rows) == [kind |-> "store", day |-> day, updated |-> updated, rows |-> rows]

\* "others": the days of the calls that had the file open while this call had.
Idle == [at |-> "idle", now |-> 0, batch |-> <<>>, store |-> None, into |-> "tmp", others |-> {}]
Init == now = 0 /\ file = None /\ tmp = None /\ call = [p \in Procs |-> Idle]

\* get_ai_alert_reset_key
Day(t) == t \div DayLength

\* Mutant: yesterday's rows are kept.
Yesterday(store, t) == IF store.kind = "store" THEN Store(Day(t), store.updated, store.rows) ELSE Store(Day(t), t, <<>>)

\* The store to merge into: a new one on another day, or when the file is not
\* there or cannot be read.
Today(store, t) == IF store.kind \in {"store", "mixed"} /\ store.day = Day(t) THEN store ELSE Store(Day(t), t, <<>>)

\* An alert keeps the time it was found at, unless that was the time it was
\* seen: the visible time then follows the newest read of the market.
FoundAt(old, row) == IF row.found # 0 /\ old.found # 0 /\ old.found = old.seen THEN row.found
                     ELSE IF old.found # 0 THEN old.found ELSE row.found

\* The rows of the store with one reported row merged in.
Merge1(rows, row, t) ==
    LET same == {i \in DOMAIN rows : rows[i].key = row.key}
        new == [key |-> row.key, found |-> row.found, seen |-> row.seen, active |-> TRUE, by |-> t]
    IN IF same = {} THEN Append(rows, new)
       ELSE [i \in DOMAIN rows |-> IF i \in same THEN [new EXCEPT !.found = FoundAt(rows[i], row)] ELSE rows[i]]

\* The newest seen first; rows seen together stay in their order.
Before(rows, i, j) == rows[i].seen > rows[j].seen \/ (rows[i].seen = rows[j].seen /\ i < j)
Place(rows, i) == Cardinality({j \in DOMAIN rows : Before(rows, j, i)}) + 1
Cut(rows) == [k \in 1..(IF Len(rows) > MaxRows THEN MaxRows ELSE Len(rows)) |->
                 rows[CHOOSE i \in DOMAIN rows : Place(rows, i) = k]]

\* The reported rows, one after the other.
Joined(rows, batch, t) ==
    LET upTo[n \in 0..Len(batch)] == IF n = 0 THEN rows ELSE Merge1(upTo[n - 1], batch[n], t) IN upTo[Len(batch)]

Merged(store, batch, t) ==
    LET old == [i \in DOMAIN store.rows |-> [store.rows[i] EXCEPT !.active = FALSE]]
    IN IF store.kind = "mixed" THEN store ELSE Store(store.day, t, Cut(Joined(old, batch, t)))

---------------------------------------------------------------------------
\* The clock is read before the lock is taken.
Begin(p) ==
    /\ call[p].at = "idle" /\ now < MaxTime /\ now' = now + 1
    /\ \E batch \in Batches : call' = [call EXCEPT ![p] = [Idle EXCEPT !.at = "begun", !.now = now, !.batch = batch]]
    /\ UNCHANGED <<file, tmp>>

Load(p) ==
    /\ call[p].at = "begun"
    /\ call' = [call EXCEPT ![p] = [@ EXCEPT !.at = "loaded",
                         !.store = Merged(Today(file, call[p].now), call[p].batch, call[p].now)]]
    /\ UNCHANGED <<now, file, tmp>>

\* Opening the temporary file empties it, though another process be writing it.
Open(p) ==
    LET sharing == {q \in Procs \ {p} : call[q].at = "writing" /\ call[q].into = "tmp"} IN
    /\ call[p].at = "loaded"
    /\ tmp' = Torn
    /\ call' = [q \in Procs |->
           IF q = p THEN [call[p] EXCEPT !.at = "writing", !.into = "tmp", !.others = {call[r].store.day : r \in sharing}]
           ELSE IF q \in sharing THEN [call[q] EXCEPT !.others = @ \cup {call[p].store.day}] ELSE call[q]]
    /\ UNCHANGED <<now, file>>

\* The rows go into the file that was opened, whatever its name is by now.
Puts(p, content) ==
    CASE call[p].into = "tmp" -> tmp' = content /\ UNCHANGED file
      [] call[p].into = "file" -> file' = content /\ UNCHANGED tmp
      [] OTHER -> UNCHANGED <<file, tmp>>

\* Two calls that have the same file open write their chunks each at its own place:
\* the end of the longer may outlive the shorter, and chunks of both may fit.
Overlaps(p) ==
    IF call[p].others = {} THEN {} ELSE {Torn} \cup {Mixed(day) : day \in call[p].others \cup {call[p].store.day}}

Flush(p) ==
    /\ call[p].at = "writing"
    /\ \E content \in Overlaps(p) : Puts(p, content)
    /\ UNCHANGED <<now, call>>

Write(p) ==
    /\ call[p].at = "writing"
    /\ \E content \in {call[p].store} \cup Overlaps(p) : Puts(p, content)
    /\ call' = [call EXCEPT ![p].at = "written"]
    /\ UNCHANGED now

\* The temporary file takes the name of the file, whoever wrote it.
Replace(p) ==
    /\ call[p].at = "written" /\ tmp # None
    /\ file' = tmp /\ tmp' = None
    /\ call' = [q \in Procs |-> IF q = p THEN Idle
                ELSE IF call[q].at = "writing" THEN [call[q] EXCEPT !.into = IF @ = "tmp" THEN "file" ELSE "lost"]
                ELSE call[q]]
    /\ UNCHANGED now

\* It is gone: another process has renamed it, and the call raises.
ReplaceFails(p) ==
    /\ call[p].at = "written" /\ tmp = None
    /\ call' = [call EXCEPT ![p] = Idle] /\ UNCHANGED <<now, file, tmp>>

\* A call that raises ends in the same way: bytes that are no text, a full disk.
Crash(p) == call[p].at # "idle" /\ call' = [call EXCEPT ![p] = Idle] /\ UNCHANGED <<now, file, tmp>>

\* The clock moves though nobody reports.
Tick == now < MaxTime /\ now' = now + 1 /\ UNCHANGED <<file, tmp, call>>

Next == Tick \/ \E p \in Procs : Begin(p) \/ Load(p) \/ Open(p) \/ Flush(p) \/ Write(p) \/ Replace(p) \/ ReplaceFails(p) \/ Crash(p)
Spec == Init /\ [][Next]_vars

---------------------------------------------------------------------------
(***************************************************************************)
(* get_ai_alert_history_snapshot: what a page shows at a time.  Nothing is *)
(* said of what it shows of a mixture.                                     *)
(***************************************************************************)
Shown(t) == IF file.kind = "store" /\ file.day = Day(t) THEN file.rows ELSE <<>>

\* Unless two processes had the temporary file open at once since the reset, and it
\* came out as a valid mixture: the alerts a page shows were all reported since the
\* reset, no alert twice, and those called active by the one call that wrote the
\* file, whatever files the calls rename, overwrite or leave half written.
AlertsOfTheDay ==
    LET rows == Shown(now) IN
    /\ \A i \in DOMAIN rows : Day(rows[i].by) = Day(now) /\ (rows[i].active <=> rows[i].by = file.updated)
    /\ \A i, j \in DOMAIN rows : rows[i].key = rows[j].key => i = j

\* What the page is for: the history of the day does not lose an alert while it
\* has room for it.  The code does not keep it when two processes report.
HistoryIsKept ==
    [][file.kind = "store" /\ Day(now) = file.day /\ file' # file =>
         /\ file'.kind = "store"
         /\ \A i \in DOMAIN file.rows : Len(file'.rows) = MaxRows \/ \E j \in DOMAIN file'.rows : file'.rows[j].key = file.rows[i].key]_vars
===============================================================================
