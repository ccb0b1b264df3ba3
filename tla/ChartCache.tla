----------------------------- MODULE ChartCache -----------------------------
(***************************************************************************)
(* Charts: one JSON file, in every process a copy in memory, and the file  *)
(* of requests that readers leave for the warm-up, which every process     *)
(* reads, changes and writes under a lock of its own                       *)
(* (app/market/market_data_loader.py, app/system/chart_warmup.py,          *)
(* warm_charts_once of app/system/quote_warmup.py).                        *)
(***************************************************************************)
EXTENDS Integers, FiniteSets

CONSTANTS
    Charts,    \* a symbol and an interval
    Defaults,  \* the charts every cycle of the worker warms
    Procs, Threads, Proc,
    Kind,      \* of each thread: "reader", "request", "cycle" or "strip"
    Ttl, Retention, RestFor,  \* ages the code compares with
    MaxCharts, \* charts the file keeps, resident ones apart
    MaxResident, \* charts a process keeps in memory when it adds one
    MaxCalls,  \* fetches of one cycle
    MaxTime, MaxRuns  \* bounds: ticks of the clock, calls of each thread

VARIABLES
    now,
    file,     \* the chart file, its modification time counted in writes
    requests, \* the request file: when each chart was asked for last (0: it is not)
    mem,      \* per process: the charts in memory, what it knows of the file
    resting,  \* per process: until when the warm-up leaves a chart alone
    thread
vars == <<now, file, requests, mem, resting, thread>>

---------------------------------------------------------------------------
\* A chart: when it was cached (0: there is none) and whether it has the rows
\* its interval needs.
NoChart == [ts |-> 0, full |-> FALSE]
Nothing == [c \in Charts |-> NoChart]
FreshMemory == [charts |-> Nothing, mtime |-> 0]
Unasked == [c \in Charts |-> 0]

\* A call: the chart in hand and those to come, the requests as it knows them, and of
\* a write of these: the charts another process has asked for or dropped since they
\* were read, and whether another process had the temporary file open meanwhile.
Idle == [pc |-> "idle", runs |-> 0, chart |-> CHOOSE c \in Charts : TRUE, todo |-> {}, calls |-> 0,
         warmed |-> {}, seen |-> 0, raw |-> Nothing, asked |-> Unasked, missed |-> {}, shared |-> FALSE]

Init ==
    /\ now = 1
    /\ file = [charts |-> Nothing, mtime |-> 0]
    /\ requests = Unasked
    /\ mem = [p \in Procs |-> FreshMemory]
    /\ resting = [p \in Procs |-> [c \in Charts |-> 0]]
    /\ thread = [t \in Threads |-> Idle]

M(t) == mem[Proc[t]]
Set(t, f) == thread' = [thread EXCEPT ![t] = f]
SetMem(t, m) == mem' = [mem EXCEPT ![Proc[t]] = m]
Over(t) == [Idle EXCEPT !.runs = thread[t].runs]
Done(t) == Set(t, Over(t))
Warmed(t) == [thread[t] EXCEPT !.pc = "next", !.todo = @ \ {thread[t].chart}, !.warmed = @ \cup {thread[t].chart}]
Known(c) == c.ts > 0
Usable(c) == Known(c) /\ now - c.ts <= Ttl /\ c.full

Tick == now < MaxTime /\ now' = now + 1 /\ UNCHANGED <<file, requests, mem, resting, thread>>

---------------------------------------------------------------------------
(* The four callers.                                                         *)

Begins(t, kind) == Kind[t] = kind /\ thread[t].pc = "idle" /\ thread[t].runs < MaxRuns
Begun(t, f) == Set(t, [f EXCEPT !.pc = "look", !.runs = thread[t].runs + 1])

\* A public route reads a chart.
Read(t, c) ==
    /\ Begins(t, "reader")
    /\ Begun(t, [Idle EXCEPT !.chart = c])
    /\ UNCHANGED <<now, file, requests, mem, resting>>

\* request_on_demand_chart_warmup: first the request is written down.
Request(t, c) ==
    /\ Begins(t, "request")
    /\ Set(t, [Idle EXCEPT !.pc = "ask", !.runs = thread[t].runs + 1, !.chart = c, !.asked[c] = now])
    /\ UNCHANGED <<now, file, requests, mem, resting>>

\* What _read_requests returns: nothing where the file cannot be read.
Readable == {requests, Unasked}

\* A cycle of the worker, or the quote warm-up's pass over the index strip.
Cycle(t) ==
    /\ Begins(t, Kind[t]) /\ Kind[t] \in {"cycle", "strip"}
    /\ \E read \in IF Kind[t] = "strip" THEN {Unasked} ELSE Readable :
          Set(t, [Idle EXCEPT !.pc = "next", !.runs = thread[t].runs + 1, !.asked = read,
                              !.todo = {c \in Charts : read[c] > 0} \cup Defaults])
    /\ UNCHANGED <<now, file, requests, mem, resting>>

\* The next chart of a cycle: the requested ones first, the latest first.
Turn(t, c) ==
    /\ thread[t].pc = "next" /\ c \in thread[t].todo /\ thread[t].calls < MaxCalls
    /\ Kind[t] = "cycle" => \A d \in thread[t].todo : thread[t].asked[d] <= thread[t].asked[c]
    /\ IF resting[Proc[t]][c] > now THEN Set(t, [thread[t] EXCEPT !.todo = @ \ {c}])
       ELSE Set(t, [thread[t] EXCEPT !.pc = "look", !.chart = c])
    /\ UNCHANGED <<now, file, requests, mem, resting>>

---------------------------------------------------------------------------
(* get_cached_chart_data and _load_chart_cache_once.                         *)

\* The modification time is taken before the file is read.
Look(t) ==
    /\ thread[t].pc = "look"
    /\ Set(t, IF file.mtime <= M(t).mtime THEN [thread[t] EXCEPT !.pc = "found"]
              ELSE [thread[t] EXCEPT !.pc = "read", !.seen = file.mtime])
    /\ UNCHANGED <<now, file, requests, mem, resting>>

Parse(t) ==
    /\ thread[t].pc = "read"
    /\ Set(t, [thread[t] EXCEPT !.pc = "install", !.raw = file.charts])
    /\ UNCHANGED <<now, file, requests, mem, resting>>

LoadedMtime(t) == thread[t].seen

\* Memory becomes what was read, whatever it held.
Install(t) ==
    /\ thread[t].pc = "install"
    /\ SetMem(t, [charts |-> thread[t].raw, mtime |-> LoadedMtime(t)])
    /\ Set(t, [thread[t] EXCEPT !.pc = "found", !.seen = 0, !.raw = Nothing])
    /\ UNCHANGED <<now, file, requests, resting>>

\* A reader has its answer; a warmer keeps a usable chart and counts it as warmed.
Found(t) ==
    /\ thread[t].pc = "found"
    /\ IF Kind[t] = "reader" THEN Done(t)
       ELSE IF Usable(M(t).charts[thread[t].chart]) THEN Set(t, Warmed(t))
       ELSE Set(t, [thread[t] EXCEPT !.pc = "fetch", !.calls = @ + 1])
    /\ UNCHANGED <<now, file, requests, mem, resting>>

---------------------------------------------------------------------------
(* get_chart_data, _get_chart_data_no_persist.                               *)

\* A full memory makes room for a chart that it does not hold.
Room(charts, c) ==
    LET held == {d \in Charts : Known(charts[d])}
    IN  IF c \in held \/ Cardinality(held) < MaxResident THEN {charts}
        ELSE {[charts EXCEPT ![d] = NoChart] : d \in held}

\* _cache_chart_data: only the index strip's chart is written at once.
Fetch(t) ==
    /\ thread[t].pc = "fetch"
    /\ \E full \in BOOLEAN, charts \in Room(M(t).charts, thread[t].chart) :
          SetMem(t, [M(t) EXCEPT !.charts = [charts EXCEPT ![thread[t].chart] = [ts |-> now, full |-> full]]])
    /\ Set(t, IF Kind[t] = "strip" THEN [thread[t] EXCEPT !.pc = "write"] ELSE Warmed(t))
    /\ UNCHANGED <<now, file, requests, resting>>

\* The provider has nothing: the chart rests.
FetchNothing(t) ==
    /\ thread[t].pc = "fetch"
    /\ resting' = [resting EXCEPT ![Proc[t]][thread[t].chart] = now + RestFor]
    /\ Set(t, [thread[t] EXCEPT !.pc = "next", !.todo = @ \ {thread[t].chart}])
    /\ UNCHANGED <<now, file, requests, mem>>

\* The end of a call: the warmed requests are to leave the file.
End(t) ==
    /\ thread[t].pc = "next" /\ (thread[t].todo = {} \/ thread[t].calls = MaxCalls)
    /\ IF Kind[t] = "strip" \/ thread[t].warmed = {} THEN Done(t) ELSE Set(t, [thread[t] EXCEPT !.pc = "drop"])
    /\ UNCHANGED <<now, file, requests, mem, resting>>

---------------------------------------------------------------------------
(* The request file: request_chart_warmup, _drop_warmed_requests.            *)

Rewrites(u) == thread[u].pc \in {"save", "swap"}

\* Mutant: the lock is taken to write the file, not to read it.
LockedToWrite(p) == \E u \in Threads : Proc[u] = p /\ thread[u].pc = "swap"

\* _REQUEST_LOCK, from the read to the replacement.
Locked(p) == \E u \in Threads : Proc[u] = p /\ Rewrites(u)

Drop(t, read) == [c \in Charts |-> IF c \in thread[t].warmed THEN 0 ELSE read[c]]
Add(t, read) == [read EXCEPT ![thread[t].chart] = thread[t].asked[thread[t].chart]]

\* A cycle that warmed anything goes on to write the charts, a single request leaves
\* that to others.
Dropped(t) == IF Kind[t] = "cycle" THEN [Over(t) EXCEPT !.pc = "write"] ELSE Over(t)

\* The file is read under the lock; nothing to drop is nothing to write.
Take(t) ==
    /\ thread[t].pc \in {"ask", "drop"} /\ ~Locked(Proc[t])
    /\ \E read \in Readable :
          LET left == IF thread[t].pc = "ask" THEN Add(t, read) ELSE Drop(t, read)
          IN  IF thread[t].pc = "drop" /\ left = read THEN Set(t, Dropped(t))
              ELSE Set(t, [thread[t] EXCEPT !.pc = "save", !.asked = left, !.shared = FALSE,
                                            !.missed = IF read = requests THEN {} ELSE Charts])
    /\ UNCHANGED <<now, file, requests, mem, resting>>

\* The temporary file is opened: it has one name for every process.
Put(t) ==
    LET others == {u \in Threads \ {t} : thread[u].pc = "swap"}
    IN  /\ thread[t].pc = "save"
        /\ thread' = [u \in Threads |->
              IF u = t THEN [thread[t] EXCEPT !.pc = "swap", !.shared = others # {}]
              ELSE IF u \in others THEN [thread[u] EXCEPT !.shared = TRUE] ELSE thread[u]]
        /\ UNCHANGED <<now, file, requests, mem, resting>>

\* What the file may hold afterwards: what was written, or what it held if writing
\* failed, which is caught.  Of a temporary file written by two at once: anything in
\* between, and what cannot be read counts as nothing.
Left(t) == IF thread[t].shared THEN [Charts -> 0..now] ELSE {thread[t].asked, requests}

\* The replacement, and the lock is released.
Swap(t) ==
    /\ thread[t].pc = "swap" /\ requests' \in Left(t)
    /\ LET others == {u \in Threads : Proc[u] # Proc[t] /\ Rewrites(u)}
           changed == {c \in Charts : requests'[c] # requests[c]}
       IN  thread' = [u \in Threads |->
              IF u = t THEN IF thread[t].warmed # {} THEN Dropped(t)
                            ELSE [Over(t) EXCEPT !.pc = "start", !.chart = thread[t].chart]
              ELSE IF u \in others THEN [thread[u] EXCEPT !.missed = @ \cup changed] ELSE thread[u]]
    /\ UNCHANGED <<now, file, mem, resting>>

\* Unless the chart rests or is being warmed, a thread of its own warms it.
Warming(u, c) == Kind[u] = "request" /\ thread[u].chart = c /\ (thread[u].todo # {} \/ thread[u].warmed # {})
Start(t) ==
    /\ thread[t].pc = "start"
    /\ LET c == thread[t].chart
       IN  IF \/ resting[Proc[t]][c] > now
              \/ \E u \in Threads : Proc[u] = Proc[t] /\ Warming(u, c)
           THEN Done(t)
           ELSE Set(t, [Idle EXCEPT !.pc = "look", !.runs = thread[t].runs, !.chart = c, !.todo = {c}])
    /\ UNCHANGED <<now, file, requests, mem, resting>>

---------------------------------------------------------------------------
(* _persist_chart_cache, one thread of a process at a time.                  *)

Writing(p) == \E t \in Threads : Proc[t] = p /\ thread[t].pc \in {"prune", "replace", "stat"}

\* What is in memory over what is in the file.
Copy(t) ==
    /\ thread[t].pc = "write" /\ ~Writing(Proc[t])
    /\ Set(t, [thread[t] EXCEPT !.pc = "prune",
           !.raw = [c \in Charts |-> IF Known(M(t).charts[c]) THEN M(t).charts[c] ELSE file.charts[c]]])
    /\ UNCHANGED <<now, file, requests, mem, resting>>

\* _prune_chart_entries: the charts that are resident now stay; of the others
\* the expired go, and then the oldest while there are too many.
Survives(all, live, c) ==
    \/ c \in live
    \/ /\ now - all[c].ts <= Retention
       /\ Cardinality(live \cup {d \in Charts : Known(all[d]) /\ all[d].ts > all[c].ts}) < MaxCharts
Pruned(all, live) == [c \in Charts |-> IF Known(all[c]) /\ Survives(all, live, c) THEN all[c] ELSE NoChart]

Prune(t) ==
    /\ thread[t].pc = "prune"
    /\ Set(t, [thread[t] EXCEPT !.pc = "replace",
                                !.raw = Pruned(@, {c \in Charts : Known(M(t).charts[c])})])
    /\ UNCHANGED <<now, file, requests, mem, resting>>

Replace(t) ==
    /\ thread[t].pc = "replace"
    /\ file' = [charts |-> thread[t].raw, mtime |-> file.mtime + 1]
    /\ Set(t, [thread[t] EXCEPT !.pc = "stat", !.raw = Nothing])
    /\ UNCHANGED <<now, requests, mem, resting>>

\* The file counts as read.
Stat(t) ==
    /\ thread[t].pc = "stat"
    /\ SetMem(t, [M(t) EXCEPT !.mtime = file.mtime])
    /\ IF Kind[t] = "strip" THEN Set(t, Warmed(t)) ELSE Done(t)
    /\ UNCHANGED <<now, file, requests, resting>>

Call(t) == Cycle(t) \/ \E c \in Charts : Read(t, c) \/ Request(t, c) \/ Turn(t, c)
Step(t) ==
    \/ Look(t) \/ Parse(t) \/ Install(t) \/ Found(t) \/ Fetch(t) \/ FetchNothing(t) \/ End(t)
    \/ Take(t) \/ Put(t) \/ Swap(t) \/ Start(t) \/ Copy(t) \/ Prune(t) \/ Replace(t) \/ Stat(t)

Next == Tick \/ \E t \in Threads : Call(t) \/ Step(t)
Spec == Init /\ [][Next]_vars

---------------------------------------------------------------------------
\* Of one process, the next read finds every chart in the file: it is in memory,
\* or the file counts as newer than memory (_load_chart_cache_once).
FileIsFound ==
    \A p \in Procs, c \in Charts :
        Known(file.charts[c]) /\ ~Writing(p) => Known(mem[p].charts[c]) \/ file.mtime > mem[p].mtime

\* A request leaves the file only by the write of a call that has found or fetched the
\* chart, or that another process misled: it asked for the chart or dropped it since the
\* call read the file, or had the temporary file open at once, or the call could not
\* read the file (request_chart_warmup, _drop_warmed_requests).
KeptUntilWarm ==
    \A c \in Charts : requests[c] > 0 /\ requests'[c] = 0 =>
        \E t \in Threads :
            /\ thread[t].pc = "swap" /\ thread'[t].pc # "swap"
            /\ c \in thread[t].warmed \cup thread[t].missed \/ thread[t].shared
RequestedUntilWarm == [][KeptUntilWarm]_vars
===========================================================================
