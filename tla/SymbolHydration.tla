-------------------------- MODULE SymbolHydration --------------------------
(***************************************************************************)
(* The analysis of one selected symbol and timeframe: asked for by the     *)
(* pages that poll it, made by a thread of each process, kept in memory    *)
(* and in a file (app/system/symbol_hydration.py); and a page built from   *)
(* it step by step (app/api/routes_public_market_live.py).  The others     *)
(* of a cache's 4096 entries are there only to push this one out.          *)
(***************************************************************************)
EXTENDS SelectedSymbol

CONSTANTS
    Procs,
    PageProc,    \* the process that builds the page
    Pages,       \* what else the page may find: candles, levels, news
    Findings,    \* the rows of tools an analysis may make
    Ttl,         \* how long a settled analysis is not asked for again
    Retention,   \* how long a settled analysis is kept
    MaxTries,    \* seconds a run waits for candles
    MaxTime, MaxCrashes  \* bounds: ticks of the clock, restarts

VARIABLES
    now, crashes,
    candles,  \* what the chart cache has: "none", "short" or "full"
    snapshot, \* what the global snapshot decides for the symbol, or "none"
    file,     \* the entry in the file
    mem,      \* per process: the entry in memory, and whether it is of this file
    run,      \* per process: the thread that makes the analysis
    page      \* a page being built
vars == <<now, crashes, candles, snapshot, file, mem, run, page>>

---------------------------------------------------------------------------
NoEntry == [status |-> "none", at |-> 0, tools |-> {}, decision |-> "WAIT"]
Entry(status) == [NoEntry EXCEPT !.status = status, !.at = now]
Terminal == {"INSUFFICIENT_DATA", "PROVIDER_ERROR"}
Settled(e) == e.status \in {"READY"} \cup Terminal
Unloaded == [entry |-> NoEntry, current |-> FALSE]
NoPage == [pc |-> "none", waits |-> FALSE, insight |-> [by |-> "none", decision |-> "WAIT", scored |-> FALSE],
           tools |-> NoTools("PENDING"), shown |-> [decision |-> "none", panel |-> "none"]]
NoRun == [pc |-> "idle", tries |-> 0]

Init ==
    /\ now = 1 /\ crashes = 0 /\ candles = "none" /\ snapshot = "none"
    /\ file = NoEntry
    /\ mem = [p \in Procs |-> Unloaded]
    /\ run = [p \in Procs |-> NoRun]
    /\ page = NoPage

\* _load: memory becomes the file's when the file is another than it knows.
Load(m) == IF m.current THEN m ELSE [entry |-> file, current |-> TRUE]
Shown(p) == Load(mem[p]).entry

\* _store: memory first; the write of the file may fail.
Store(p, e) ==
    \/ /\ file' = e
       /\ mem' = [q \in Procs |-> [entry |-> IF q = p THEN e ELSE mem[q].entry, current |-> q = p]]
    \/ mem' = [mem EXCEPT ![p] = [entry |-> e, current |-> TRUE]] /\ UNCHANGED file

---------------------------------------------------------------------------
\* Mutant: an analysis that waits is waited for.
BlocksPending(e) == e.status = "PENDING" \/ (Settled(e) /\ now - e.at < Ttl)

\* Mutant: only an analysis that is ready is not asked for again.
BlocksReady(e) == e.status = "READY" /\ now - e.at < Ttl

\* An analysis settled a short time ago is not made again; one that waits is:
\* whoever made it may be gone.
Blocks(e) == Settled(e) /\ now - e.at < Ttl

\* request_symbol_hydration: one run per process.
Accepted(p) == run[p].pc = "idle" /\ ~Blocks(Shown(p))
Queueing(p) == run' = [run EXCEPT ![p].pc = IF Accepted(p) THEN "queue" ELSE @]
Loading(p) == mem' = [mem EXCEPT ![p] = Load(@)]

\* Another page polls the symbol.
Poll(p) ==
    /\ Accepted(p)
    /\ Queueing(p) /\ Loading(p)
    /\ UNCHANGED <<now, crashes, candles, snapshot, file, page>>

\* The entry waits, and a thread starts.
Queue(p) ==
    /\ run[p].pc = "queue"
    /\ Store(p, Entry("PENDING"))
    /\ run' = [run EXCEPT ![p] = [pc |-> "try", tries |-> 0]]
    /\ page' = [page EXCEPT !.waits = @ /\ p # PageProc]
    /\ UNCHANGED <<now, crashes, candles, snapshot>>

\* _prune_dead_pending: what waits beyond its deadline or is settled and old.
Dead(p, e) ==
    /\ run[p].pc = "idle"
    /\ \/ e.status = "PENDING" /\ now - e.at > MaxTries + Ttl
       \/ Settled(e) /\ now - e.at > Retention

\* Another symbol is stored, and with it this one is written again, unless it is dead.
StoreOther(p) ==
    /\ Store(p, IF Dead(p, Shown(p)) THEN NoEntry ELSE Shown(p))
    /\ UNCHANGED <<now, crashes, candles, snapshot, run, page>>

\* A new symbol pushes the first entry out of a full cache, and that is this one.  That
\* it was pushed out is not in the code: the property tells it from a pruned entry.
PushedOut == [NoEntry EXCEPT !.at = 1]
PushOut(p) ==
    /\ Shown(p).status # "none" /\ Store(p, PushedOut)
    /\ UNCHANGED <<now, crashes, candles, snapshot, run, page>>

---------------------------------------------------------------------------
(* _run *)

\* The official tools; the gate asks for one that is not among them.
ToolKeys == {"flow", "liquidity"}
GateKeys == {"institutional_flow", "liquidity"}

\* _gate_decision: without the readings it asks for, or confidence, no trade.
Gated(tools, confident, decision) ==
    IF GateKeys \subseteq {r.tool : r \in tools} /\ confident THEN decision ELSE "WAIT"

Row(tool, low) == [tool |-> tool, low |-> low, high |-> 1, quality |-> "valid", marked |-> FALSE,
                   intraday |-> FALSE, age |-> 0, priced |-> TRUE]

Found(tools, confident, decision) ==
    [Entry("READY") EXCEPT !.tools = tools, !.decision = Gated(tools, confident, decision)]

Settling(p, e) == Store(p, e) /\ run' = [run EXCEPT ![p] = [pc |-> "done", tries |-> 0]]

\* The candles are there: an analysis; or too few of them.
Analyse(p) ==
    /\ run[p].pc = "try" /\ candles = "full"
    /\ \E rows \in Findings, confident \in BOOLEAN, decision \in {"WAIT", "TRADE"} :
           Settling(p, Found(rows, confident, decision))
    /\ UNCHANGED <<now, crashes, candles, snapshot, page>>

Insufficient(p) ==
    /\ run[p].pc = "try" /\ (candles = "short" \/ (candles = "none" /\ run[p].tries = MaxTries))
    /\ Settling(p, Entry("INSUFFICIENT_DATA"))
    /\ UNCHANGED <<now, crashes, candles, snapshot, page>>

Wait(p) ==
    /\ run[p].pc = "try" /\ candles = "none" /\ run[p].tries < MaxTries
    /\ run' = [run EXCEPT ![p].tries = @ + 1]
    /\ UNCHANGED <<now, crashes, candles, snapshot, file, mem, page>>

Fail(p) ==
    /\ run[p].pc = "try"
    /\ Settling(p, Entry("PROVIDER_ERROR"))
    /\ UNCHANGED <<now, crashes, candles, snapshot, page>>

\* Only then may the symbol be asked for again.
Discard(p) ==
    /\ run[p].pc = "done"
    /\ run' = [run EXCEPT ![p] = NoRun]
    /\ UNCHANGED <<now, crashes, candles, snapshot, file, mem, page>>

---------------------------------------------------------------------------
(* public_market_bundle, read by read.                                       *)

Ready == page.pc # "none" /\ ~page.waits

Open ==
    /\ page.pc = "none"
    /\ Queueing(PageProc) /\ Loading(PageProc)
    /\ page' = [NoPage EXCEPT !.pc = "insight", !.waits = Accepted(PageProc)]
    /\ UNCHANGED <<now, crashes, candles, snapshot, file>>

\* public_market_insight: the analysis when it is ready, otherwise the row of
\* the global snapshot.
ReadInsight ==
    /\ page.pc = "insight" /\ Ready
    /\ Loading(PageProc)
    /\ page' = [page EXCEPT !.pc = "ask", !.insight =
           IF Shown(PageProc).status = "READY"
           THEN [by |-> "analysis", decision |-> Shown(PageProc).decision, scored |-> TRUE]
           ELSE [by |-> "snapshot", decision |-> IF snapshot = "none" THEN "WAIT" ELSE snapshot,
                 scored |-> snapshot # "none"]]
    /\ UNCHANGED <<now, crashes, candles, snapshot, file, run>>

\* build_public_ai_tools_payload asks once more, and then reads.
AskTools ==
    /\ page.pc = "ask" /\ Ready
    /\ Queueing(PageProc) /\ Loading(PageProc)
    /\ page' = [page EXCEPT !.pc = "tools", !.waits = Accepted(PageProc)]
    /\ UNCHANGED <<now, crashes, candles, snapshot, file>>

ReadTools ==
    /\ page.pc = "tools" /\ Ready
    /\ Loading(PageProc)
    /\ \E stale \in BOOLEAN, intraday \in BOOLEAN :
        page' = [page EXCEPT !.pc = "rest", !.tools =
           IF Shown(PageProc).status = "READY" THEN OwnTools(Shown(PageProc).tools)
           ELSE IF Shown(PageProc).status # "none" THEN NoTools(Shown(PageProc).status)
           ELSE SnapshotTools([stale |-> stale, rows |-> {[Row(k, 0) EXCEPT !.intraday = intraday, !.age = 1] : k \in ToolKeys}])]
    /\ UNCHANGED <<now, crashes, candles, snapshot, file, run>>

\* The rest of the page, and the answer.
Answer ==
    /\ page.pc = "rest"
    /\ \E f \in Pages, premium \in BOOLEAN :
           page' = [NoPage EXCEPT !.shown = Page(f, page.tools, page.insight, premium)]
    /\ UNCHANGED <<now, crashes, candles, snapshot, file, mem, run>>

---------------------------------------------------------------------------
Tick == now < MaxTime /\ now' = now + 1 /\ UNCHANGED <<crashes, candles, snapshot, file, mem, run, page>>

\* The chart warm-up and the snapshot worker go on.
Warmed == candles' \in {"none", "short", "full"} \ {candles} /\ UNCHANGED <<now, crashes, snapshot, file, mem, run, page>>
Publish == snapshot' \in {"WAIT", "TRADE"} \ {snapshot} /\ UNCHANGED <<now, crashes, candles, file, mem, run, page>>

Crash(p) ==
    /\ crashes < MaxCrashes /\ crashes' = crashes + 1
    /\ mem' = [mem EXCEPT ![p] = Unloaded]
    /\ run' = [run EXCEPT ![p] = NoRun]
    /\ page' = IF p = PageProc THEN NoPage ELSE page
    /\ UNCHANGED <<now, candles, snapshot, file>>

Try(p) == Analyse(p) \/ Insufficient(p) \/ Wait(p) \/ Fail(p)
Build == Open \/ ReadInsight \/ AskTools \/ ReadTools \/ Answer

Next ==
    \/ Tick \/ Warmed \/ Publish \/ Build
    \/ \E p \in Procs : Poll(p) \/ Queue(p) \/ Try(p) \/ Discard(p) \/ Crash(p)
    \/ \E p \in Procs : StoreOther(p) \/ PushOut(p)

\* A request runs to its end, threads run, and the client polls again.
Fairness ==
    \A p \in Procs : WF_vars(Poll(p)) /\ WF_vars(Queue(p)) /\ WF_vars(Try(p)) /\ WF_vars(Discard(p))

Spec == Init /\ [][Next]_vars
LiveSpec == Spec /\ Fairness

---------------------------------------------------------------------------
\* Within its lifetime a settled analysis is not taken back by another request for it
\* nor pruned when another symbol is stored, whatever was loaded, written or lost; only
\* a new symbol in a full cache may push it out (request_symbol_hydration, _store,
\* _prune_dead_pending).
FreshStays ==
    \A p \in Procs :
        Settled(Shown(p)) /\ now - Shown(p).at < Ttl
            => \/ mem'[p] = Unloaded \/ Settled(Load(mem[p])'.entry) \/ now' - Shown(p).at >= Ttl
               \/ Load(mem[p])'.entry = PushedOut
FreshAnalysisStays == [][FreshStays]_vars

\* A symbol that is polled is settled again and again: no crash, failed write or
\* missing candle leaves it waiting (_run, request_symbol_hydration).
AllSettled == \A p \in Procs : Settled(Shown(p))
PolledSettles == []<>AllSettled

\* A page that decides a trade takes the decision from what made the tools it
\* shows: the selected symbol has one source (resolve_symbol_context).
OneSourceOfTruth == page.shown.decision = "TRADE" => page.shown.by = page.shown.toolsBy

\* No entry leaks from an incomplete range: a panel that trades has a level on
\* both sides of the price (_gate_pending_operational_levels).
EntryNeedsBothLevels == page.shown.panel = "TRADE" => page.shown.sides = {"support", "resistance"}
===========================================================================
