------------------------------ MODULE MCPages ------------------------------
(***************************************************************************)
(* What the pages read: the snapshot of the market, which an engine and an *)
(* AI worker of one process produce and a request of another reads, and    *)
(* beside it the analysis of a selected symbol.  "part" tells which moves. *)
(***************************************************************************)
EXTENDS SnapshotCache, TLC

CONSTANTS
    e1, h1, r1, maker, viewer,
    PageFacts, PageFindings, PageTtl, PageRetention, PageTries, PageTime, PageCrashes  \* the analysis: SymbolHydration

OneOfEach == e1 :> maker @@ h1 :> maker @@ r1 :> viewer

VARIABLES part, clock, crashes, candles, snapshot, store, entry, run, page
pageVars == <<clock, crashes, candles, snapshot, store, entry, run, page>>

H == INSTANCE SymbolHydration WITH
        Procs <- {"api"}, PageProc <- "api", Pages <- PageFacts, Findings <- PageFindings, Ttl <- PageTtl,
        Retention <- PageRetention,
        MaxTries <- PageTries, MaxTime <- PageTime, MaxCrashes <- PageCrashes, now <- clock, file <- store, mem <- entry

\* Numbers of seconds: an analysis that is not asked for again is not old enough to be
\* pruned (_TTL_SECONDS, _PERSIST_RETENTION_SECONDS).
ASSUME PageConstants == PageTtl \in Nat /\ PageRetention \in Nat /\ PageTtl <= PageRetention + 1

SnapshotMoves == part = "snapshot" /\ Next /\ UNCHANGED <<part, pageVars>>
SymbolMoves == part = "symbol" /\ H!Next /\ UNCHANGED <<part, vars>>
PagesNext == SnapshotMoves \/ SymbolMoves

\* The fairness of each part (FairSpec, LiveSpec).
Reading(t) == part = "snapshot" /\ Read(t) /\ UNCHANGED <<part, pageVars>>
Producing(t) == part = "snapshot" /\ (Merge(t) \/ Take(t) \/ CycleAgain(t) \/ Update(t)) /\ UNCHANGED <<part, pageVars>>
Polling == part = "symbol" /\ H!Poll("api") /\ UNCHANGED <<part, vars>>
Queueing == part = "symbol" /\ H!Queue("api") /\ UNCHANGED <<part, vars>>
Trying == part = "symbol" /\ H!Try("api") /\ UNCHANGED <<part, vars>>
Discarding == part = "symbol" /\ H!Discard("api") /\ UNCHANGED <<part, vars>>

all == <<part, vars, pageVars>>
PagesInit == part \in {"snapshot", "symbol"} /\ Init /\ H!Init
PagesSpec ==
    /\ PagesInit /\ [][PagesNext]_all
    /\ \A t \in Readers : WF_all(Reading(t))
    /\ \A t \in Engines \cup Helpers : WF_all(Producing(t))
    /\ WF_all(Polling) /\ WF_all(Queueing) /\ WF_all(Trying) /\ WF_all(Discarding)

\* Within its lifetime a settled analysis is not taken back by another request for it
\* nor pruned; only a new symbol in a full cache may push it out
\* (request_symbol_hydration, _store, _prune_dead_pending).
FreshAnalysisStays == [][H!FreshStays]_all

\* A symbol that is polled is settled again and again: no crash, failed write or
\* missing candle leaves it waiting (_run, request_symbol_hydration).
PolledSettles == []<>(part = "symbol" => H!AllSettled)

---------------------------------------------------------------------------
(* Values for pages.cfg.                                                   *)

Facts ==
    [daily : {[rows |-> 20, closes |-> 20, lag |-> "0"]},
     rvol : {[volume |-> 1, ages |-> 1..7]}, crypto : {FALSE}, news : {"classified"},
     votes : {[trend_d1 |-> "up", direction |-> "up", flow |-> "none"]},
     chart : {[rows |-> 14, fallback |-> FALSE, high |-> 4, low |-> 0, close |-> 2, touched |-> TRUE]}]
ToolRow(tool) == [tool |-> tool, low |-> 0, high |-> 1, quality |-> "valid", marked |-> FALSE, intraday |-> FALSE,
                 age |-> 0, priced |-> TRUE]
FewRows == {{ToolRow("flow"), ToolRow("liquidity")}}
===========================================================================
