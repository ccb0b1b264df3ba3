------------------------- MODULE DecisionPipeline -------------------------
(***************************************************************************)
(* The decision pipeline of a market snapshot (build_snapshot_payload,     *)
(* app/engine/market_snapshot_engine.py), followed for one ticker: a row   *)
(* of the feed goes through every stage in order.  When a later cycle has  *)
(* no signals of its own, generate_market_snapshot feeds the finished rows *)
(* of the last good snapshot through the same stages again.                *)
(***************************************************************************)
EXTENDS DecisionStages

CONSTANTS
    Envs,   \* what the stages may find around the row
    Feeds   \* rows the feed may produce

EnvType == [tools : [Tools -> {"bull", "bear", "flat", "plain"}], strength : 0..100, risk : 0..100,
            remark : Remarks, engineRisk : {"", "alto"}, pulse : {"BULLISH", "BEARISH", "NEUTRAL"},
            mostBlocked : BOOLEAN, radar : 0..100, history : {"none", "baixa", "moderada", "alta"},
            stale : BOOLEAN]

\* A row that names a ready state names the one of its own signal.
FeedType ==
    {f \in [quality : Qualities \cup {"", "priced", "partial", "missing", "failed"},
            price : BOOLEAN, volume : BOOLEAN, provider : BOOLEAN, stale : BOOLEAN,
            signal : Actionable \cup NoTradeSignals \cup {"WATCH", "WAIT", "NO_DECISION"},
            state : {ReadyState[s] : s \in Actionable} \cup BlockedStates \cup {""},
            ready : {"", "yes", "no"}] : f.state \in BlockedStates \/ StateAgrees(f)}

VARIABLES
    env,     \* what surrounds the row in this cycle
    feed,    \* the row as the feed gave it
    row,     \* the row as the stages left it
    master,  \* its row in the master scores
    stage,   \* the stage to run next
    pass     \* 1: a live cycle, 2: a cycle on the last good rows
vars == <<env, feed, row, master, stage, pass>>

NoMaster == [dir |-> "NEUTRAL", score |-> 0, status |-> "", risk |-> "", aligned |-> 0, opposing |-> 0,
             conviction |-> "", confidence |-> "", action |-> "NO_DECISION", ready |-> FALSE]

\* A row of the feed, no stage having written to it.
Fresh(f) ==
    [quality |-> f.quality, price |-> f.price, volume |-> f.volume, provider |-> f.provider,
     stale |-> f.stale, signal |-> f.signal, state |-> f.state, ready |-> f.ready,
     audit |-> "", auditScore |-> 0, auditBlocks |-> {}, auditWarnings |-> {}, conflict |-> FALSE,
     blocked |-> {}, masterDir |-> "", masterScore |-> 0, masterStatus |-> "", masterRisk |-> "",
     conviction |-> "", confidence |-> "", aligned |-> 0, opposing |-> 0, panel |-> "",
     radarBlocks |-> {}, radarScore |-> 0, radarLevel |-> "",
     rankBlocks |-> {}, rankScore |-> 0, rankClass |-> "",
     op |-> "", opBlocks |-> {}, opScore |-> 0, convScore |-> 0, convLevel |-> "",
     prioScore |-> 0, prioLevel |-> "", ranked |-> FALSE, final |-> "", finalBlocks |-> {},
     envelope |-> "", envelopeBlocks |-> {}]

Init ==
    /\ env \in Envs /\ feed \in Feeds
    /\ row = Fresh(feed) /\ master = NoMaster /\ stage = "seed" /\ pass = 1

---------------------------------------------------------------------------
Step(from, to, r) ==
    /\ stage = from /\ stage' = to
    /\ row' = r
    /\ UNCHANGED <<env, feed, pass>>

\* _enrich_signal_rows and _apply_data_quality: a row without a price or a
\* volume is score_only whatever its feed says.
Seeded(r) ==
    LET q == IF r.price /\ r.volume THEN CoerceQuality(r) ELSE "score_only"
    IN  [r EXCEPT !.quality = q, !.stale = @ \/ q = "stale"]
Seed == Step("seed", "audit", Seeded(row)) /\ UNCHANGED master

Audit == Step("audit", "score", Audited(env, row)) /\ UNCHANGED master

Score == Step("score", "apply", row) /\ master' = MasterRow(env, row)

Apply == Step("apply", "panel", MasterApplied(master, row)) /\ UNCHANGED master

Panel == Step("panel", "radar", [row EXCEPT !.panel = PanelAction(env, master)]) /\ UNCHANGED master

Radar == Step("radar", "ranking", RadarEnriched(env, row)) /\ UNCHANGED master

Ranking == Step("ranking", "operational", RankEnriched(env, row)) /\ UNCHANGED master

Operational == Step("operational", "conviction", OperationalEnriched(env, row)) /\ UNCHANGED master

Convict == Step("conviction", "priority", ConvictionEnriched(env, row)) /\ UNCHANGED master

Priority == Step("priority", "final", PriorityEnriched(env, row)) /\ UNCHANGED master

Final == Step("final", "envelope", FinalEnriched(env, row)) /\ UNCHANGED master

\* attach_decision_envelope, with the staleness of the snapshot.
Envelope == Step("envelope", "done", Attach(row, env.stale)) /\ UNCHANGED master

\* generate_market_snapshot without signals: the rows of the last good snapshot
\* are built again, as a stale snapshot, under whatever the tools say now.
Refeed ==
    /\ stage = "done" /\ pass = 1
    /\ pass' = 2 /\ stage' = "seed"
    /\ env' = [env EXCEPT !.stale = TRUE]
    /\ UNCHANGED <<feed, row, master>>

Finished == stage = "done" /\ pass = 2 /\ UNCHANGED vars

Next == Seed \/ Audit \/ Score \/ Apply \/ Panel \/ Radar \/ Ranking \/ Operational \/ Convict
        \/ Priority \/ Final \/ Envelope \/ Refeed \/ Finished

Spec == Init /\ [][Next]_vars

---------------------------------------------------------------------------
(***************************************************************************)
(* Properties.                                                             *)
(***************************************************************************)
Done == stage = "done"

\* Every score is between 0 and 100, and every label one the surfaces know.
TypeOK ==
    /\ env \in EnvType /\ feed \in FeedType /\ pass \in {1, 2}
    /\ row.envelope \in Statuses \cup {""} /\ row.ready \in {"", "yes", "no"}
    /\ row.audit \in {"", "APPROVED", "CAUTION", "BLOCKED"}
    /\ master.dir \in {"BULLISH", "BEARISH", "NEUTRAL"}
    /\ row.panel \in {"", "NO_TRADE", "WAIT", "OBSERVE", "FORMING", "CONFIRMED"}
    /\ row.final \in {"", "NO_TRADE", "WAIT", "OBSERVE", "FORMING", "CONFIRMED"}
    /\ \A n \in {row.auditScore, row.masterScore, row.radarScore, row.rankScore, row.opScore,
                 row.convScore, row.prioScore} : n \in 0..100

\* A finished row is offered by all of the surfaces or by none: radar, ranking,
\* operational rules, final decision and envelope are computed apart, each with
\* its own list of reasons, and the consistency audit must find nothing.
SurfacesAgree ==
    Done =>
        /\ LET offered == row.envelope = "READY"
           IN  /\ offered <=> row.radarBlocks = {}
               /\ offered <=> row.rankBlocks = {}
               /\ offered <=> row.op # "BLOCKED"
               /\ offered <=> row.final # "NO_TRADE"
               /\ offered <=> row.ranked
               /\ offered <=> IsActionable(row)
        /\ ~UnauthorizedPromotion(row) /\ ~PriorityNoTrade(row)

\* A ready row stands on what the feed and the tools said: its data were whole
\* and fresh, the engine itself had called it ready, no tool reported a high
\* risk or a market nobody can trade in, at least three core tools pointed its
\* way, at most three tools the other way, and trend and smart money did not
\* contradict one another.
ReadyIsSound ==
    Done /\ row.envelope = "READY" =>
        /\ feed.price /\ feed.volume /\ ~feed.provider /\ ~feed.stale
        /\ feed.quality \notin BadQualities \cup {"partial", "missing", "failed"}
        /\ feed.ready = "yes" /\ feed.signal \in Actionable /\ pass = 1
        /\ env.risk < 70 /\ env.remark \notin {"thin_liquidity", "radar_invalid", "risk_blocks"}
        /\ env.pulse \in {"NEUTRAL", SideOfSignal(feed)}
        /\ LET side == IF SideOfSignal(feed) = "BULLISH" THEN "bull" ELSE "bear"
               core == {"flow", "liquidity", "trend", "smart_money", "regime"}
           IN  /\ Cardinality({t \in core : Reading(env, t) \in {side, "plain"}}) >= 3
               /\ Cardinality({t \in Tools : Reading(env, t) \notin {side, "plain", "flat"}}) <= 3
               /\ ~Opposed(Reading(env, "trend"), Reading(env, "smart_money"))

\* Rows of an older snapshot that are built again never come out as a trade, on
\* any surface and not even where the API computes their envelope a second time.
FallbackNeverTrades ==
    Done /\ pass = 2 =>
        /\ row.envelope = "STALE_DATA" /\ ~IsActionable(row)
        /\ row.audit = "BLOCKED" /\ row.final = "NO_TRADE"
        /\ Surface(row).envelope # "READY"

===========================================================================
