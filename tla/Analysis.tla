------------------------------ MODULE Analysis ------------------------------
(***************************************************************************)
(* How the backend comes to a recommendation, in three parts that share no *)
(* state: the signals of a chart bar by bar, the trade decision on one row *)
(* of scores, and the row's way through the stages of the decision         *)
(* pipeline.  The values of the small instance are at the end.             *)
(***************************************************************************)
EXTENDS ChartSignals

CONSTANTS
    Rows,   \* rows of scores to decide on
    Envs,   \* what the stages of the pipeline may find around a row
    Feeds   \* rows the feed may produce

VARIABLES part, trade, decision, decided, env, feed, row, master, stage, pass
tradeVars == <<trade, decision, decided>>
rowVars == <<env, feed, row, master, stage, pass>>
T == INSTANCE TradeDecision
D == INSTANCE DecisionPipeline

\* Whole numbers, and rows with the fields the code reads.
ASSUME AnalysisConstants ==
    /\ Settings \in SettingsType /\ Bars \cup Warmups \subseteq BarType /\ Contexts \subseteq ContextType
    /\ Rows \subseteq T!RowType /\ Envs \subseteq D!EnvType /\ Feeds \subseteq D!FeedType

\* One part runs, and the others stay where they start.
NoTrade == trade = "off" /\ decided = "no" /\ decision = "off"
NoRow == env = "off" /\ feed = "off" /\ row = "off" /\ master = "off" /\ stage = "off" /\ pass = 0
AnalysisInit ==
    /\ Init
    /\ \/ part = "chart" /\ NoTrade /\ NoRow
       \/ part = "trade" /\ context = NoContext /\ T!Init /\ NoRow
       \/ part = "row" /\ context = NoContext /\ NoTrade /\ D!Init
Chart == part = "chart" /\ Next /\ UNCHANGED <<part, tradeVars, rowVars>>
Trade == part = "trade" /\ T!Next /\ UNCHANGED <<part, vars, rowVars>>
Pipeline == part = "row" /\ D!Next /\ UNCHANGED <<part, vars, tradeVars>>
AnalysisNext == Chart \/ Trade \/ Pipeline
analysisVars == <<part, vars, tradeVars, rowVars>>
AnalysisSpec == AnalysisInit /\ [][AnalysisNext]_analysisVars

\* A ready trade decision was not turned round and stands on confirmed data
\* (summarize_trade_decision and resolve_trade_action).
ReadyTradeIsConfirmed == T!ReadyTradeIsConfirmed

\* A finished row is offered by all of the surfaces or by none (radar, ranking,
\* operational rules, final decision, envelope).
SurfacesAgree == part = "row" => D!SurfacesAgree

\* A ready row stands on whole and fresh data and on tools that agree with it
\* (attach_decision_envelope).
ReadyIsSound == part = "row" => D!ReadyIsSound

\* Rows of an older snapshot never come out as a trade (generate_market_snapshot).
FallbackNeverTrades == part = "row" => D!FallbackNeverTrades

---------------------------------------------------------------------------
(* Values for analysis.cfg.  The chart has the thresholds of a B3 stock with *)
(* a shorter hold and pullback; its bars bring every setup and every exit.   *)
B3Settings ==
    [spreadMin |-> 10, bodyMin |-> 30, volumeFactor |-> 104, buffer |-> 6, distance |-> 240, maxBody |-> 165,
     scoreMin |-> 7, pullbackBars |-> 3, maxHold |-> 2, cooldown |-> 2, room |-> 42, wickMax |-> 38,
     rejectMin |-> 12, edge |-> 1, cautious |-> FALSE, tick |-> 1]
B3Rules == [against |-> 70, volatile |-> 60, floor |-> 45]

Bar(open, close, high, low, fast, mid, slow, vwap, res, sup, slope, vol) ==
    [open |-> open, close |-> close, high |-> high, low |-> low, fast |-> fast, mid |-> mid, slow |-> slow,
     vwap |-> vwap, res |-> res, sup |-> sup, slope |-> slope, vol |-> vol, levels |-> TRUE, atrOk |-> TRUE,
     day |-> 100, hour |-> 100, valid |-> TRUE, priced |-> TRUE, closing |-> FALSE]

BreakUp == Bar(0, 60, 70, -10, 0, -20, -40, -15, 40, -200, 5, 150)
WeakUp == Bar(50, 30, 55, 0, 10, -15, -35, -10, 70, -200, 5, 60)
ResumeUp == Bar(30, 80, 85, 15, 20, -5, -30, -5, 200, -200, 5, 120)
Flat == Bar(0, 5, 20, -20, 1, 0, -1, 0, 70, -70, 0, 90)
Swept == Bar(-20, 10, 15, -90, 0, 5, 10, 5, 90, -70, 0, 130)
Closing == [Flat EXCEPT !.closing = TRUE]
Halted == [Flat EXCEPT !.valid = FALSE, !.priced = FALSE]
Reclaiming == [BreakUp EXCEPT !.res = 57]
Creeping == Bar(10, 30, 32, 8, 12, 0, -12, 5, 200, -200, 2, 100)
Spike == Bar(60, 190, 205, 55, 70, 10, -40, 30, 190, -200, 5, 140)
Fading == Bar(70, 40, 75, 35, 55, 30, 20, 35, 200, -200, 0, 80)
Sinking == Bar(10, -20, 12, -25, 0, 5, 10, 5, 200, -200, -1, 100)
ThinBreak == [Mirror(BreakUp) EXCEPT !.vol = 60]
ChartBars == {BreakUp, Mirror(BreakUp), WeakUp, ResumeUp, Flat, Swept, Closing, Halted,
              Reclaiming, Creeping, Spike, Fading, Sinking, ThinBreak}
ChartWarmups == {Flat}

Bullish == [NoContext EXCEPT !.regime = "bull_trend", !.master = 72, !.smart = 65, !.flow = 60]
Hostile == [NoContext EXCEPT !.regime = "bear_trend", !.master = 55, !.flowState = "distribution_risk"]
Turning == [NoContext EXCEPT !.regime = "bear_trend", !.master = 72, !.smart = 40, !.flow = 65,
                             !.flowState = "institutional_buying", !.sweepState = "liquidity_sweep_detected"]
ChartContexts == {Bullish, Hostile, Turning}

---------------------------------------------------------------------------
(* Rows with every score on one side of its thresholds or the other.         *)
Plain ==
    [quality |-> "priced", stale |-> FALSE, provider |-> FALSE, quoteStatus |-> "", price |-> TRUE, volume |-> TRUE,
     volumeKnown |-> TRUE, relVolume |-> 120, regime |-> "", chart |-> "", trendStrength |-> 40, trend |-> "",
     above |-> "yes", signal |-> "", direction |-> "", side |-> "mixed", score |-> 60, auditor |-> "",
     snapshot |-> "", radar |-> "", liquidity |-> "", squeeze |-> "", smart |-> "", smartScore |-> 50, flow |-> "",
     flowScore |-> 50, heat |-> 50, breakout |-> "", breakoutScore |-> 50, volumeScore |-> 30, sweep |-> "",
     change |-> 0, master |-> 60, event |-> "none", accumulation |-> 50, gathered |-> "", heatState |-> "", action |-> "", ready |-> FALSE,
     bullish |-> 0, bearish |-> 0]
Directions ==
    {[r EXCEPT !.regime = regime, !.chart = chart, !.above = above, !.flowScore = score, !.smartScore = score,
               !.accumulation = score, !.breakoutScore = score, !.heat = score] :
        r \in {Plain}, regime \in {"bull_trend", "bear_trend", "range", ""}, chart \in {"trend_up", "trend_down", ""},
        above \in {"yes", "no", ""}, score \in {20, 40, 60, 80}}
Faulty(r) ==
    {r, [r EXCEPT !.volume = FALSE], [r EXCEPT !.volumeKnown = FALSE], [r EXCEPT !.auditor = "blocked"],
     [r EXCEPT !.event = "sweep_high_reject"], [r EXCEPT !.event = "sweep_low_reclaim", !.sweep = "liquidity_sweep_detected"],
     [r EXCEPT !.squeeze = "squeeze_ready"], [r EXCEPT !.relVolume = 0], [r EXCEPT !.trendStrength = 0],
     [r EXCEPT !.quality = "stale"], [r EXCEPT !.gathered = "accumulation", !.heatState = "strong_buying"],
     [r EXCEPT !.gathered = "distribution_or_weak", !.heatState = "strong_selling"]}
Named(r) ==
    {r} \cup {[r EXCEPT !.action = action, !.ready = TRUE, !.bullish = 60, !.bearish = 50] :
                 action \in {"BUY", "SELL", "SHORT", "COVER"}}
TradeRows == UNION {Named(r) : r \in UNION {Faulty(d) : d \in Directions}}

---------------------------------------------------------------------------
(* Rows for the pipeline: eight readings of the tools, and around a quiet    *)
(* one the risks, remarks and pulses.                                        *)
Tools == {"flow", "liquidity", "trend", "momentum", "smart_money", "news", "macro", "regime"}
Remarks == {"", "thin_liquidity", "liquidity_trap", "momentum_quiet", "radar_invalid", "range",
            "macro_unavailable", "risk_blocks"}
All(x) == [t \in Tools |-> x]
Profiles ==
    {All("bull"), All("bear"), All("flat"), All("plain"),
     [All("bull") EXCEPT !["smart_money"] = "bear"],
     [All("bull") EXCEPT !["smart_money"] = "bear", !["liquidity"] = "bear"],
     [All("flat") EXCEPT !["flow"] = "bull", !["trend"] = "bull", !["smart_money"] = "bull", !["macro"] = "bear",
                         !["news"] = "bull"],
     [All("bear") EXCEPT !["news"] = "bull", !["regime"] = "flat"]}

Trouble == {<<20, "", "">>, <<50, "", "">>, <<75, "", "">>, <<90, "", "">>, <<50, "", "alto">>, <<20, "", "alto">>}
           \cup {<<20, x, "">> : x \in Remarks}
Quiet == {<<90, "alta", FALSE>>, <<40, "none", TRUE>>, <<60, "baixa", FALSE>>}

Surroundings ==
    {[tools |-> p, strength |-> s, risk |-> x[1], remark |-> x[2], engineRisk |-> x[3], pulse |-> m,
      radar |-> h[1], history |-> h[2], mostBlocked |-> h[3], stale |-> FALSE] :
        p \in Profiles, s \in {57, 71, 95}, x \in Trouble, m \in {"BULLISH", "BEARISH", "NEUTRAL"}, h \in Quiet}

Sound == [quality |-> "priced", price |-> TRUE, volume |-> TRUE, provider |-> FALSE, stale |-> FALSE,
          signal |-> "BUY", state |-> "BUY_READY", ready |-> "yes"]
FeedRows ==
    {Sound, [Sound EXCEPT !.quality = "partial"], [Sound EXCEPT !.quality = "", !.provider = TRUE],
     [Sound EXCEPT !.stale = TRUE], [Sound EXCEPT !.quality = "", !.volume = FALSE],
     [Sound EXCEPT !.signal = "SHORT", !.state = "SHORT_READY"],
     [Sound EXCEPT !.signal = "COVER", !.state = "SELL_READY"],
     [Sound EXCEPT !.state = "WAIT", !.ready = "no"], [Sound EXCEPT !.state = "", !.ready = ""],
     [Sound EXCEPT !.signal = "WATCH", !.state = "WATCH", !.ready = "no"],
     [Sound EXCEPT !.signal = "NO_TRADE", !.state = "NO_TRADE", !.ready = "no"]}
=============================================================================
