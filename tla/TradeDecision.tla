--------------------------- MODULE TradeDecision ---------------------------
(***************************************************************************)
(* The trade decision of one row of scores (resolve_trade_action and       *)
(* summarize_trade_decision, app/ai/trade_decision.py): the pressure of    *)
(* either side proposes an action, the coherence rules may turn it round,  *)
(* and the decision is neutralised by the guards of the action it ended    *)
(* with.  The snapshot summarises a row that may bring its own action.     *)
(***************************************************************************)
EXTENDS TradeRules, SequencesExt

CONSTANTS Rows  \* rows to decide on

\* What the code reads of a row.
RowType ==
    [quality : STRING, stale : BOOLEAN, provider : BOOLEAN, quoteStatus : STRING, price : BOOLEAN,
     volume : BOOLEAN, volumeKnown : BOOLEAN, relVolume : Int, regime : STRING, chart : STRING,
     trendStrength : Int, trend : STRING, above : {"yes", "no", ""}, signal : STRING, direction : STRING,
     side : {"bullish", "bearish", "mixed"}, score : Int, auditor : STRING, snapshot : STRING, radar : STRING,
     liquidity : STRING, squeeze : STRING, smart : STRING, smartScore : Int, flow : STRING, flowScore : Int,
     heat : Int, breakout : STRING, breakoutScore : Int, volumeScore : Int, sweep : STRING, change : Int,
     master : Int, event : STRING, accumulation : Int, gathered : STRING, heatState : STRING,
     action : STRING, ready : BOOLEAN, bullish : Int, bearish : Int]

VARIABLES
    trade,     \* the row
    decision,  \* the decision on it
    decided    \* "no", "resolved" or "summarized"
vars == <<trade, decision, decided>>

\* A row brings its own action, or none (""), with its own readiness and reasons.
Init ==
    /\ trade \in Rows /\ decided = "no"
    /\ decision = Decision(trade.action, trade.ready, {}, {})

---------------------------------------------------------------------------
(***************************************************************************)
(* Pressure and confidence.                                                *)
(***************************************************************************)
Sides(bullish, bearish) == [bull |-> bullish, bear |-> bearish]
Clamped(p) == Sides(Bounded(p.bull, 0, 100), Bounded(p.bear, 0, 100))

\* _weighted_component_score: the five weights add up to one.
Weighted(r) ==
    LET bullish == (28 * r.flowScore + 24 * r.smartScore + 20 * r.accumulation
                    + 18 * r.breakoutScore + 10 * r.heat) \div 100
    IN  Sides(bullish, 100 - bullish)

RegimeBoost(r) ==
    CASE r.regime = "bull_trend" -> Sides(10, -6) [] r.regime = "bear_trend" -> Sides(-6, 10)
      [] r.regime = "high_volatility" -> Sides(-2, -2) [] OTHER -> Sides(0, 0)
\* A row does not carry a mixed heat map, which moves both sides alike.
StateBoost(r) ==
    Sides((CASE r.flow = "institutional_buying" -> 8 [] r.flow = "institutional_interest" -> 4 [] OTHER -> 0)
          + (CASE r.smart = "smart_money_active" -> 7 [] r.smart = "smart_money_interest" -> 3 [] OTHER -> 0)
          + (CASE r.gathered = "accumulation" -> 7 [] r.gathered = "early_accumulation" -> 4 [] OTHER -> 0)
          + (CASE r.breakout = "ready_to_break" -> 6 [] r.breakout = "building_pressure" -> 3 [] OTHER -> 0)
          + (IF r.heatState = "strong_buying" THEN 6 ELSE 0),
          (IF r.flow = "distribution_risk" THEN 8 ELSE 0) + (IF r.smart = "retail_noise" THEN 4 ELSE 0)
          + (IF r.gathered = "distribution_or_weak" THEN 7 ELSE 0)
          + (IF r.breakout = "not_ready" THEN 3 ELSE 0) + (IF r.heatState = "strong_selling" THEN 6 ELSE 0))
SweepBoost(r) ==
    CASE r.sweep = "liquidity_sweep_detected" ->
            IF r.above = "yes" /\ r.change >= 0 THEN Sides(9, 0)
            ELSE IF r.above # "yes" /\ r.change <= 0 THEN Sides(0, 9) ELSE Sides(2, 2)
      [] r.sweep = "sweep_watch" -> Sides(1, 1)
      [] OTHER -> Sides(0, 0)
SqueezeBoost(r) ==
    CASE r.squeeze = "squeeze_ready" /\ r.above = "yes" -> Sides(4, 0)
      [] r.squeeze = "already_expanded" /\ r.above # "yes" -> Sides(0, 4)
      [] OTHER -> Sides(0, 0)

\* _apply_state_boosts.
Boosted(r) ==
    LET parts == <<Weighted(r), RegimeBoost(r), StateBoost(r), SweepBoost(r), SqueezeBoost(r)>>
    IN  Clamped(Sides(FoldSeq(LAMBDA x, n : x.bull + n, 0, parts),
                      FoldSeq(LAMBDA x, n : x.bear + n, 0, parts)))

\* _institutional_confidence of a side.
Confidence(r, side, pressure, opposite) ==
    LET long == side = "long"
        good == IF long THEN UpRegimes ELSE DownRegimes
        helps == IF long THEN DemandEvents ELSE SupplyEvents
        own == IF long THEN "bull_trend" ELSE "bear_trend"
        other == IF long THEN "bear_trend" ELSE "bull_trend"
    IN  Bounded(42 + Bounded(((pressure - opposite) * 115) \div 100, -18, 22)
                + Bounded(((r.trendStrength - 35) * 35) \div 100, 0, 16)
                + Bounded((r.relVolume - 100) \div 10, 0, 10)
                + (IF r.regime = own THEN 8 ELSE 0)
                + (IF r.chart \in good THEN 8 ELSE 0)
                + (IF r.event \in helps THEN 6 ELSE 0)
                + (IF (long /\ r.flowScore >= 65) \/ (~long /\ r.flowScore <= 35) THEN 5 ELSE 0)
                + (IF (long /\ r.smartScore >= 65) \/ (~long /\ r.smartScore <= 35) THEN 5 ELSE 0)
                - (IF r.regime = other /\ r.event \notin helps \ {"demand_absorption", "supply_absorption"}
                   THEN 18 ELSE 0)
                - (IF r.chart \in {"chop", "range", "squeeze"} THEN 10 ELSE 0)
                - (IF r.quality = "score_only" THEN 12 ELSE 0), 5, 100)

\* The pressures the action is proposed from: p tilted by the chart and its
\* liquidity, if the confidence of the side goes with it.
Tilted(r, p, long, short) ==
    Clamped(Sides(p.bull + (IF r.chart \in {"trend_up", "breakout_up"} /\ long >= 62 /\ p.bull >= p.bear THEN 5 ELSE 0)
                         + (IF r.event \in DemandEvents THEN 4 ELSE IF r.event \in SupplyEvents THEN -2 ELSE 0),
                  p.bear + (IF r.chart \in {"trend_down", "breakout_down"} /\ short >= 62 /\ p.bear >= p.bull THEN 5 ELSE 0)
                         + (IF r.event \in SupplyEvents THEN 4 ELSE IF r.event \in DemandEvents THEN -2 ELSE 0)))
Felt(r, p) == Tilted(r, p, Confidence(r, "long", p.bull, p.bear), Confidence(r, "short", p.bear, p.bull))
Pressure(r) == Felt(r, Boosted(r))

---------------------------------------------------------------------------
(***************************************************************************)
(* The proposed action.                                                    *)
(***************************************************************************)
FirstChoice(r, p, long, short) ==
    LET lead == p.bull - p.bear
        swept == r.sweep = "liquidity_sweep_detected"
    IN  IF lead >= 16 /\ p.bull >= 60 /\ long >= 58 THEN "BUY"
        ELSE IF lead <= -16 /\ p.bear >= 60 /\ short >= 58 THEN "SHORT"
        ELSE IF r.regime = "bear_trend" /\ lead <= 0
             THEN IF p.bear >= 55 /\ short >= 56 THEN "SHORT" ELSE "COVER"
        ELSE IF r.regime = "bull_trend" /\ lead >= 0
             THEN IF p.bull >= 55 /\ long >= 56 THEN "BUY" ELSE "SELL"
        ELSE IF swept /\ r.above = "yes" /\ lead >= 0 THEN "BUY"
        ELSE IF swept /\ r.above # "yes" /\ lead <= 0 THEN "SHORT"
        ELSE IF r.chart \in {"breakout_down", "trend_down"} /\ short >= 62 /\ lead <= -4 THEN "SHORT"
        ELSE IF r.chart \in {"breakout_up", "trend_up"} /\ long >= 62 /\ lead >= 4 THEN "BUY"
        ELSE IF lead >= 0 THEN IF p.bull >= 52 /\ long >= 58 THEN "BUY" ELSE "SELL"
        ELSE IF p.bear >= 52 /\ short >= 58 THEN "SHORT" ELSE "COVER"

\* A sale under pressure becomes a cover, and a cover against the pressure a purchase.
Covering(r, p, action) ==
    IF action = "SELL" /\ p.bear > p.bull /\ r.regime \in {"bear_trend", "high_volatility"} THEN "COVER" ELSE action
Buying(r, p, action) == IF action = "COVER" /\ p.bull > p.bear + 10 /\ r.above = "yes" THEN "BUY" ELSE action
ProposedOn(r, p) ==
    Buying(r, p, Covering(r, p, FirstChoice(r, p, Confidence(r, "long", p.bull, p.bear),
                                            Confidence(r, "short", p.bear, p.bull))))
Proposed(r) == ProposedOn(r, Pressure(r))

\* _neutralize_operational_decision: the guards of the action the decision ended
\* with, on top of the reasons it already had.
Neutralized(d, r, a, p) ==
    LET hard == HardFaults(r, a, p.bull, p.bear)
        blocked == d.blocked \cup hard
        warnings == d.warnings \cup DataWarnings(r)
        action == IF a \in Operational /\ hard # {} THEN "NO_DECISION" ELSE a
    IN  Decision(action, action \in Operational /\ blocked = {} /\ warnings = {}, blocked, warnings)

\* resolve_trade_action.
Guarded(r, p, c) == Neutralized(c, r, c.action, p)
Resolved(r, p) == Guarded(r, p, Coherence(r, ProposedOn(r, p), p.bull, p.bear))

\* What the row says of itself once it carries the decision.
Carrying(r, d) ==
    [r EXCEPT !.signal = IF r.signal = "" THEN d.action ELSE @,
              !.direction = CASE d.action = "BUY" -> "long" [] d.action = "SHORT" -> "short" [] OTHER -> "flat",
              !.side = CASE d.action = "BUY" -> IF @ = "bearish" THEN "mixed" ELSE "bullish"
                         [] d.action = "SHORT" -> IF @ = "bullish" THEN "mixed" ELSE "bearish"
                         [] OTHER -> @]

Decide(status, d) ==
    /\ decided = "no" /\ decided' = status
    /\ decision' = d
    /\ UNCHANGED trade

\* A row without an action of its own is resolved.
Resolve == trade.action = "" /\ Decide("resolved", Resolved(trade, Pressure(trade)))

\* summarize_trade_decision keeps the action the row brought, if its guards do;
\* the row's own readiness is not asked.
Summarize ==
    /\ trade.action # ""
    /\ Decide("summarized", Neutralized(decision, Carrying(trade, decision), decision.action,
                                        Sides(trade.bullish, trade.bearish)))

Decided == decided # "no" /\ UNCHANGED vars

Next == Resolve \/ Summarize \/ Decided
Spec == Init /\ [][Next]_vars

---------------------------------------------------------------------------
(***************************************************************************)
(* Properties.                                                             *)
(***************************************************************************)
\* A ready decision was not turned round on its way, and it stands on whole data
\* that nobody blocked, with trend and VWAP on the side of the action it ended
\* with.
ReadyTradeIsConfirmed ==
    decided # "no" /\ decision.ready =>
        /\ decision.action = IF decided = "resolved" THEN Proposed(trade) ELSE trade.action
        /\ trade.price /\ trade.volume /\ trade.volumeKnown /\ trade.quality \notin BadData
        /\ ~trade.stale /\ ~trade.provider
        /\ ContextFaults(trade) = {}
        /\ decision.action = "BUY" => trade.above = "yes" \/ trade.chart \in UpRegimes
        /\ decision.action = "SHORT" => trade.above = "no" \/ trade.chart \in DownRegimes
        /\ decision.action \in Entries => ~(trade.regime = "range" /\ trade.trendStrength < 35
                                             /\ decided = "resolved")
===========================================================================
