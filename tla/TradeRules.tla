----------------------------- MODULE TradeRules -----------------------------
(***************************************************************************)
(* Which trade a row of market data supports (app/ai/trade_decision.py):   *)
(* the guards on its data and context, the coherence of a proposed action, *)
(* and the action proposed from the pressure on either side.               *)
(*                                                                         *)
(* A row holds what the code reads of it.  Scores and pressures are whole  *)
(* points, relative volume is in hundredths, "" is a value that is absent. *)
(* above is "yes", "no" or "" (nobody knows where the price is against the *)
(* VWAP); side is what the words of the row say.                           *)
(***************************************************************************)
EXTENDS Integers, FiniteSets

Operational == {"BUY", "SELL", "SHORT", "COVER"}
Entries == {"BUY", "SHORT"}
BadData == {"score_only", "missing", "empty", "stale", "no_price", "provider_failed", "failed",
            "error", "timeout", "unavailable", "invalid"}

UpRegimes == {"trend_up", "breakout_up", "reversal_up"}
DownRegimes == {"trend_down", "breakout_down", "reversal_down"}
SupplyEvents == {"sweep_high_reject", "bull_trap", "supply_absorption"}
DemandEvents == {"sweep_low_reclaim", "bear_trap", "demand_absorption"}

Bounded(n, low, high) == IF n < low THEN low ELSE IF n > high THEN high ELSE n
Faults(condition, reasons) == IF condition THEN reasons ELSE {}

---------------------------------------------------------------------------
(***************************************************************************)
(* The guards: each gives the reasons it holds against the row.            *)
(***************************************************************************)
\* _market_data_guard.
DataFaults(r) ==
       Faults(r.quality \in BadData, {"data_quality"})
  \cup Faults(r.stale, {"market_data_stale"})
  \cup Faults(r.provider, {"provider_failed"})
  \cup Faults(r.quoteStatus \in BadData, {"quote_status"})
  \cup Faults(~r.price, {"price_missing_or_zero"})
  \cup Faults(~r.volume, {"volume_missing_or_zero"})
DataWarnings(r) == Faults(~r.volumeKnown /\ r.volume, {"volume_provider_incompleto"})

HasRegimeOrTrend(r) ==
    \/ r.regime \in {"bull_trend", "bear_trend", "range", "high_volatility"}
    \/ r.chart \in UpRegimes \cup DownRegimes \cup {"range", "chop", "squeeze"}
    \/ r.trendStrength > 0
    \/ r.trend \in {"alta", "baixa", "lateral"}

\* Mutant: an entry needs a trend on its side, but not the side of the VWAP.
EntryFaultsTrendOnly(r, a) ==
       Faults(r.relVolume <= 0, {"rel_volume_missing_or_zero"})
  \cup Faults(~HasRegimeOrTrend(r), {"regime_or_trend_missing"})
  \cup Faults(a = "BUY" /\ r.regime # "bull_trend" /\ r.chart \notin UpRegimes
              /\ ~(r.above = "yes" /\ r.trendStrength >= 35), {"buy_without_trend_confirmation"})
  \cup Faults(a = "SHORT" /\ r.regime # "bear_trend" /\ r.chart \notin DownRegimes
              /\ ~(r.above = "no" /\ r.trendStrength >= 35), {"short_without_trend_confirmation"})

\* _entry_context_guard.
EntryFaults(r, a) ==
       Faults(r.relVolume <= 0, {"rel_volume_missing_or_zero"})
  \cup Faults(~HasRegimeOrTrend(r), {"regime_or_trend_missing"})
  \cup Faults(a = "BUY" /\ r.regime # "bull_trend" /\ r.chart \notin UpRegimes
              /\ ~(r.above = "yes" /\ r.trendStrength >= 35), {"buy_without_trend_confirmation"})
  \cup Faults(a = "BUY" /\ r.above # "yes" /\ r.chart \notin UpRegimes, {"buy_without_vwap_confirmation"})
  \cup Faults(a = "SHORT" /\ r.regime # "bear_trend" /\ r.chart \notin DownRegimes
              /\ ~(r.above = "no" /\ r.trendStrength >= 35), {"short_without_trend_confirmation"})
  \cup Faults(a = "SHORT" /\ r.above # "no" /\ r.chart \notin DownRegimes, {"short_without_vwap_confirmation"})

\* _detect_decision_conflicts: what the row says of itself against the action.
Conflicts(r, a, bullish, bearish) ==
       Faults(/\ a = "SHORT"
              /\ \/ r.signal \in {"BUY", "WATCH_BUY"} \/ r.direction = "long" \/ r.side = "bullish"
                 \/ bullish >= bearish + 18
                 \/ r.score >= 70 /\ bullish >= bearish + 10, {"score_buy_vs_final_short"})
  \cup Faults(/\ a = "BUY"
              /\ \/ r.signal \in {"SHORT", "WATCH_SHORT"} \/ r.direction = "short" \/ r.side = "bearish"
                 \/ bearish >= bullish + 18
                 \/ r.score >= 70 /\ bearish >= bullish + 10, {"score_short_vs_final_buy"})
  \cup Faults(/\ a \in {"BUY", "SHORT", "COVER"} /\ r.score >= 70
              /\ bullish <= 0 /\ bearish <= 0 /\ r.side = "mixed", {"strong_score_without_directional_evidence"})

\* _auditor_guard, _snapshot_guard, _radar_guard and _liquidity_guard.
ContextFaults(r) ==
       Faults(r.auditor = "blocked", {"auditor_blocked"})
  \cup Faults(r.auditor = "conflict", {"institutional_conflict"})
  \cup Faults(r.snapshot = "invalid", {"snapshot_invalid"})
  \cup Faults(r.radar = "invalid", {"radar_invalid"})
  \cup Faults(r.liquidity \in {"thin_liquidity", "low_liquidity"}, {"low_liquidity"})

\* Every reason that stops an action for good.
HardFaults(r, a, bullish, bearish) ==
    DataFaults(r) \cup Conflicts(r, a, bullish, bearish) \cup EntryFaults(r, a) \cup ContextFaults(r)

---------------------------------------------------------------------------
(***************************************************************************)
(* The coherence of a proposed action (evaluate_trade_coherence).          *)
(***************************************************************************)
BullishSqueeze(r) ==
    /\ r.squeeze \in {"squeeze_ready", "compression"}
    /\ r.above = "yes" \/ r.smartScore >= 60 \/ r.flowScore >= 60 \/ r.heat >= 62

BreakoutWithoutVolume(r) ==
    /\ r.volumeKnown
    /\ r.breakout \in {"ready_to_break", "building_pressure"} \/ r.breakoutScore >= 55
    /\ r.relVolume < 105 /\ r.volumeScore < 35

ReversalException(r, side) ==
    /\ r.sweep = "liquidity_sweep_detected"
    /\ \/ /\ side = "long" /\ r.above = "yes" /\ r.change >= 0
          /\ r.smartScore >= 60 \/ r.flowScore >= 60
       \/ /\ side = "short" /\ r.above # "yes" /\ r.change <= 0
          /\ r.smartScore <= 45 \/ r.flowScore <= 45

BuyRules(r) ==
       Faults(r.regime = "bear_trend" /\ ~ReversalException(r, "long"), {"buy_in_downtrend"})
  \cup Faults(BreakoutWithoutVolume(r), {"breakout_without_volume"})
  \cup Faults(r.smart = "retail_noise" \/ r.flow = "distribution_risk", {"buy_against_flow"})
  \cup Faults(r.event \in SupplyEvents, {"buy_into_supply_liquidity"})
SellRules(r) ==
       Faults(BullishSqueeze(r), {"sell_into_bullish_squeeze"})
  \cup Faults(r.regime = "bull_trend" /\ r.smartScore >= 60 /\ r.master >= 60, {"sell_against_bull_regime"})
ShortRules(r) ==
       Faults(r.regime = "bull_trend" /\ ~ReversalException(r, "short"), {"short_in_bulltrend"})
  \cup Faults(BullishSqueeze(r), {"short_into_bullish_squeeze"})
  \cup Faults(r.smart \in {"smart_money_active", "smart_money_interest"} /\ r.regime # "bear_trend",
              {"short_against_smart_money"})
  \cup Faults(BreakoutWithoutVolume(r), {"short_without_volume_confirmation"})
  \cup Faults(r.event \in DemandEvents, {"short_into_demand_liquidity"})

SoftBlocks(r, a) ==
       (CASE a = "BUY" -> BuyRules(r) [] a = "SELL" -> SellRules(r) [] a = "SHORT" -> ShortRules(r) [] OTHER -> {})
  \cup Faults(r.regime = "range" /\ a \in Entries /\ r.trendStrength < 35, {"range_without_confirmation"})

Warnings(r, a, bullish, bearish) ==
       Faults(r.quality = "score_only", {"score_only_sem_preco_real"})
  \cup DataWarnings(r)
  \cup Faults(a = "BUY" /\ r.chart \in {"chop", "range"} /\ ~ReversalException(r, "long"),
              {"range_requires_breakout_confirmation"})
  \cup Faults(a = "BUY" /\ r.liquidity = "thin_liquidity", {"thin_liquidity_for_long"})
  \cup Faults(a = "SELL" /\ r.chart \in {"trend_up", "breakout_up"} /\ bullish > bearish + 8,
              {"exit_long_against_uptrend_continuation"})
  \cup Faults(a = "SHORT" /\ r.chart \in {"chop", "range"} /\ ~ReversalException(r, "short"),
              {"range_requires_breakdown_confirmation"})
  \cup Faults(a = "COVER" /\ r.regime = "bear_trend" /\ r.flow = "distribution_risk"
              /\ ~ReversalException(r, "long"), {"cover_against_bearish_flow"})
  \cup Faults(a = "COVER" /\ r.chart \in {"trend_down", "breakout_down"} /\ bearish > bullish + 8,
              {"exit_short_against_downtrend_continuation"})
  \cup Faults(a \in Entries /\ r.regime = "high_volatility", {"high_volatility_entry"})

\* _action_after_block: a hard block leaves no decision, another one turns the
\* entry into an exit, or an exit into the entry of the other side.
ActionAfterBlock(r, a, bullish, bearish, hard, soft) ==
    CASE hard # {} -> "NO_DECISION"
      [] hard = {} /\ soft = {} -> a
      [] OTHER ->
         CASE a = "BUY" -> "SELL"
           [] a = "SHORT" -> "COVER"
           [] a = "SELL" -> IF "sell_into_bullish_squeeze" \in soft \/ bullish >= bearish THEN "BUY" ELSE "SELL"
           [] OTHER -> IF bearish > bullish + 10 /\ r.regime = "bear_trend" THEN "SHORT" ELSE "COVER"

\* _is_do_not_trade_reason.
DoNotTradeReasons ==
    {"price_missing_or_zero", "volume_missing_or_zero", "rel_volume_missing_or_zero", "low_liquidity",
     "breakout_without_volume", "short_without_volume_confirmation", "data_quality", "market_data_stale", "quote_status",
     "provider_failed", "snapshot_invalid", "auditor_blocked", "radar_invalid", "institutional_conflict",
     "score_buy_vs_final_short", "score_short_vs_final_buy", "strong_score_without_directional_evidence",
     "buy_against_flow", "short_against_smart_money", "buy_in_downtrend", "short_in_bulltrend"}

\* _decision_state_for.
DecisionState(a, ready, blocked, warnings) ==
    IF ready THEN CASE a = "BUY" -> "BUY_READY" [] a = "SHORT" -> "SHORT_READY" [] OTHER -> "SELL_READY"
    ELSE IF blocked # {} THEN IF blocked \cap DoNotTradeReasons # {} THEN "DO_NOT_TRADE" ELSE "NO_TRADE"
    ELSE IF warnings # {} THEN "WATCH" ELSE "WAIT"

Decision(a, ready, blocked, warnings) ==
    [action |-> a, ready |-> ready, blocked |-> blocked, warnings |-> warnings,
     state |-> DecisionState(a, ready, blocked, warnings)]

Coherence(r, a, bullish, bearish) ==
    LET hard == HardFaults(r, a, bullish, bearish)
        soft == SoftBlocks(r, a)
        warnings == Warnings(r, a, bullish, bearish)
    IN  Decision(ActionAfterBlock(r, a, bullish, bearish, hard, soft),
                 hard \cup soft \cup warnings = {}, hard \cup soft, warnings)
===========================================================================
