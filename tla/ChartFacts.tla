----------------------------- MODULE ChartFacts -----------------------------
(***************************************************************************)
(* What the chart engine reads off one bar (build_trend_breakout_payload,  *)
(* app/engine/trend_breakout_signal_engine.py).                            *)
(*                                                                         *)
(* A bar carries its indicators.  Prices are in hundredths of the average  *)
(* true range, which is the same for all bars; volumes, ATR ratios and     *)
(* settings are in hundredths, confidences in hundredths of a point.  The  *)
(* code treats the short side as the long side upside down, and so does    *)
(* this module: the facts of the short side are those of the mirrored bar. *)
(***************************************************************************)
EXTENDS TradeRules, Sequences

CONSTANTS
    Settings,  \* the profile's thresholds (_PROFILE_DEFAULTS)
    Rules,     \* the profile's bounds on the AI scores (_PROFILE_AI_RULES)
    Mature,    \* the chart is long enough for its slow average to count
    Bars,      \* the bars a chart is drawn from
    Warmups    \* the last bar of the warm-up

\* A bar with its indicators, and thresholds, are whole numbers.
BarType ==
    [open : Int, close : Int, high : Int, low : Int, fast : Int, mid : Int, slow : Int, vwap : Int, res : Int,
     sup : Int, slope : Int, vol : Int, levels : BOOLEAN, atrOk : BOOLEAN, day : Int, hour : Int,
     valid : BOOLEAN, priced : BOOLEAN, closing : BOOLEAN]
SettingsType ==
    [spreadMin : Int, bodyMin : Int, volumeFactor : Int, buffer : Int, distance : Int, maxBody : Int,
     scoreMin : Int, pullbackBars : Int, maxHold : Int, cooldown : Int, room : Int, wickMax : Int,
     rejectMin : Int, edge : Int, cautious : BOOLEAN, tick : Int]

Min2(a, b) == IF a < b THEN a ELSE b
Max2(a, b) == IF a > b THEN a ELSE b
Size(n) == IF n < 0 THEN -n ELSE n
Points(condition, n) == IF condition THEN n ELSE 0

Body(b) == Size(b.close - b.open)
UpperWick(b) == Max2(0, b.high - Max2(b.close, b.open))
LowerWick(b) == Max2(0, Min2(b.close, b.open) - b.low)
Spread(b) == Min2(Size(b.fast - b.mid), Size(b.mid - b.slow))
Buffer == Settings.buffer

Mirror(b) ==
    [b EXCEPT !.open = -b.open, !.close = -b.close, !.high = -b.low, !.low = -b.high,
              !.fast = -b.fast, !.mid = -b.mid, !.slow = -b.slow, !.vwap = -b.vwap,
              !.res = -b.sup, !.sup = -b.res, !.slope = -b.slope]
Facing(side, b) == IF side = "long" THEN b ELSE Mirror(b)
BothSides == {"long", "short"}
Other(side) == IF side = "long" THEN "short" ELSE "long"

---------------------------------------------------------------------------
(***************************************************************************)
(* Volume and volatility.                                                  *)
(***************************************************************************)
VolumeKnown(b, p) == b.vol > 0 \/ p.vol > 0
RelVolume(b, p) == IF VolumeKnown(b, p) THEN b.vol ELSE 100
Expansion(b) == Body(b) >= Max2(22, (70 * Settings.bodyMin) \div 100)
Unmeasured(b, p) == ~VolumeKnown(b, p) /\ Expansion(b)
VolumeOk(b, p) == RelVolume(b, p) >= Settings.volumeFactor \/ Unmeasured(b, p)
VolumeFades(b, p) ==
    (b.vol < 100 /\ b.vol < p.vol) \/ (~VolumeKnown(b, p) /\ Body(b) < Settings.bodyMin)
VolumeResumes(b, p) == (b.vol > 100 /\ b.vol > p.vol) \/ Unmeasured(b, p)
VolumeCarries(b, p) == RelVolume(b, p) >= Max2(90, Settings.volumeFactor - 12) \/ Unmeasured(b, p)

VolatilityOk(b) == b.atrOk /\ b.day \in 80..180 /\ b.hour \in 80..180

---------------------------------------------------------------------------
(***************************************************************************)
(* What a bar is for the long side; p is the bar before.                   *)
(***************************************************************************)
Trend(b) ==
    /\ b.fast > b.mid
    /\ b.mid >= b.slow \/ (~Mature /\ b.close >= b.mid)
    /\ b.slope > 0 /\ Spread(b) >= Settings.spreadMin
    /\ b.close >= b.vwap \/ b.close > b.fast
Strong(b) == b.close > b.open /\ Body(b) >= Settings.bodyMin
Clean(b) == Body(b) > 0 /\ 100 * UpperWick(b) <= Body(b) * Settings.wickMax
\* buying_into_resistance.
Crowded(b) == b.levels /\ b.close <= b.res + Buffer /\ b.res - b.close < Settings.room

\* resistance_reclaim_long.
Reclaim(b, p) ==
    /\ b.levels /\ VolatilityOk(b) /\ VolumeOk(b, p) /\ Strong(b) /\ Clean(b)
    /\ b.high > b.res + Buffer /\ 5 * (b.close - b.res) >= Buffer
    /\ b.close > Max2(b.fast, Max2(b.mid, b.vwap)) /\ b.close >= p.close
    /\ b.fast >= b.mid \/ b.slope > 0
\* long_breakout.
Breakout(b, p) ==
    /\ Trend(b) \/ Reclaim(b, p)
    /\ VolatilityOk(b) /\ VolumeOk(b, p) /\ Strong(b) /\ Clean(b)
    /\ b.levels /\ b.close > b.res + Buffer
Touches(b) == b.fast \in b.low..b.high \/ b.mid \in b.low..b.high
\* pullback_fraco_long, short of its breakout.
WeakPullback(b, p) ==
    /\ Trend(b) /\ Touches(b) /\ VolumeFades(b, p)
    /\ b.close <= b.open \/ Body(b) < Settings.bodyMin
\* long_pullback, short of its arming.
Resumes(b, p) ==
    /\ Trend(b) /\ Strong(b) /\ Clean(b) /\ b.close > p.high
    /\ 100 * LowerWick(b) >= Body(b) * Settings.rejectMin /\ VolumeResumes(b, p)

---------------------------------------------------------------------------
(***************************************************************************)
(* Regime and liquidity of the bar.                                        *)
(***************************************************************************)
\* _detect_liquidity_event.
LiquidityEvent(b, p) ==
    LET wick == Max2(Body(b), Settings.tick)
        absorbed == b.levels /\ RelVolume(b, p) >= 125 /\ Body(b) <= 30
        rejected == b.levels /\ b.high > b.res + Buffer /\ b.close < b.res /\ 100 * UpperWick(b) >= 55 * wick
        reclaimed == b.levels /\ b.low < b.sup - Buffer /\ b.close > b.sup /\ 100 * LowerWick(b) >= 55 * wick
    IN  IF rejected THEN "sweep_high_reject"
        ELSE IF reclaimed THEN "sweep_low_reclaim"
        ELSE IF absorbed /\ b.high >= b.res - Buffer /\ b.close <= b.open THEN "supply_absorption"
        ELSE IF absorbed /\ b.low <= b.sup + Buffer /\ b.close >= b.open THEN "demand_absorption" ELSE "none"

\* The events that help a side, and the ones against it.
Helps(side) == IF side = "long" THEN {"sweep_low_reclaim", "demand_absorption"}
                                ELSE {"sweep_high_reject", "supply_absorption"}
Against(side) == Helps(Other(side))

\* _classify_chart_regime.
Classified(b, p) ==
    LET m == Mirror(b)
        q == Mirror(p)
        accepted == VolatilityOk(b) /\ Spread(b) >= 14
    IN  IF Breakout(b, p) THEN "breakout_up"
        ELSE IF Breakout(m, q) THEN "breakout_down"
        ELSE IF Trend(b) /\ accepted THEN "trend_up"
        ELSE IF Trend(m) /\ accepted THEN "trend_down"
        ELSE IF b.day < 78 /\ Body(b) < 25 THEN "squeeze"
        ELSE IF Spread(b) < 10 /\ RelVolume(b, p) < 112 THEN "chop" ELSE "range"
\* A level reclaimed without a breakout is a reversal.
ChartRegime(b, p) ==
    LET turned(side) == /\ Reclaim(Facing(side, b), Facing(side, p))
                        /\ ~Breakout(Facing(side, b), Facing(side, p))
                        /\ LiquidityEvent(b, p) \notin Against(side)
    IN  IF turned("short") THEN "reversal_down" ELSE IF turned("long") THEN "reversal_up" ELSE Classified(b, p)

\* long_continuation, long_liquidity_reversal (short of its score) and
\* long_trend_acceptance.
Continues(side, b, p) ==
    LET s == Facing(side, b)
        q == Facing(side, p)
    IN  /\ Trend(s) /\ VolatilityOk(b) /\ VolumeCarries(b, p)
        /\ s.close > s.fast /\ s.close >= q.close
        /\ Body(b) >= Max2(18, (55 * Settings.bodyMin) \div 100)
        /\ ~Crowded(s) /\ LiquidityEvent(b, p) \notin Against(side)
Reverses(side, b, p) ==
    /\ LiquidityEvent(b, p) \in Helps(side)
    /\ Facing(side, b).close > Facing(side, b).fast /\ Facing(side, b).close >= Facing(side, p).close
Accepts(side, b, p) ==
    LET s == Facing(side, b)
    IN  /\ ChartRegime(b, p) = IF side = "long" THEN "trend_up" ELSE "trend_down"
        /\ s.close > Max2(s.mid, s.vwap) /\ s.close >= Facing(side, p).close
        /\ Body(b) >= Max2(16, Settings.bodyMin \div 2)
        /\ LiquidityEvent(b, p) \notin Against(side)
        /\ ~Crowded(s) \/ Strong(s) \/ (s.levels /\ s.close > s.res)

\* What a pair of bars is for a side: everything the walk reads of it.  base is
\* the score of the side before a resumed pullback and the bias of the AI.
SideFacts(side, b, p) ==
    LET s == Facing(side, b)
        q == Facing(side, p)
        events == LiquidityEvent(b, p)
        carried == Continues(side, b, p)
    IN  [trend |-> Trend(s), breakout |-> Breakout(s, q), reclaim |-> Reclaim(s, q), crowded |-> Crowded(s),
         weak |-> WeakPullback(s, q), resumes |-> Resumes(s, q), continues |-> carried,
         reverses |-> Reverses(side, b, p), accepts |-> Accepts(side, b, p),
         helped |-> events \in Helps(side), hurt |-> events \in Against(side),
         base |-> Points(Trend(s), 3) + Points(VolatilityOk(b), 2) + Points(VolumeOk(b, p), 2)
                  + Points(Strong(s), 2) + Points(Breakout(s, q), 3) + Points(carried, 2)
                  + Points(Reclaim(s, q), 3) + Points(Size(b.close - b.mid) <= Settings.distance, 1)
                  + Points(Body(b) <= Settings.maxBody, 1) + Points(events \in Helps(side), 1)]
BarFacts(b, p) ==
    [known |-> VolumeKnown(b, p), rel |-> RelVolume(b, p), volumeOk |-> VolumeOk(b, p),
     regime |-> ChartRegime(b, p), event |-> LiquidityEvent(b, p),
     strength |-> Min2(100, (Spread(b) * 34) \div 100 + Points(Trend(b) \/ Trend(Mirror(b)), 22)),
     on |-> [side \in BothSides |-> SideFacts(side, b, p)]]
\* The facts of every bar after every other.
Read == [b \in Bars |-> [p \in Bars \cup Warmups |-> BarFacts(b, p)]]

---------------------------------------------------------------------------
(***************************************************************************)
(* The bias of the AI rows of the snapshot (_build_ai_bias).               *)
(***************************************************************************)
\* What is left when the snapshot cannot be read: no state, and neutral scores.
NoContext == [regime |-> "", smart |-> 50, flow |-> 50, breakout |-> 50, heat |-> 50, master |-> 50,
              squeeze |-> "", smartState |-> "", flowState |-> "", breakoutState |-> "",
              sweepState |-> "", liquidity |-> ""]

\* What the snapshot says of a symbol: the scores and states of its tools' rows
\* (_build_ai_context_from_snapshot).
ContextType ==
    [regime : STRING, smart : Int, flow : Int, breakout : Int, heat : Int, master : Int, squeeze : STRING,
     smartState : STRING, flowState : STRING, breakoutState : STRING, sweepState : STRING, liquidity : STRING]

OwnRegime(side) == IF side = "long" THEN "bull_trend" ELSE "bear_trend"
Coiled(ai) == ai.squeeze \in {"squeeze_ready", "compression"} /\ ai.smart >= 60 /\ ai.regime # "bear_trend"

Bonus(side, ai) ==
    LET own == ai.regime = OwnRegime(side)
        trending == ai.regime \in {"bull_trend", "bear_trend"}
        long == side = "long"
        regime == IF own THEN 3 ELSE IF trending THEN -3 ELSE Points(ai.regime = "high_volatility", -1)
        smart == IF ai.smart >= 75 THEN IF long THEN 2 ELSE -1
                 ELSE IF ai.smart >= 60 THEN Points(long, 1)
                 ELSE IF ai.smart <= 25 THEN IF long THEN -1 ELSE 1 ELSE 0
        flow == IF ai.flow >= 75 THEN IF long THEN 2 ELSE -1
                ELSE IF ai.flow <= 25 THEN IF long THEN -1 ELSE 2 ELSE 0
        master == IF ai.master >= 85 THEN IF own THEN 2 ELSE Points(~trending, 1)
                  ELSE IF ai.master >= 70 THEN Points(own, 1)
                  ELSE IF ai.master > 0 /\ ai.master < Rules.floor
                  THEN IF own THEN -2 ELSE Points(~trending, -1) ELSE 0
    IN  regime + smart + flow + Points(ai.breakout >= 75, 1) + Points(long /\ Coiled(ai), 2) + master

ThresholdAdjust(ai) ==
    Points(ai.regime \in {"high_volatility", "range"}, 1)
    + (IF ai.master >= 85 THEN Points(ai.regime \in {"bull_trend", "bear_trend"}, -1)
       ELSE Points(ai.master > 0 /\ ai.master < Rules.floor, 2))
Required(ai) == Max2(5, Settings.scoreMin + ThresholdAdjust(ai))

BlockedSide(side, ai) ==
    \/ ai.regime = OwnRegime(Other(side)) /\ ai.master < Rules.against
    \/ ai.regime = "high_volatility" /\ ai.master < Rules.volatile
    \/ side = "short" /\ Coiled(ai)
\* exit_long_on_ai and exit_short_on_ai.
ExitOnAi(side, ai) ==
    /\ ai.regime = OwnRegime(Other(side))
    /\ ai.master < 60 \/ (IF side = "long" THEN ai.smart < 45 ELSE ai.smart >= 60)

---------------------------------------------------------------------------
(***************************************************************************)
(* Confidence, and the row the coherence rules are asked about.            *)
(***************************************************************************)
\* _setup_confidence.
Confidence(side, r, own, opposite, ai) ==
    LET good == IF side = "long" THEN UpRegimes ELSE DownRegimes
        base == 4800 + Bounded(400 * (own - Required(ai)), -1200, 1800)
                + Bounded(250 * (own - opposite), -1000, 1600)
                + Bounded(25 * (r.strength - 35), 0, 1200) + Bounded(8 * (r.rel - 100), 0, 800)
                + Points(r.regime \in good, 800) - Points(r.regime \in {"chop", "squeeze"}, 1200)
                + Points(r.on[side].helped, 600) - Points(r.on[side].hurt, 1200)
    IN  Max2(500, Bounded(base, 500, 10000) - Points(~r.known, 600))

\* _coherence_context_row, with the words _explicit_side_from_row finds in it.
ContextRow(b, r, ai, recent) ==
    LET bull == ai.regime = "bull_trend" \/ ai.flowState = "institutional_buying"
        bear == ai.regime = "bear_trend" \/ ai.flowState = "distribution_risk"
        broken == r.on["long"].breakout \/ r.on["short"].breakout
    IN  [quality |-> "priced", stale |-> FALSE, provider |-> FALSE, quoteStatus |-> "", price |-> TRUE,
         volume |-> b.vol > 0, volumeKnown |-> r.known, relVolume |-> r.rel,
         volumeScore |-> Bounded(((r.rel - 80) * 100) \div 140, 0, 100),
         regime |-> ai.regime, chart |-> r.regime, event |-> r.event,
         trendStrength |-> r.strength, trend |-> "",
         above |-> IF b.close >= b.vwap THEN "yes" ELSE "no",
         signal |-> "", direction |-> "",
         side |-> IF bull /\ ~bear THEN "bullish" ELSE IF bear /\ ~bull THEN "bearish" ELSE "mixed",
         score |-> ai.master, master |-> ai.master, auditor |-> "", snapshot |-> "", radar |-> "",
         liquidity |-> ai.liquidity, squeeze |-> ai.squeeze, smart |-> ai.smartState,
         smartScore |-> ai.smart, flow |-> ai.flowState, flowScore |-> ai.flow, heat |-> ai.heat,
         breakout |-> IF broken THEN "ready_to_break" ELSE IF recent THEN "building_pressure" ELSE ai.breakoutState,
         breakoutScore |-> ai.breakout, sweep |-> ai.sweepState, change |-> 0]
===========================================================================
