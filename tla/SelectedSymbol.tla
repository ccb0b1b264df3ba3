--------------------------- MODULE SelectedSymbol ---------------------------
(***************************************************************************)
(* The page of one selected symbol as a function of what the caches hold   *)
(* (app/api/routes_public_market_live.py,                                  *)
(* app/services/public_market_data_service.py,                             *)
(* app/services/public_ai_tools_service.py).                               *)
(***************************************************************************)
EXTENDS Integers, FiniteSets

---------------------------------------------------------------------------
(* Candles and levels.                                                       *)

\* Daily candles: rows, usable closes, and by how many days the last one is
\* behind the session of the quote ("none": the quote has no time).
DailyStatus(d) ==
    IF d.closes < 15 THEN IF d.rows = 0 THEN "PENDING" ELSE "INSUFFICIENT_DATA"
    ELSE IF d.lag = "none" \/ d.lag \in {"0", "1", "2", "3"} THEN "READY" ELSE "STALE"

RsiStatus(d) == IF d.closes < 15 THEN "INSUFFICIENT_DATA" ELSE DailyStatus(d)

\* The volume of the running five minutes against the same five minutes of
\* earlier days: ages in days of those that have a volume.
RvolStatus(r) ==
    IF r.volume > 0 /\ Cardinality(r.ages \cap 1..20) >= 7 THEN "READY" ELSE "INSUFFICIENT_DATA"

MinSide == 1
MinWidth == 3

\* Support and resistance: the extremes of the last candles.  A range of one
\* price keeps one level, and a single level is not rated.
Levels(c) ==
    IF c.rows = 0 \/ c.fallback THEN {}
    ELSE IF c.high = c.low THEN {[kind |-> "resistance", status |-> "none"]}
    ELSE LET valid == /\ c.rows >= 14 /\ c.touched
                      /\ c.close - c.low >= MinSide /\ c.high - c.close >= MinSide
                      /\ c.high - c.low >= MinWidth
         IN {[kind |-> k, status |-> IF valid THEN "READY" ELSE "INSUFFICIENT_SEPARATION"] :
                k \in {"support", "resistance"}}

LevelStatus(c) ==
    IF \E z \in Levels(c) : z.status = "INSUFFICIENT_SEPARATION" THEN "INSUFFICIENT_SEPARATION"
    ELSE IF Levels(c) = {} THEN "PENDING" ELSE "READY"

---------------------------------------------------------------------------
(* The quote of the page.                                                    *)

\* A cached quote: its price, whether it is marked stale, its age.
Usable(q) == q.price > 0
NeedsRefresh(q) == q.price = 0 \/ q.stale \/ q.source \in {"fallback", "empty"} \/ q.age > 180

\* _resolve_cached_quote: a fresh one, then any with the label stale, then the
\* row of the snapshot as it is, and a refresh is scheduled when there is none.
QuoteStatus(cached, row) ==
    IF Usable(cached) /\ ~NeedsRefresh(cached) THEN "valid"
    ELSE IF Usable(cached) THEN "stale"
    ELSE IF Usable(row) THEN IF row.stale THEN "stale" ELSE "valid"
    ELSE "scheduled"

---------------------------------------------------------------------------
(* AI tools.                                                                 *)

\* A row of a tool: what it says of its quality, the age of its bar (intraday
\* in seconds, daily in completed sessions since), whether it has a price and volume.
RowStale(r) == r.quality = "stale" \/ r.marked \/ IF r.intraday THEN r.age > 900 ELSE r.age > 0
Displayable(r) == r.quality \notin {"empty", "invalid", "score_only"} /\ r.priced

\* _payload_from_snapshot: rows of a stale snapshot, and stale rows, are history.
SnapshotTools(snap) ==
    LET shown == {r \in snap.rows : Displayable(r)}
        active == {r \in shown : ~snap.stale /\ ~RowStale(r)}
    IN [status |-> IF active # {} THEN "READY" ELSE IF shown # {} THEN "HISTORICAL"
                   ELSE IF snap.stale THEN "STALE" ELSE "EMPTY",
        rows |-> active, by |-> "snapshot"]

\* Of an analysis made for the symbol, every displayable row is current.
OwnTools(rows) == [status |-> "READY", rows |-> {r \in rows : Displayable(r)}, by |-> "analysis"]
NoTools(status) == [status |-> status, rows |-> {}, by |-> "analysis"]

\* _ai_metric_component
ToolStatus(tools, tool) ==
    IF ~\E r \in tools.rows : r.tool = tool
    THEN IF tools.status \in {"PENDING", "REFRESHING"} THEN "PENDING" ELSE "INSUFFICIENT_DATA"
    ELSE tools.status

Liquidity(tools) ==
    IF ToolStatus(tools, "liquidity") # "READY" THEN ToolStatus(tools, "liquidity")
    ELSE IF \E r \in tools.rows : r.tool = "liquidity" /\ r.low < r.high THEN "READY" ELSE "INSUFFICIENT_DATA"

---------------------------------------------------------------------------
(* The operational view.                                                     *)

\* The mood of the current news that have been classified; there is none for a
\* crypto asset whose news are all old.
Sentiment(f) ==
    IF f.news = "classified" THEN "READY"
    ELSE IF f.crypto /\ f.news = "historical" THEN "UNSUPPORTED" ELSE "INSUFFICIENT_DATA"

\* f.votes: the direction of the daily trend, of the running session and of the
\* flow; f.news: "classified", "historical" or "none".
Statuses(f, tools) ==
    [trend_d1 |-> DailyStatus(f.daily), rsi_d1 |-> RsiStatus(f.daily), intraday_rvol |-> RvolStatus(f.rvol),
     direction |-> IF f.votes.direction = "none" THEN "PENDING" ELSE "READY",
     flow |-> IF f.crypto THEN "UNSUPPORTED" ELSE ToolStatus(tools, "flow"),
     liquidity |-> IF f.crypto THEN "UNSUPPORTED" ELSE Liquidity(tools),
     levels |-> LevelStatus(f.chart),
     sentiment |-> Sentiment(f)]

\* All but the news and the direction are required for a trade.
Required == {"trend_d1", "rsi_d1", "intraday_rvol", "flow", "liquidity", "levels"}
OperationalBlocks(f, tools) == {c \in Required : Statuses(f, tools)[c] # "READY"}

\* Two of the daily trend, the direction and the flow, of those that are ready.
TechnicalBias(f, tools) ==
    LET votes(d) == {c \in DOMAIN f.votes : f.votes[c] = d /\ Statuses(f, tools)[c] = "READY"}
        up == Cardinality(votes("up"))
        down == Cardinality(votes("down"))
    IN IF up >= 2 /\ up > down THEN "BULLISH" ELSE IF down >= 2 /\ down > up THEN "BEARISH" ELSE "MIXED"

\* The master score is complete when all its components are; the liquidity is
\* one of them for a crypto asset only.
ScoreStatus(f, tools, scored) ==
    LET parts == (Required \cup {"direction", "sentiment"}) \ (IF f.crypto THEN {} ELSE {"liquidity"})
    IN IF ~scored THEN "PENDING"
       ELSE IF \A c \in parts : Statuses(f, tools)[c] = "READY" THEN "READY" ELSE "PARTIAL"

\* build_symbol_operational_view
Decision(f, tools, insight) == IF OperationalBlocks(f, tools) # {} THEN "WAIT" ELSE insight.decision

\* _gate_pending_operational_levels: the action the panel shows.
PanelAction(f, insight) == IF LevelStatus(f.chart) # "READY" THEN "WAIT" ELSE insight.decision

\* What the page shows.  Readers that have not paid see no analysis.
Page(f, tools, insight, premium) ==
    [decision |-> IF premium THEN Decision(f, tools, insight) ELSE "locked",
     panel |-> IF premium THEN PanelAction(f, insight) ELSE "locked",
     bias |-> TechnicalBias(f, tools), levels |-> LevelStatus(f.chart), sides |-> {z.kind : z \in Levels(f.chart)},
     score |-> IF premium THEN ScoreStatus(f, tools, insight.scored) ELSE "locked",
     by |-> insight.by, toolsBy |-> tools.by,
     tools |-> IF premium THEN tools.status ELSE "PREMIUM_LOCKED"]
===========================================================================
