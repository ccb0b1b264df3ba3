------------------------- MODULE DecisionContract -------------------------
(***************************************************************************)
(* What every surface of a market snapshot asks of a row                   *)
(* (app/services/snapshot_contract.py): how good its data are, which side  *)
(* it is on, its decision envelope, and whether it counts as actionable or *)
(* as blocked.  A row is a record; a field no stage has written yet holds  *)
(* "" (or no reason at all).                                               *)
(***************************************************************************)
EXTENDS Integers, FiniteSets

Actionable == {"BUY", "SELL", "SHORT", "COVER"}
BullishActions == {"BUY", "COVER"}
BearishActions == {"SELL", "SHORT"}
NoTradeSignals == {"NO_TRADE", "DO_NOT_TRADE"}
BlockedStates == {"WATCH", "WAIT", "NO_TRADE", "DO_NOT_TRADE"}
ReadyState == [s \in Actionable |->
    IF s = "BUY" THEN "BUY_READY" ELSE IF s = "SHORT" THEN "SHORT_READY" ELSE "SELL_READY"]

Qualities == {"real_time", "cached", "stale", "empty", "invalid", "score_only"}
BadQualities == {"stale", "empty", "invalid", "score_only"}

\* The quality of a row whose feed may have named it otherwise.
CoerceQuality(r) ==
    CASE r.quality \in Qualities -> r.quality
      [] r.quality \notin Qualities /\ r.provider -> "invalid"
      [] r.quality \notin Qualities /\ ~r.provider /\ r.stale -> "stale"
      [] OTHER -> CASE r.quality = "priced" -> "real_time"
                    [] r.quality = "partial" -> "score_only"
                    [] r.quality = "missing" -> "empty"
                    [] r.quality = "failed" -> "invalid"
                    [] OTHER -> IF r.price /\ r.volume THEN "cached"
                                ELSE IF r.price \/ r.volume THEN "score_only" ELSE "empty"

QualityScore(q) ==
    CASE q = "real_time" -> 100 [] q = "cached" -> 88 [] q = "score_only" -> 52
      [] q = "stale" -> 35 [] q = "empty" -> 12 [] OTHER -> 0

\* The side of a row: the master direction once there is one, else its signal.
Orientation(r) ==
    IF r.masterDir # "" THEN IF r.masterDir = "NEUTRAL" THEN "" ELSE r.masterDir
    ELSE IF r.signal \in BullishActions THEN "BULLISH"
    ELSE IF r.signal \in BearishActions THEN "BEARISH" ELSE ""

MasterConfirms(r) ==
    \/ r.masterDir = "" \/ r.signal \notin Actionable
    \/ r.masterDir = "BULLISH" /\ r.signal \in BullishActions
    \/ r.masterDir = "BEARISH" /\ r.signal \in BearishActions

---------------------------------------------------------------------------
(***************************************************************************)
(* The decision envelope: the reasons against the row, and one status by   *)
(* their precedence.                                                       *)
(***************************************************************************)
When(condition, reasons) == IF condition THEN reasons ELSE {}

ConflictReasons == {"decision_conflict", "Conflito de Tendencia"}

HasConflict(r) ==
    \/ r.conflict
    \/ ~MasterConfirms(r)
    \/ (r.blocked \cup r.finalBlocks) \cap (ConflictReasons \cup {"master_score_context_not_confirmed"}) # {}

DataReasons == {"data_quality", "provider_failed", "price_invalid", "volume_invalid"}

Blockers(r, stale) ==
       When(stale \/ r.stale \/ CoerceQuality(r) = "stale", {"snapshot_stale"})
  \cup When(CoerceQuality(r) \in BadQualities \ {"stale"}, {"data_quality"})
  \cup When(r.provider, {"provider_failed"})
  \cup When(~r.price, {"price_invalid"})
  \cup When(~r.volume, {"volume_invalid"})
  \cup When(r.audit = "BLOCKED", {"auditor_blocked"})
  \cup When(r.masterStatus = "BLOCKED", {"master_score_blocked"})
  \cup When(r.op = "BLOCKED", r.opBlocks)
  \cup r.radarBlocks \cup r.rankBlocks
  \cup When(r.final = "NO_TRADE", r.finalBlocks)
  \cup When(HasConflict(r), {"decision_conflict"})
  \cup r.blocked

Statuses == {"STALE_DATA", "INSUFFICIENT_DATA", "CONFLICT", "BLOCKED", "NO_TRADE", "READY"}

EnvelopeStatus(r, stale) ==
    LET b == Blockers(r, stale)
    IN  IF "snapshot_stale" \in b THEN "STALE_DATA"
        ELSE IF b \cap DataReasons # {} THEN "INSUFFICIENT_DATA"
        ELSE IF b \cap ConflictReasons # {} THEN "CONFLICT"
        ELSE IF b # {} THEN "BLOCKED"
        ELSE IF r.signal \notin Actionable \/ r.state \in BlockedStates \/ r.ready # "yes"
             THEN "NO_TRADE"
        ELSE "READY"

\* resolve_decision_envelope: an envelope the producer attached is kept.
ResolvedStatus(r) == IF r.envelope # "" THEN r.envelope ELSE EnvelopeStatus(r, FALSE)
HasBlockingReasons(r) == r.blocked # {} \/ r.envelopeBlocks # {}

StateAgrees(r) == r.state = "" \/ (r.signal \in Actionable /\ r.state = ReadyState[r.signal])

IsActionable(r) ==
    /\ ResolvedStatus(r) = "READY"
    /\ r.audit # "BLOCKED" /\ r.masterStatus # "BLOCKED"
    /\ r.signal \in Actionable /\ MasterConfirms(r)
    /\ r.ready = "yes"
    /\ StateAgrees(r)
    /\ ~r.stale /\ r.quality \notin BadQualities \cup {"missing", "failed"}
    /\ ~r.provider
    /\ ~HasBlockingReasons(r)
    /\ r.price /\ r.volume

IsBlocked(r) ==
    /\ ~IsActionable(r)
    /\ \/ EnvelopeStatus(r, FALSE) \notin {"NO_TRADE", "READY"}
       \/ r.signal \in NoTradeSignals \/ r.state \in NoTradeSignals
       \/ r.audit = "BLOCKED" \/ r.masterStatus = "BLOCKED"
       \/ r.signal \in Actionable /\ ~MasterConfirms(r)
       \/ r.stale \/ r.quality \in BadQualities \cup {"missing", "failed"} \/ r.provider
       \/ HasBlockingReasons(r)
       \/ r.signal \in Actionable /\ (r.ready # "yes" \/ ~r.price \/ ~r.volume \/ ~StateAgrees(r))

IsWatchlist(r) == r.signal \in {"WATCH", "WAIT", "HOLD"} \/ r.state \in {"WATCH", "WAIT"}

Attach(r, stale) ==
    [r EXCEPT !.envelope = EnvelopeStatus(r, stale),
              !.envelopeBlocks = Blockers(r, stale),
              !.ready = IF EnvelopeStatus(r, stale) = "READY" THEN "yes" ELSE "no"]

\* snapshot_surface_row: what the API serves has its envelope computed again,
\* without the snapshot's own staleness.
Surface(r) == Attach(r, FALSE)
===========================================================================
