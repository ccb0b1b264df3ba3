-------------------------- MODULE DecisionStages --------------------------
(***************************************************************************)
(* The stages a row of the market snapshot goes through, as functions from *)
(* rows to rows: the institutional auditor, the master score and its       *)
(* strategic panel (app/ai/institutional_auditor.py, ai_master_score.py,   *)
(* strategic_panel.py), then radar, ranking, operational rules,            *)
(* conviction, priority and final decision.  Scores are whole points:      *)
(* fractions are dropped.                                                  *)
(*                                                                         *)
(* e is what the stages read besides the row: the reading of the eight     *)
(* tools with a direction ("bull", "bear", "flat": a state that names no   *)
(* side, "plain": no state at all), one score for all of them, the score   *)
(* of the risk tool, one remark of a tool, the engine's own risk level,    *)
(* the sentiment of the market pulse and whether most of its rows are      *)
(* blocked, the radar's score, the row's history, and whether the snapshot *)
(* is a fallback.                                                          *)
(***************************************************************************)
EXTENDS DecisionContract, FiniteSetsExt

Tools == {"flow", "liquidity", "trend", "momentum", "smart_money", "news", "macro", "regime"}
Remarks == {"", "thin_liquidity", "liquidity_trap", "momentum_quiet", "radar_invalid", "range",
            "macro_unavailable", "risk_blocks"}

Clamp(n) == IF n < 0 THEN 0 ELSE IF n > 100 THEN 100 ELSE n
AtMost(n, limit) == IF n > limit THEN limit ELSE n
Percent(n, weight) == (n * weight) \div 100

---------------------------------------------------------------------------
(***************************************************************************)
(* The institutional auditor.                                              *)
(***************************************************************************)
\* A remark is the state of its tool.
Reading(e, t) ==
    CASE t = "liquidity" /\ e.remark \in {"thin_liquidity", "liquidity_trap"} -> "plain"
      [] t = "momentum" /\ e.remark \in {"momentum_quiet", "radar_invalid"} -> "plain"
      [] t = "regime" /\ e.remark = "range" -> "flat"
      [] t = "macro" /\ e.remark = "macro_unavailable" -> "flat"
      [] OTHER -> e.tools[t]

\* A tool without a direction of its own follows the row's side at 70 points.
AuditDirection(e, r, t) ==
    IF t = "liquidity" /\ e.remark \in {"thin_liquidity", "liquidity_trap"} THEN "risk"
    ELSE IF t = "momentum" /\ e.remark = "radar_invalid" THEN "risk"
    ELSE IF Reading(e, t) \in {"bull", "bear"} THEN Reading(e, t)
    ELSE IF e.strength >= 70 /\ Orientation(r) # ""
         THEN IF Orientation(r) = "BULLISH" THEN "bull" ELSE "bear"
    ELSE "neutral"

\* Mutant: the auditor only stops at a critical risk.
RiskStateLate(e) == IF e.risk >= 85 THEN "critical" ELSE IF e.risk >= 45 THEN "medium" ELSE "low"

RiskState(e) ==
    IF e.risk >= 85 THEN "critical" ELSE IF e.risk >= 70 THEN "high"
    ELSE IF e.risk >= 45 THEN "medium" ELSE "low"

PulseAgainst(e, r) ==
    Orientation(r) # "" /\ e.pulse \in {"BULLISH", "BEARISH"} /\ e.pulse # Orientation(r)

Opposed(a, b) == {a, b} = {"bull", "bear"}

\* _conflicts: blocks, warnings, and whether their level is medium or above.
TrendConflict(e, r) ==
    /\ Opposed(AuditDirection(e, r, "trend"), AuditDirection(e, r, "smart_money"))
    /\ AuditDirection(e, r, "liquidity") \in {"risk", AuditDirection(e, r, "smart_money")}
TrendDoubt(e, r) ==
    /\ Opposed(AuditDirection(e, r, "trend"), AuditDirection(e, r, "smart_money"))
    /\ ~TrendConflict(e, r)
RiskyMomentum(e, r) ==
    AuditDirection(e, r, "momentum") \in {"bull", "bear"} /\ RiskState(e) \in {"high", "critical"}
RiskyMomentumBlocks(e, r) ==
    RiskyMomentum(e, r) /\ (CoerceQuality(r) \in BadQualities \/ RiskState(e) = "critical")
NewsDoubt(e, r) ==
    /\ AuditDirection(e, r, "news") = "bull" /\ AuditDirection(e, r, "macro") = "bear"
    /\ AuditDirection(e, r, "regime") \in {"neutral", "risk"}

\* Mutant: the auditor looks neither at the row's quality nor at where the
\* snapshot comes from.
FeedFaultsOfRow(e, r) ==
       When(~r.price, {"Preco Ausente"}) \cup When(~r.volume, {"Volume Ausente"})
  \cup When(r.provider, {"Provider Error"})

FeedFaults(e, r) ==
       When(CoerceQuality(r) \in BadQualities, {"Data Quality Ruim"})
  \cup When(e.stale, {"Snapshot Invalido"})
  \cup When(~r.price, {"Preco Ausente"})
  \cup When(~r.volume, {"Volume Ausente"})
  \cup When(r.provider, {"Provider Error"})

AuditBlocks(e, r) ==
       r.auditBlocks \cup FeedFaults(e, r)
  \cup When(r.ready = "no", {"Decision Ready False"})
  \cup When(r.state \in NoTradeSignals \/ r.signal \in NoTradeSignals, {"NO_TRADE"})
  \cup When(RiskState(e) \in {"high", "critical"} \/ e.remark = "risk_blocks", {"Risk IA Bloqueando"})
  \cup When(e.remark = "thin_liquidity", {"Baixa Liquidez"})
  \cup When(e.remark = "radar_invalid", {"Radar Invalido"})
  \cup When(PulseAgainst(e, r), {"Market Pulse Inconsistente"})
  \cup When(TrendConflict(e, r), {"Conflito de Tendencia"})

AuditWarnings(e, r) ==
    (  r.auditWarnings
  \cup When(RiskState(e) = "medium" /\ e.remark # "risk_blocks", {"Risk IA em atencao"})
  \cup When(e.remark = "liquidity_trap", {"Liquidez Insuficiente"})
  \cup When(e.remark = "momentum_quiet", {"Momentum sem Confirmacao"})
  \cup When(TrendDoubt(e, r), {"Conflito entre Trend IA e Smart Money IA"})
  \cup When(RiskyMomentum(e, r) /\ ~RiskyMomentumBlocks(e, r), {"Momentum forte com risco elevado"})
  \cup When(NewsDoubt(e, r), {"News positiva com macro/regime desfavoravel"})
  \cup When(e.remark = "range", {"Mercado Lateral"})
  \cup When(e.remark = "macro_unavailable", {"Macro Indisponivel"})) \ AuditBlocks(e, r)

ConflictSeen(e, r) ==
    \/ TrendConflict(e, r) \/ TrendDoubt(e, r) \/ RiskyMomentum(e, r) \/ NewsDoubt(e, r)
    \/ (r.auditBlocks \cup r.auditWarnings)
           \cap {"Conflito de Tendencia", "Conflito entre Trend IA e Smart Money IA"} # {}

SevereConflict(e, r) == "Conflito de Tendencia" \in AuditBlocks(e, r) \/ RiskyMomentumBlocks(e, r)

AuditStatus(e, r) ==
    IF AuditBlocks(e, r) # {} THEN "BLOCKED"
    ELSE IF AuditWarnings(e, r) # {} THEN "CAUTION" ELSE "APPROVED"

AuditScore(e, r) ==
    LET b == AuditBlocks(e, r)
        w == AuditWarnings(e, r)
        score == Clamp(92 - 16 * Cardinality(b) - 6 * Cardinality(w)
                       - (IF "Risk IA Bloqueando" \in b THEN 14 ELSE 0)
                       - (IF SevereConflict(e, r) THEN 18 ELSE 0))
    IN  IF b # {} THEN AtMost(score, 39) ELSE IF w # {} THEN AtMost(score, 79) ELSE score

\* build_institutional_audit and attach_audit_contract: the blocks and the
\* conflict of an earlier audit of the same row are kept.
Audited(e, r) ==
    LET blocked == AuditBlocks(e, r) # {}
    IN  [r EXCEPT !.audit = AuditStatus(e, r), !.auditScore = AuditScore(e, r),
                  !.auditBlocks = AuditBlocks(e, r), !.auditWarnings = AuditWarnings(e, r),
                  !.conflict = @ \/ ConflictSeen(e, r),
                  !.blocked = IF blocked THEN @ \cup {"auditor_blocked"} \cup AuditBlocks(e, r) ELSE @,
                  !.ready = IF blocked THEN "no" ELSE @,
                  !.state = IF blocked THEN "DO_NOT_TRADE" ELSE @]

---------------------------------------------------------------------------
(***************************************************************************)
(* The master score: nine tools, the risk tool always neutral.             *)
(***************************************************************************)
SideOfSignal(r) ==
    IF r.signal \in BullishActions THEN "BULLISH"
    ELSE IF r.signal \in BearishActions THEN "BEARISH" ELSE "NEUTRAL"

MasterReading(e, r, t) ==
    CASE Reading(e, t) = "bull" -> "BULLISH"
      [] Reading(e, t) = "bear" -> "BEARISH"
      [] Reading(e, t) = "plain" /\ e.strength >= 72 /\ t \notin {"news", "macro"} -> SideOfSignal(r)
      [] OTHER -> "NEUTRAL"

Aligned(e, r, d) == {t \in Tools : MasterReading(e, r, t) = d}
Opposite(d) == IF d = "BULLISH" THEN "BEARISH" ELSE "BULLISH"

ContextAvailable(e, r, d) ==
    /\ Cardinality(Aligned(e, r, d) \cap {"flow", "liquidity", "trend", "smart_money", "regime"}) >= 3
    /\ Aligned(e, r, d) \cap {"trend", "regime"} # {}
    /\ Aligned(e, r, d) \cap {"flow", "liquidity", "smart_money"} # {}

\* The context needs three of five tools, so it never supports both sides.
Supports(e, r, d) ==
    /\ ContextAvailable(e, r, d)
    /\ e.strength >= 58
    /\ Cardinality(Aligned(e, r, Opposite(d))) <= 3

ChooseDirection(e, r) ==
    IF r.audit = "BLOCKED" THEN "NEUTRAL"
    ELSE IF Supports(e, r, "BULLISH") THEN "BULLISH"
    ELSE IF Supports(e, r, "BEARISH") THEN "BEARISH" ELSE "NEUTRAL"

\* Tools aligned with a direction and against it, of nine.
AlignedCount(e, r, d) ==
    LET n(s) == Cardinality(Aligned(e, r, s)) + (IF s = "NEUTRAL" THEN 1 ELSE 0)
    IN  IF d = "NEUTRAL" THEN Max({n(s) : s \in {"BULLISH", "BEARISH", "NEUTRAL"}}) ELSE n(d)
OpposingCount(e, r, d) ==
    IF d = "NEUTRAL" THEN Min({Cardinality(Aligned(e, r, s)) : s \in {"BULLISH", "BEARISH"}})
    ELSE Cardinality(Aligned(e, r, Opposite(d)))
Ratio(aligned) == (aligned * 100) \div 9

MasterRisk(e) ==
    IF e.risk >= 70 \/ e.engineRisk = "alto" THEN "Alto" ELSE IF e.risk >= 45 THEN "Moderado" ELSE "Baixo"

Conviction(d, aligned, opposing) ==
    CASE d # "NEUTRAL" /\ aligned >= 6 /\ opposing <= 1 -> "Alta"
      [] d # "NEUTRAL" /\ aligned >= 4 /\ opposing <= 2 /\ ~(aligned >= 6 /\ opposing <= 1) -> "Media"
      [] OTHER -> "Baixa"

ConfidencePct(r, aligned) ==
    LET n == Percent(QualityScore(CoerceQuality(r)), 38) + Percent(r.auditScore, 27)
             + Percent(Ratio(aligned), 25) + (IF r.conflict THEN 7 ELSE 10)
    IN  IF r.audit = "BLOCKED" THEN 0 ELSE IF r.audit = "CAUTION" THEN AtMost(n, 74) ELSE AtMost(n, 100)
ConfidenceLabel(n) == IF n > 65 THEN "Alta" ELSE IF n >= 35 THEN "Media" ELSE "Baixa"

MasterScore(e, r, d) ==
    LET q == QualityScore(CoerceQuality(r))
        neutral == AtMost(42 + AtMost(2 * (Cardinality(Aligned(e, r, "NEUTRAL")) + 1), 12) + Percent(q, 6), 59)
        sided == e.strength \div 2 + Percent(Ratio(AlignedCount(e, r, d)), 22) + Percent(r.auditScore, 17)
                 + Percent(q, 11) + 5 - 4 * OpposingCount(e, r, d)
                 - (CASE MasterRisk(e) = "Alto" -> 18 [] MasterRisk(e) = "Moderado" -> 6 [] OTHER -> 0)
    IN  IF r.audit = "BLOCKED" THEN AtMost(r.auditScore, 39)
        ELSE IF d = "NEUTRAL" THEN IF r.audit = "CAUTION" THEN AtMost(neutral, 55) ELSE neutral
        ELSE IF r.audit = "CAUTION" THEN AtMost(Clamp(sided), 79) ELSE Clamp(sided)

\* _score_row: the master row of a ticker, with the decision it proposes.
MasterRow(e, r) ==
    LET d == ChooseDirection(e, r)
        aligned == AlignedCount(e, r, d)
        opposing == OpposingCount(e, r, d)
        trades == r.audit # "BLOCKED" /\ r.signal \in Actionable /\ d = SideOfSignal(r)
    IN  [dir |-> d, score |-> MasterScore(e, r, d), status |-> r.audit, risk |-> MasterRisk(e),
         aligned |-> aligned, opposing |-> opposing,
         conviction |-> IF r.audit = "BLOCKED" THEN "Baixa" ELSE Conviction(d, aligned, opposing),
         confidence |-> ConfidenceLabel(ConfidencePct(r, aligned)),
         action |-> IF trades THEN r.signal ELSE "NO_DECISION",
         ready |-> trades /\ r.ready = "yes"]

\* apply_master_scores_by_ticker.
MasterApplied(m, r) ==
    LET n == [r EXCEPT !.masterDir = m.dir, !.masterScore = m.score, !.masterStatus = m.status,
                       !.masterRisk = m.risk, !.conviction = m.conviction, !.confidence = m.confidence,
                       !.aligned = m.aligned, !.opposing = m.opposing]
    IN  IF m.status = "BLOCKED"
        THEN [n EXCEPT !.blocked = @ \cup {"master_score_blocked"} \cup r.auditBlocks,
                       !.ready = "no", !.state = "DO_NOT_TRADE"]
        ELSE IF ~MasterConfirms(n)
        THEN [n EXCEPT !.blocked = @ \cup {"master_score_context_not_confirmed"},
                       !.ready = "no", !.state = "NO_TRADE"]
        ELSE n

---------------------------------------------------------------------------
(***************************************************************************)
(* The strategic panel: an action for the reader, and whether it forbids   *)
(* the trade.                                                              *)
(***************************************************************************)
PanelRisk(e, m) ==
    IF m.risk = "Alto" \/ e.risk >= 70 THEN "Alto"
    ELSE IF m.risk = "Moderado" \/ e.risk >= 45 THEN "Moderado" ELSE "Baixo"

RecommendedAction(e, m) ==
    CASE m.status = "BLOCKED" -> "NO_TRADE"
      [] m.status # "BLOCKED" /\ PanelRisk(e, m) = "Alto" -> "WAIT"
      [] OTHER ->
         CASE m.dir = "NEUTRAL" ->
                  IF m.status = "APPROVED" /\ PanelRisk(e, m) = "Baixo" THEN "OBSERVE" ELSE "WAIT"
           [] m.dir # "NEUTRAL" /\ m.status = "CAUTION" -> IF m.score >= 65 THEN "FORMING" ELSE "WAIT"
           [] OTHER -> IF m.score >= 80 /\ m.conviction = "Alta" /\ m.confidence # "Baixa" THEN "CONFIRMED"
                       ELSE IF m.score >= 60 THEN "FORMING" ELSE "OBSERVE"

\* validate_canonical_analysis: the master row carries no regime and no bias
\* of its own, so only its action can contradict its direction.
AnalysisConflict(m) == ~MasterConfirms([masterDir |-> m.dir, signal |-> m.action])

\* build_strategic_panel.
PanelAction(e, m) ==
    IF m.status = "BLOCKED" \/ AnalysisConflict(m) \/ (~m.ready /\ m.dir # "NEUTRAL")
    THEN "NO_TRADE" ELSE RecommendedAction(e, m)

---------------------------------------------------------------------------
(***************************************************************************)
(* Radar, ranking and operational rules: the reasons against the row, and  *)
(* a score when there is none.                                             *)
(***************************************************************************)
\* The risk of every later stage: the tool's, the panel's or the master row's.
StageRisk(e, r) ==
    IF e.risk >= 85 THEN "Critico"
    ELSE IF e.risk >= 70 \/ r.masterRisk = "Alto" THEN "Alto"
    ELSE IF e.risk >= 45 \/ r.masterRisk = "Moderado" THEN "Moderado" ELSE "Baixo"

\* What the three stages hold against a row alike.
CommonReasons(e, r) ==
       When(r.audit = "BLOCKED", r.auditBlocks)
  \cup When(r.masterStatus = "BLOCKED", {"score mestre bloqueou"})
  \cup When(r.panel = "NO_TRADE", {"painel estrategico bloqueou"})
  \cup When(r.ready # "yes", {"decision_ready falso"})
  \cup When(CoerceQuality(r) \in BadQualities, {"data quality"})
  \cup When(r.stale, {"snapshot stale"})
  \cup When(StageRisk(e, r) = "Critico", {"risco critico"})

\* Mutant: the radar keeps no reason for a row that is merely not actionable.
RadarReasonsListed(e, r) == CommonReasons(e, r)

RadarReasons(e, r) ==
    CommonReasons(e, r)
    \cup When(CommonReasons(e, r) = {} /\ ~IsActionable(r), {"sinal nao acionavel"})

RankReasons(e, r) ==
    LET known == CommonReasons(e, r) \cup r.radarBlocks
    IN  known \cup When(known = {} /\ ~IsActionable(r), {"ativo nao elegivel"})

OperationalReasons(e, r) == CommonReasons(e, r) \cup r.radarBlocks

\* Bonus for a word: alta, media, anything else.
Word(w, high, medium, low) == CASE w = "Alta" -> high [] w = "Media" -> medium [] OTHER -> low
Consensus(r, low) ==
    IF Ratio(r.aligned) >= 66 /\ r.opposing <= 1 THEN 10
    ELSE IF Ratio(r.aligned) >= 44 /\ r.opposing <= 2 THEN 4 ELSE -low
LowConsensus(r) == Ratio(r.aligned) < 44 \/ r.opposing >= 3
Pulse(e, r, against) ==
    (IF e.pulse = "NEUTRAL" THEN -2 ELSE IF e.pulse = r.masterDir THEN 5
     ELSE IF e.pulse = "BEARISH" /\ r.masterDir = "BULLISH" THEN -against ELSE 0)
    - (IF e.mostBlocked THEN 4 ELSE 0)
RiskPoints(e, r, low, medium, high) ==
    CASE StageRisk(e, r) = "Baixo" -> low [] StageRisk(e, r) = "Moderado" -> medium
      [] StageRisk(e, r) = "Alto" -> high [] OTHER -> 0
AuditPoints(r, approved, caution) ==
    CASE r.audit = "APPROVED" -> approved [] r.audit = "CAUTION" -> caution [] OTHER -> 0

RadarScore(e, r) ==
    Clamp(Percent(e.radar, 30) + Percent(r.masterScore, 35) + Percent(r.auditScore, 10)
          + Word(r.conviction, 8, 4, -8) + Word(r.confidence, 8, 4, -10) + Consensus(r, 10)
          + Pulse(e, r, 0) + AuditPoints(r, 4, -10) + RiskPoints(e, r, 4, -6, -18))
RadarLevel(n) == IF n >= 80 THEN "alta" ELSE IF n >= 62 THEN "media" ELSE "observacao"

RankScore(e, r) ==
    Clamp(Percent(r.masterScore, 42) + Percent(IF r.radarScore = 0 THEN 50 ELSE r.radarScore, 24)
          + Percent(r.auditScore, 10)
          + Word(r.conviction, 8, 4, -8) + Word(r.confidence, 8, 4, -10) + Consensus(r, 12)
          + Pulse(e, r, 7) + AuditPoints(r, 4, -8) + RiskPoints(e, r, 5, -4, -16))
RankClass(n) ==
    IF n >= 86 THEN "excelente" ELSE IF n >= 74 THEN "forte"
    ELSE IF n >= 60 THEN "moderada" ELSE "observacao"

\* enrich_institutional_radar_rows.
RadarEnriched(e, r) ==
    LET reasons == RadarReasons(e, r)
        score == IF reasons = {} THEN RadarScore(e, r) ELSE 0
    IN  [r EXCEPT !.radarBlocks = reasons, !.radarScore = score,
                  !.radarLevel = IF reasons = {} THEN RadarLevel(score) ELSE "bloqueado"]

\* enrich_institutional_ranking_rows.
RankEnriched(e, r) ==
    LET reasons == RankReasons(e, r)
        score == IF reasons = {} THEN RankScore(e, r) ELSE 0
    IN  [r EXCEPT !.rankBlocks = reasons, !.rankScore = score,
                  !.rankClass = IF reasons = {} THEN RankClass(score) ELSE "bloqueado"]

OperationalWarnings(e, r) ==
       When(r.audit = "CAUTION", {"auditor caution"})
  \cup When(r.confidence = "Baixa", {"confianca baixa"})
  \cup When(LowConsensus(r), {"consenso baixo"})
  \cup When(StageRisk(e, r) = "Alto", {"risco alto"})
  \cup When(e.history = "none", {"amostra historica insuficiente"})
  \cup When(e.history = "baixa", {"confianca historica baixa"})
  \cup When(e.pulse = "NEUTRAL", {"market pulse neutro"})
  \cup When(r.rankClass = "observacao", {"ranking em observacao"})
  \cup When(r.radarLevel = "observacao", {"radar em observacao"})

HistoryScore(e) == CASE e.history = "alta" -> 80 [] e.history = "moderada" -> 60 [] e.history = "baixa" -> 40 [] OTHER -> 0
RiskComponent(e, r) ==
    CASE StageRisk(e, r) = "Baixo" -> 100 [] StageRisk(e, r) = "Moderado" -> 68
      [] StageRisk(e, r) = "Alto" -> 35 [] OTHER -> 0
OperationalScore(e, r, warnings) ==
    LET score == Percent(r.masterScore, 25) + Percent(r.rankScore, 20) + Percent(r.radarScore, 15)
                 + Percent(r.auditScore, 15) + Percent(HistoryScore(e), 10)
                 + Percent(QualityScore(CoerceQuality(r)), 10) + Percent(RiskComponent(e, r), 5)
                 - AtMost(6 * Cardinality(warnings), 24)
    IN  Clamp(IF warnings # {} THEN AtMost(score, 79) ELSE score)

\* enrich_operational_rules_rows: no warning of a blocked row is looked for.
OperationalEnriched(e, r) ==
    LET reasons == OperationalReasons(e, r)
        warnings == IF reasons = {} THEN OperationalWarnings(e, r) ELSE {}
    IN  [r EXCEPT !.opBlocks = reasons,
                  !.op = IF reasons # {} THEN "BLOCKED" ELSE IF warnings # {} THEN "CAUTION" ELSE "READY",
                  !.opScore = IF reasons = {} THEN OperationalScore(e, r, warnings) ELSE 0]

---------------------------------------------------------------------------
(***************************************************************************)
(* Conviction, priority and final decision.                                *)
(***************************************************************************)
RadarHigh(r) == r.radarLevel = "alta"

Alignment(e, r) ==
    45 + (CASE r.audit = "APPROVED" -> 10 [] r.audit = "CAUTION" -> -10 [] r.audit = "BLOCKED" -> -18 [] OTHER -> 0)
       + (IF Ratio(r.aligned) >= 66 /\ r.opposing <= 1 THEN 15 ELSE IF LowConsensus(r) THEN -16 ELSE 0)
       + Word(r.confidence, 10, 0, -12)
       + (IF RadarHigh(r) THEN 9 ELSE IF r.radarLevel = "observacao" THEN -5 ELSE 0)
       + (CASE r.rankClass = "excelente" -> 9 [] r.rankClass = "forte" -> 6
            [] r.rankClass = "observacao" -> -5 [] OTHER -> 0)
       + (CASE e.history = "alta" -> 8 [] e.history = "baixa" -> -10
            [] e.history = "none" -> -5 [] OTHER -> 0)
       + (IF r.op = "READY" THEN 6 ELSE 0)
       + (CASE StageRisk(e, r) = "Baixo" -> 8 [] StageRisk(e, r) = "Alto" -> -12
            [] StageRisk(e, r) = "Critico" -> -20 [] OTHER -> 0)
       + (IF e.pulse = "NEUTRAL" THEN -7 ELSE IF r.masterDir = "NEUTRAL" THEN 0
          ELSE IF e.pulse = r.masterDir THEN 5 ELSE -8)

\* The tools with a direction that agree with the master direction, and those
\* that do not.
ToolsFor(e, r) == {t \in Tools : Reading(e, t) = (IF r.masterDir = "BULLISH" THEN "bull" ELSE "bear")}
ToolsAgainst(e, r) == {t \in Tools : Reading(e, t) = (IF r.masterDir = "BULLISH" THEN "bear" ELSE "bull")}
ToolPoints(e, r) ==
    IF r.masterDir = "NEUTRAL" THEN 0
    ELSE AtMost(2 * Cardinality(ToolsFor(e, r)), 10) - AtMost(5 * Cardinality(ToolsAgainst(e, r)), 22)

ConvictionLevel(n) ==
    IF n >= 86 THEN "muito alta" ELSE IF n >= 72 THEN "alta" ELSE IF n >= 52 THEN "moderada" ELSE "baixa"

\* Whether the conviction found anything against the row.
ConvictionConflicts(e, r) ==
    \/ r.audit # "APPROVED" \/ r.op = "BLOCKED"
    \/ LowConsensus(r) \/ r.confidence = "Baixa"
    \/ r.radarLevel = "observacao" \/ r.rankClass = "observacao"
    \/ e.history \in {"baixa", "none"}
    \/ StageRisk(e, r) \in {"Alto", "Critico"}
    \/ e.pulse = "NEUTRAL" \/ (r.masterDir # "NEUTRAL" /\ e.pulse # r.masterDir)
    \/ (r.masterDir # "NEUTRAL" /\ ToolsAgainst(e, r) # {})

\* enrich_institutional_conviction_rows.
ConvictionEnriched(e, r) ==
    LET score == Clamp(Alignment(e, r) + ToolPoints(e, r))
    IN  [r EXCEPT !.convScore = score, !.convLevel = ConvictionLevel(score)]

PriorityScore(e, r) ==
    IF r.op = "BLOCKED" THEN 0
    ELSE Clamp(Percent(r.radarScore, 20) + Percent(r.rankScore, 22) + Percent(r.convScore, 24)
               + Percent(HistoryScore(e), 10) + Percent(r.opScore, 14) + Percent(r.auditScore, 5)
               + (IF RadarHigh(r) THEN 5 ELSE 0) + (IF r.rankClass = "excelente" THEN 5 ELSE 0)
               + (CASE r.convLevel = "muito alta" -> 7 [] r.convLevel = "baixa" -> -12 [] OTHER -> 0)
               + (CASE e.history = "alta" -> 4 [] e.history = "baixa" -> -8 [] OTHER -> 0)
               + AuditPoints(r, 4, -8) + (IF r.op = "READY" THEN 6 ELSE -7)
               + RiskPoints(e, r, 5, 0, -12) - (IF StageRisk(e, r) = "Critico" THEN 24 ELSE 0)
               - (IF e.pulse = "NEUTRAL" THEN 6 ELSE 0))
PriorityLevel(n) ==
    IF n >= 88 THEN "critica" ELSE IF n >= 74 THEN "alta" ELSE IF n >= 55 THEN "media" ELSE "baixa"

\* enrich_institutional_priority_rows: a blocked row stays in the lowest level.
PriorityEnriched(e, r) ==
    LET score == PriorityScore(e, r)
    IN  [r EXCEPT !.prioScore = score,
                  !.prioLevel = IF r.op = "BLOCKED" THEN "baixa" ELSE PriorityLevel(score),
                  !.ranked = r.op # "BLOCKED" /\ r.rankBlocks = {} /\ r.radarBlocks = {}]

FinalReasons(e, r) ==
       When(r.op = "BLOCKED", r.opBlocks)
  \cup When(r.audit = "BLOCKED", r.auditBlocks)
  \cup When(r.ready # "yes", {"decision_ready falso"})
  \cup When(StageRisk(e, r) = "Critico", {"risco critico"})
  \cup r.rankBlocks \cup r.radarBlocks

FinalScore(e, r) ==
    Clamp(Percent(r.prioScore, 24) + Percent(r.convScore, 22) + Percent(r.rankScore, 16)
          + Percent(r.radarScore, 12) + Percent(HistoryScore(e), 10) + Percent(r.opScore, 10)
          + Percent(r.auditScore, 6) + AuditPoints(r, 0, -8) - (IF r.op = "CAUTION" THEN 6 ELSE 0)
          + RiskPoints(e, r, 0, -4, -14) - (IF e.pulse = "NEUTRAL" THEN 4 ELSE 0))

HighConviction(r) == r.convLevel \in {"muito alta", "alta"}
HighPriority(r) == r.prioLevel \in {"critica", "alta"}
StrongRanking(r) == r.rankClass \in {"excelente", "forte"}
Confirmed(e, r) ==
    /\ r.audit = "APPROVED" /\ r.op = "READY"
    /\ HighConviction(r) /\ HighPriority(r) /\ StrongRanking(r) /\ RadarHigh(r)
    /\ StageRisk(e, r) \in {"Baixo", "Moderado"}
Mixed(e, r) ==
    r.audit = "CAUTION" \/ r.op = "CAUTION" \/ r.convLevel = "baixa"
    \/ StageRisk(e, r) = "Alto" \/ Ratio(r.aligned) < 44 \/ ConvictionConflicts(e, r)

FinalDecision(e, r) ==
    IF FinalReasons(e, r) # {} THEN "NO_TRADE"
    ELSE IF Confirmed(e, r) THEN "CONFIRMED"
    ELSE IF FinalScore(e, r) >= 65 \/ HighPriority(r) \/ StrongRanking(r) \/ HighConviction(r) THEN "FORMING"
    ELSE IF Mixed(e, r) THEN "OBSERVE" ELSE "WAIT"

\* enrich_final_decision_rows.
FinalEnriched(e, r) == [r EXCEPT !.final = FinalDecision(e, r), !.finalBlocks = FinalReasons(e, r)]

---------------------------------------------------------------------------
(***************************************************************************)
(* The consistency audit of the finished rows                              *)
(* (app/services/institutional_consistency_audit.py).                      *)
(***************************************************************************)
NoTrade(r) == r.final = "NO_TRADE" \/ r.state \in NoTradeSignals \/ r.signal \in NoTradeSignals
              \/ r.finalBlocks # {}

UnauthorizedPromotion(r) ==
    /\ r.audit = "BLOCKED" \/ r.op = "BLOCKED" \/ NoTrade(r) \/ r.radarBlocks # {} \/ r.ready # "yes"
    /\ r.rankBlocks = {}

PriorityNoTrade(r) == r.prioLevel = "critica" /\ NoTrade(r)
DirectionConflict(r) ==
    r.masterDir \in {"BULLISH", "BEARISH"} /\ r.signal \in Actionable /\ ~MasterConfirms(r)
===========================================================================
