--------------------------- MODULE AnalysisProofs ---------------------------
(* Theorems about the parts of Analysis, for every value of its constants.  *)
EXTENDS Analysis, FiniteSetTheorems, TLAPS

-----------------------------------------------------------------------------
(* The chart.                                                                *)

\* The least element of a few small numbers is one of them.
LEMMA LeastOfSetups == ASSUME NEW S \in SUBSET (1..12), S # {} PROVE Min(S) \in S
<1> DEFINE first(n) == n \in S /\ \A k \in 1..(n - 1) : k \notin S
<1>1. \E n \in 1..12 : first(n)
  <2>1. PICK n \in 1..12 : n \in S
    OBVIOUS
  <2>2. first(1) \/ first(2) \/ first(3) \/ first(4) \/ first(5) \/ first(6) \/ 1..6 \cap S = {}
    OBVIOUS
  <2>3. 1..6 \cap S = {} => first(7) \/ first(8) \/ first(9) \/ first(10) \/ first(11) \/ first(12)
    BY <2>1
  <2> HIDE DEF first
  <2> QED
    BY <2>2, <2>3
<1>2. PICK n \in 1..12 : first(n)
  BY <1>1
<1>3. n \in S /\ \A y \in S : n =< y
  BY <1>2
<1>4. \E x \in S : \A y \in S : x =< y
  BY <1>3
<1> QED
  BY <1>4 DEF Min

LEMMA FacingIsWhole ==
    ASSUME NEW b \in BarType, NEW side
    PROVE  /\ Facing(side, b).open \in Int /\ Facing(side, b).close \in Int
           /\ Body(Facing(side, b)) \in Int
<1>1. b.open \in Int /\ b.close \in Int /\ -b.open \in Int /\ -b.close \in Int
  BY DEF BarType
<1>2. Mirror(b).open = -b.open /\ Mirror(b).close = -b.close
  BY DEF Mirror, BarType
<1>3. Facing(side, b).open \in Int /\ Facing(side, b).close \in Int
  BY <1>1, <1>2 DEF Facing
<1> QED
  BY <1>3 DEF Body, Size

\* A weak bar neither breaks out nor resumes the trend.
LEMMA WeakIsNotStrong ==
    ASSUME NEW b \in BarType, NEW p, NEW side, WeakPullback(Facing(side, b), Facing(side, p))
    PROVE  ~Breakout(Facing(side, b), Facing(side, p)) /\ ~Resumes(Facing(side, b), Facing(side, p))
<1>1. Settings.bodyMin \in Int
  BY AnalysisConstants DEF SettingsType
<1>2. ~Strong(Facing(side, b))
  BY <1>1, FacingIsWhole DEF WeakPullback, Strong
<1> QED
  BY <1>2 DEF Breakout, Resumes

\* What a bar and the one before are for a side.
LEMMA FactsOfSide ==
    ASSUME NEW b \in Bars, previous \in Bars \cup Warmups, NEW s \in BothSides
    PROVE  LET on == Read[b][previous].on[s] IN
           /\ on.breakout = Breakout(Facing(s, b), Facing(s, previous))
           /\ on.weak = WeakPullback(Facing(s, b), Facing(s, previous))
           /\ on.resumes = Resumes(Facing(s, b), Facing(s, previous))
           /\ Facts(b).pull[s] = Pullback(s, Read[b][previous])
<1>1. Read[b][previous] = BarFacts(b, previous)
  BY DEF Read
<1>2. BarFacts(b, previous).on[s] = SideFacts(s, b, previous)
  BY DEF BarFacts
<1>3. /\ SideFacts(s, b, previous).breakout = Breakout(Facing(s, b), Facing(s, previous))
      /\ SideFacts(s, b, previous).weak = WeakPullback(Facing(s, b), Facing(s, previous))
      /\ SideFacts(s, b, previous).resumes = Resumes(Facing(s, b), Facing(s, previous))
  BY DEF SideFacts
<1>4. Facts(b).pull[s] = Pullback(s, Read[b][previous])
  BY DEF Facts, Paired, Scored, Rated
<1> QED
  BY <1>1, <1>2, <1>3, <1>4

\* The book of a side: its breakout lies behind, and what is armed was not armed by
\* the bar of the breakout itself.
BookOf(s) ==
    /\ book[s].bar \in Int /\ book[s].bar < index
    /\ book[s].armed => book[s].bar >= 0 /\ index - book[s].bar >= 2

LEMMA PullbackIsLate ==
    ASSUME index \in Nat, NEW b \in Bars, previous \in Bars \cup Warmups, NEW s \in BothSides, BookOf(s)
    PROVE  LET x == Facts(b).pull[s] IN
           /\ x.bar \in Int /\ x.bar <= index
           /\ x.armed => x.bar >= 0 /\ index - x.bar >= 1
           /\ x.resumes => x.bar >= 0 /\ index - x.bar \in 2..Settings.pullbackBars
<1> DEFINE on == Read[b][previous].on[s]
           bar == IF on.breakout THEN index ELSE book[s].bar
           recent == bar >= 0 /\ index - bar <= Settings.pullbackBars
           armed == recent /\ ((book[s].armed /\ ~on.breakout) \/ on.weak)
           x == Facts(b).pull[s]
<1>1. b \in BarType /\ Settings.pullbackBars \in Int
  BY AnalysisConstants DEF SettingsType
<1>2. on.weak => ~on.breakout /\ ~on.resumes
  BY <1>1, FactsOfSide, WeakIsNotStrong
<1>3. x = Pullback(s, Read[b][previous])
  BY FactsOfSide
<1>4. /\ x.bar = bar
      /\ x.armed = (armed /\ ~on.resumes)
      /\ x.resumes = (armed /\ on.resumes)
  BY <1>3 DEF Pullback
<1>5. bar \in Int /\ bar <= index
  BY DEF BookOf
<1>6. armed => ~on.breakout /\ bar = book[s].bar
  BY <1>2
<1>7. armed => bar >= 0 /\ index - bar >= 1 /\ index - bar <= Settings.pullbackBars
  BY <1>1, <1>6 DEF BookOf
<1>8. armed /\ on.resumes => index - bar >= 2
  BY <1>2, <1>6 DEF BookOf
<1> HIDE DEF armed, bar, x
<1>9. x.armed => armed
  BY <1>4
<1>10. x.resumes => armed /\ on.resumes
  BY <1>4
<1> QED
  BY <1>1, <1>4, <1>5, <1>7, <1>8, <1>9, <1>10 DEF x

\* The chart between two bars: whole numbers, the books of the sides, and the two
\* halves of SignalsFollowBars.
ChartTypes ==
    /\ index \in Nat /\ previous \in Bars \cup Warmups
    /\ position # None => position.side \in BothSides
    /\ event.type \in {"none", "BUY", "SHORT", "SELL", "COVER"}
    /\ event.at \in Int /\ event.at < index
    /\ event.type = "none" => event.reason = "none"
ChartInv ==
    /\ ChartTypes /\ \A s \in BothSides : BookOf(s)
    /\ SignalTellsPosition /\ PullbackFollowsBreakout

LEMMA ChartStart == ASSUME Init PROVE ChartInv
<1>1. /\ index = 0 /\ previous \in Warmups /\ position = None /\ signal = "NEUTRAL" /\ event = NoEvent
      /\ book = [s \in BothSides |-> [bar |-> Never, armed |-> FALSE]]
  BY DEF Init
<1>2. event.type = "none" /\ event.reason = "none" /\ event.at = -1
  BY <1>1 DEF NoEvent, Never
<1>3. \A s \in BothSides : BookOf(s)
  BY <1>1 DEF BookOf, Never
<1> QED
  BY <1>1, <1>2, <1>3 DEF ChartInv, ChartTypes, SignalTellsPosition, PullbackFollowsBreakout, Entries

\* A bar that only adds to the books leaves an event behind the last bar.
LEMMA BookStep ==
    ASSUME ChartInv, NEW b \in Bars, Walk(b), Kept(Facts(b))
    PROVE  /\ index' = index + 1 /\ index' \in Nat /\ previous' \in Bars \cup Warmups
           /\ \A s \in BothSides : BookOf(s)'
           /\ \A s \in BothSides : book'[s].bar = Facts(b).pull[s].bar
<1>1. index' = index + 1 /\ previous' = b /\ index \in Nat /\ previous \in Bars \cup Warmups
  BY DEF Walk, ChartInv, ChartTypes
<1>2. ASSUME NEW s \in BothSides PROVE BookOf(s)' /\ book'[s].bar = Facts(b).pull[s].bar
  <2>1. book'[s] = [bar |-> Facts(b).pull[s].bar, armed |-> Facts(b).pull[s].armed]
    BY DEF Kept
  <2>2. /\ Facts(b).pull[s].bar \in Int /\ Facts(b).pull[s].bar <= index
        /\ Facts(b).pull[s].armed => Facts(b).pull[s].bar >= 0 /\ index - Facts(b).pull[s].bar >= 1
    BY <1>1, PullbackIsLate DEF ChartInv
  <2>3. book'[s].bar = Facts(b).pull[s].bar /\ book'[s].armed = Facts(b).pull[s].armed
    BY <2>1
  <2> QED
    BY <1>1, <2>2, <2>3 DEF BookOf
<1> QED
  BY <1>1, <1>2

LEMMA WatchStep ==
    ASSUME ChartInv, NEW b \in Bars, NEW setups, Watch(b, Facts(b), setups)
    PROVE  ChartInv'
<1>1. /\ index' = index + 1 /\ index' \in Nat /\ previous' \in Bars \cup Warmups
      /\ \A s \in BothSides : BookOf(s)'
  BY BookStep DEF Watch
<1>2. position = None /\ position' = position /\ event' = event /\ signal' = WatchSignal(Facts(b), None)
  BY DEF Watch
<1>3. index \in Nat /\ event.at \in Int /\ event.at < index
  BY DEF ChartInv, ChartTypes
<1>4. event'.at < index' - 1 /\ event'.at < index' /\ event'.at # index' - 1
  BY <1>1, <1>2, <1>3
<1>5. PullbackFollowsBreakout'
  BY <1>4 DEF PullbackFollowsBreakout
<1>6. signal # "NEUTRAL" => signal' = signal
  BY <1>2 DEF WatchSignal
<1>7. signal = "NEUTRAL" => signal' \in {"WATCH_BUY", "WATCH_SHORT", "NEUTRAL"}
  BY <1>2 DEF WatchSignal
<1>8. SignalTellsPosition'
  BY <1>2, <1>6, <1>7 DEF ChartInv, ChartTypes, SignalTellsPosition, Entries
<1> QED
  BY <1>1, <1>2, <1>3, <1>4, <1>5, <1>8 DEF ChartInv, ChartTypes

LEMMA HoldStep ==
    ASSUME ChartInv, NEW b \in Bars, NEW reasons, Hold(b, Facts(b), reasons), position.side \in BothSides
    PROVE  ChartInv'
<1>1. /\ index' = index + 1 /\ index' \in Nat /\ previous' \in Bars \cup Warmups
      /\ \A s \in BothSides : BookOf(s)'
  BY BookStep DEF Hold
<1>2. /\ position # None /\ position' = [position EXCEPT !.best = BestSoFar(b)] /\ event' = event
      /\ signal' = WatchSignal(Facts(b), position)
  BY DEF Hold
<1>3. index \in Nat /\ event.at \in Int /\ event.at < index
  BY DEF ChartInv, ChartTypes
<1>4. event'.at < index' /\ event'.at # index' - 1
  BY <1>1, <1>2, <1>3
<1>5. PullbackFollowsBreakout'
  BY <1>4 DEF PullbackFollowsBreakout
<1>6. position'.side = position.side /\ position'.at = position.at
  BY <1>2
<1>7. signal = EntryAction(position.side) /\ signal # "NEUTRAL"
  BY <1>2 DEF ChartInv, SignalTellsPosition, EntryAction
<1>8. signal' = signal
  BY <1>2, <1>7 DEF WatchSignal
<1>9. position' # None
  BY <1>6 DEF None, BothSides
<1>10. SignalTellsPosition'
  BY <1>2, <1>6, <1>8, <1>9 DEF ChartInv, SignalTellsPosition
<1> QED
  BY <1>1, <1>2, <1>3, <1>4, <1>5, <1>6, <1>10 DEF ChartInv, ChartTypes

LEMMA EnterStep ==
    ASSUME ChartInv, NEW b \in Bars, Enter(b, Facts(b), SetupsOf(Facts(b)))
    PROVE  ChartInv'
<1> DEFINE f == Facts(b)
           setups == SetupsOf(f)
           i == Min(setups)
           side == Order[i].side
           setup == Order[i].setup
<1>1. /\ index' = index + 1 /\ index' \in Nat /\ previous' \in Bars \cup Warmups
      /\ \A s \in BothSides : BookOf(s)'
      /\ \A s \in BothSides : book'[s].bar = f.pull[s].bar
  BY BookStep DEF Enter
<1>2. /\ setups # {} /\ position' = Opened(Taken(setups).side, b)
      /\ signal' = EntryAction(Taken(setups).side) /\ verdict' # "blocked"
      /\ event' = [type |-> signal', side |-> Taken(setups).side, reason |-> Taken(setups).setup, at |-> index,
                   held |-> 0, blocked |-> verdict' = "blocked"]
  BY DEF Enter
<1>3. i \in setups
  <2>1. setups \in SUBSET (1..12)
    BY DEF SetupsOf, Order
  <2> QED
    BY <1>2, <2>1, LeastOfSetups
<1>4. side \in BothSides /\ Fits(setup, side, f)
  BY <1>3 DEF SetupsOf, Order, BothSides
<1>5. Taken(setups).side = side /\ Taken(setups).setup = setup
  BY DEF Taken
<1> HIDE DEF i, setups, side, setup, f
<1>6. index \in Nat /\ previous \in Bars \cup Warmups /\ BookOf(side)
  BY <1>4 DEF ChartInv, ChartTypes
<1>7. /\ position'.side = side /\ position'.at = index /\ signal' = EntryAction(side)
      /\ event'.type = signal' /\ event'.side = side /\ event'.reason = setup /\ event'.at = index
      /\ event'.blocked = FALSE
  BY <1>2, <1>5 DEF Opened
<1>8. EntryAction(side) \in {"BUY", "SHORT"}
  BY DEF EntryAction
<1>9. position' # None
  BY <1>4, <1>7 DEF None, BothSides
<1>10. SignalTellsPosition'
  BY <1>7, <1>9 DEF SignalTellsPosition
<1>11. ASSUME setup = "pullback_resume" PROVE f.pull[side].bar >= 0 /\ index - f.pull[side].bar \in 2..Settings.pullbackBars
  <2>1. f.pull[side].resumes
    BY <1>4, <1>11 DEF Fits
  <2> QED
    BY <1>4, <1>6, <2>1, PullbackIsLate DEF f
<1>12. PullbackFollowsBreakout'
  <2>1. book'[side].bar = f.pull[side].bar
    BY <1>1, <1>4
  <2>2. f.pull[side].bar >= 0 => f.pull[side].bar # Never
    BY DEF Never
  <2> QED
    BY <1>7, <1>11, <2>1, <2>2 DEF PullbackFollowsBreakout
<1> QED
  BY <1>1, <1>4, <1>6, <1>7, <1>8, <1>10, <1>12 DEF ChartInv, ChartTypes

\* What an exit reports is no setup.
LEMMA ExitIsReported ==
    ASSUME NEW R, R # {}, R \subseteq {ExitOrder[i] : i \in 1..6} PROVE Reported(R) # "pullback_resume"
<1> DEFINE S == {i \in DOMAIN ExitOrder : ExitOrder[i] \in R}
<1>1. DOMAIN ExitOrder = 1..6
  BY DEF ExitOrder
<1>2. S # {} /\ S \in SUBSET (1..12)
  BY <1>1
<1>3. Min(S) \in 1..6
  BY <1>1, <1>2, LeastOfSetups
<1>4. \A i \in 1..6 : ExitOrder[i] # "pullback_resume"
  BY DEF ExitOrder
<1> QED
  BY <1>3, <1>4 DEF Reported

LEMMA ReasonsAreKnown ==
    ASSUME NEW side, NEW b, NEW f PROVE ExitReasons(side, b, f) \subseteq {ExitOrder[i] : i \in 1..6}
<1>1. /\ ExitOrder[1] = "ai_regime_flip" /\ ExitOrder[2] = "opposite_signal" /\ ExitOrder[3] = "level_break"
      /\ ExitOrder[4] = "protect_profit" /\ ExitOrder[5] = "micro_structure_loss" /\ ExitOrder[6] = "trend_loss"
  BY DEF ExitOrder
<1>2. {"ai_regime_flip", "opposite_signal", "level_break", "protect_profit", "micro_structure_loss", "trend_loss"}
          \subseteq {ExitOrder[i] : i \in 1..6}
  BY <1>1
<1>3. ASSUME NEW x \in ExitReasons(side, b, f)
      PROVE  x \in {"ai_regime_flip", "opposite_signal", "level_break", "protect_profit", "micro_structure_loss", "trend_loss"}
  BY <1>3 DEF ExitReasons, Reasons, Faults
<1> QED
  BY <1>2, <1>3

LEMMA ExitStep ==
    ASSUME ChartInv, NEW b \in Bars, Exit(b, Facts(b), ExitReasons(position.side, b, Facts(b))),
           position.side \in BothSides
    PROVE  ChartInv'
<1> DEFINE R == ExitReasons(position.side, b, Facts(b))
<1>1. /\ index' = index + 1 /\ index' \in Nat /\ previous' \in Bars \cup Warmups
      /\ \A s \in BothSides : BookOf(s)'
  BY BookStep DEF Exit
<1>2. /\ R # {} /\ position' = None /\ signal' = ExitAction(position.side)
      /\ event' = [type |-> signal', side |-> position.side, reason |-> Reported(R), at |-> index,
                   held |-> index - position.at, blocked |-> verdict' = "blocked"]
  BY DEF Exit
<1>3. Reported(R) # "pullback_resume"
  BY <1>2, ReasonsAreKnown, ExitIsReported
<1> HIDE DEF R
<1>4. event'.type = signal' /\ event'.reason = Reported(R) /\ event'.at = index
  BY <1>2
<1>5. signal' \in {"SELL", "COVER"}
  BY <1>2 DEF ExitAction
<1>6. index \in Nat
  BY DEF ChartInv, ChartTypes
<1>7. SignalTellsPosition'
  BY <1>2, <1>4, <1>5 DEF SignalTellsPosition, Entries
<1>8. PullbackFollowsBreakout'
  BY <1>3, <1>4 DEF PullbackFollowsBreakout
<1> QED
  BY <1>1, <1>2, <1>4, <1>5, <1>6, <1>7, <1>8 DEF ChartInv, ChartTypes

LEMMA SkipStep == ASSUME ChartInv, NEW b \in Bars, Skip(b) PROVE ChartInv'
<1>1. index' = index + 1 /\ previous' = b /\ UNCHANGED <<book, position, signal, event>>
  BY DEF Skip, Walk
<1>2. index \in Nat /\ event.at \in Int /\ event.at < index
  BY DEF ChartInv, ChartTypes
<1>3. \A s \in BothSides : BookOf(s)'
  BY <1>1, <1>2 DEF ChartInv, BookOf
<1>4. event'.at < index' /\ event'.at # index' - 1
  BY <1>1, <1>2
<1>5. PullbackFollowsBreakout'
  BY <1>4 DEF PullbackFollowsBreakout
<1>6. SignalTellsPosition'
  BY <1>1 DEF ChartInv, SignalTellsPosition
<1> QED
  BY <1>1, <1>2, <1>3, <1>4, <1>5, <1>6 DEF ChartInv, ChartTypes

LEMMA ChartStays == ASSUME ChartInv, UNCHANGED <<index, previous, book, position, signal, event>> PROVE ChartInv'
  BY DEF ChartInv, ChartTypes, BookOf, SignalTellsPosition, PullbackFollowsBreakout

LEMMA FinishStep == ASSUME ChartInv, Finish PROVE ChartInv'
<1>1. UNCHANGED <<index, previous, book>>
  BY DEF Finish
<1>2. CASE position # None /\ previous.closing /\ previous.priced
  <2>1. /\ position' = None /\ signal' = ExitAction(position.side)
        /\ event'.type = signal' /\ event'.reason = "session_close" /\ event'.at = index - 1
    BY <1>2 DEF Finish
  <2>2. signal' \in {"SELL", "COVER"}
    BY <2>1 DEF ExitAction
  <2>3. \A s \in BothSides : BookOf(s)'
    BY <1>1 DEF ChartInv, BookOf
  <2>4. SignalTellsPosition' /\ PullbackFollowsBreakout'
    BY <2>1, <2>2 DEF SignalTellsPosition, PullbackFollowsBreakout, Entries
  <2> QED
    BY <1>1, <2>1, <2>2, <2>3, <2>4 DEF ChartInv, ChartTypes
<1>3. CASE ~(position # None /\ previous.closing /\ previous.priced)
  BY <1>1, <1>3, ChartStays DEF Finish
<1> QED
  BY <1>2, <1>3

LEMMA ChartStep == ASSUME ChartInv, Next PROVE ChartInv'
<1>1. ASSUME NEW b \in Bars, Skip(b) PROVE ChartInv'
  BY <1>1, SkipStep
<1>2. ASSUME NEW b \in Bars, Watch(b, Facts(b), SetupsOf(Facts(b))) PROVE ChartInv'
  BY <1>2, WatchStep
<1>3. ASSUME NEW b \in Bars, Enter(b, Facts(b), SetupsOf(Facts(b))) PROVE ChartInv'
  BY <1>3, EnterStep
<1>4. position # None => position.side \in BothSides
  BY DEF ChartInv, ChartTypes
<1>5. ASSUME position # None, NEW b \in Bars, Hold(b, Facts(b), ExitReasons(position.side, b, Facts(b))) PROVE ChartInv'
  BY <1>4, <1>5, HoldStep
<1>6. ASSUME position # None, NEW b \in Bars, Exit(b, Facts(b), ExitReasons(position.side, b, Facts(b))) PROVE ChartInv'
  BY <1>4, <1>6, ExitStep
<1>7. Finish => ChartInv'
  BY FinishStep
<1>8. TooFewBars \/ Built => ChartInv'
  BY ChartStays DEF TooFewBars, Built, vars
<1> QED
  BY <1>1, <1>2, <1>3, <1>5, <1>6, <1>7, <1>8 DEF Next

\* The chart: whatever its bars, the signal and the last event tell the position,
\* and a pullback entry has its breakout, two bars back at least and recent
\* (build_trend_breakout_payload).
THEOREM SignalsHold == AnalysisSpec => []SignalsFollowBars
<1>1. AnalysisInit => ChartInv
  BY ChartStart DEF AnalysisInit
<1>2. ChartInv /\ [AnalysisNext]_analysisVars => ChartInv'
  <2> SUFFICES ASSUME ChartInv, [AnalysisNext]_analysisVars PROVE ChartInv'
    OBVIOUS
  <2>1. CASE Chart
    BY <2>1, ChartStep DEF Chart
  <2>2. CASE Trade \/ Pipeline \/ UNCHANGED analysisVars
    BY <2>2, ChartStays DEF Trade, Pipeline, analysisVars, vars
  <2> QED
    BY <2>1, <2>2 DEF AnalysisNext
<1>3. ChartInv => SignalsFollowBars
  BY DEF ChartInv, SignalsFollowBars
<1> QED
  BY <1>1, <1>2, <1>3, PTL DEF AnalysisSpec

-----------------------------------------------------------------------------
(* The trade decision.                                                       *)

\* A decision that was not taken yet is the one the row came with.
TradeInv ==
    part = "trade" =>
        /\ trade \in Rows
        /\ decided = "no" => decision = T!Decision(trade.action, trade.ready, {}, {})

LEMMA GuardsOfReady ==
    ASSUME NEW d, NEW r, NEW a, NEW p, T!Neutralized(d, r, a, p).ready
    PROVE  /\ T!Neutralized(d, r, a, p).action = a
           /\ a \in T!Operational /\ d.blocked = {} /\ d.warnings = {}
           /\ T!HardFaults(r, a, p.bull, p.bear) = {} /\ T!DataWarnings(r) = {}
<1> DEFINE hard == T!HardFaults(r, a, p.bull, p.bear)
           blocked == d.blocked \cup hard
           warnings == d.warnings \cup T!DataWarnings(r)
           action == IF a \in T!Operational /\ hard # {} THEN "NO_DECISION" ELSE a
<1>1. T!Neutralized(d, r, a, p) = T!Decision(action, action \in T!Operational /\ blocked = {} /\ warnings = {}, blocked, warnings)
  BY DEF T!Neutralized
<1>2. action \in T!Operational /\ blocked = {} /\ warnings = {}
  <2> DEFINE ready == action \in T!Operational /\ blocked = {} /\ warnings = {}
  <2>1. T!Decision(action, ready, blocked, warnings).ready = ready
    BY DEF T!Decision
  <2> HIDE DEF action, blocked, warnings
  <2> QED
    BY <1>1, <2>1
<1>3. hard = {}
  BY <1>2
<1> QED
  BY <1>1, <1>2, <1>3 DEF T!Decision

\* A row without faults is whole and fresh, and confirms the action.
LEMMA NoFault ==
    ASSUME NEW r, NEW a, NEW x, NEW y, T!HardFaults(r, a, x, y) = {}, T!DataWarnings(r) = {}
    PROVE  /\ r.price /\ r.volume /\ r.volumeKnown /\ r.quality \notin T!BadData /\ ~r.stale /\ ~r.provider
           /\ T!ContextFaults(r) = {}
           /\ a = "BUY" => r.above = "yes" \/ r.chart \in T!UpRegimes
           /\ a = "SHORT" => r.above = "no" \/ r.chart \in T!DownRegimes
<1>1. T!DataFaults(r) = {} /\ T!EntryFaults(r, a) = {} /\ T!ContextFaults(r) = {}
  BY DEF T!HardFaults
<1>2. r.price /\ r.volume /\ r.quality \notin T!BadData /\ ~r.stale /\ ~r.provider
  BY <1>1 DEF T!DataFaults, T!Faults
<1>3. r.volumeKnown
  BY <1>2 DEF T!DataWarnings, T!Faults
<1>4. /\ a = "BUY" => r.above = "yes" \/ r.chart \in T!UpRegimes
      /\ a = "SHORT" => r.above = "no" \/ r.chart \in T!DownRegimes
  BY <1>1 DEF T!EntryFaults, T!Faults
<1> QED
  BY <1>1, <1>2, <1>3, <1>4

\* A coherent proposal without reasons against it is kept, and is no entry in a
\* range.
LEMMA CoherentStays ==
    ASSUME NEW r, NEW a, NEW x, NEW y, T!Coherence(r, a, x, y).blocked = {}
    PROVE  /\ T!Coherence(r, a, x, y).action = a
           /\ a \in T!Entries => ~(r.regime = "range" /\ r.trendStrength < 35)
<1> DEFINE hard == T!HardFaults(r, a, x, y)
           soft == T!SoftBlocks(r, a)
<1>1. T!Coherence(r, a, x, y).blocked = hard \cup soft
      /\ T!Coherence(r, a, x, y).action = T!ActionAfterBlock(r, a, x, y, hard, soft)
  BY DEF T!Coherence, T!Decision
<1>2. hard = {} /\ soft = {}
  BY <1>1
<1>3. T!ActionAfterBlock(r, a, x, y, {}, {}) = a
  BY DEF T!ActionAfterBlock
<1>4. T!Faults(r.regime = "range" /\ a \in T!Entries /\ r.trendStrength < 35, {"range_without_confirmation"}) = {}
  BY <1>2 DEF T!SoftBlocks
<1> QED
  BY <1>1, <1>2, <1>3, <1>4 DEF T!Faults

LEMMA ResolvedIsConfirmed ==
    ASSUME TradeInv, part = "trade", T!Resolve PROVE T!ReadyTradeIsConfirmed'
<1> DEFINE p == T!Pressure(trade)
           a == T!ProposedOn(trade, p)
           c == T!Coherence(trade, a, p.bull, p.bear)
<1> SUFFICES ASSUME decision'.ready PROVE T!ReadyTradeIsConfirmed'
  BY DEF T!ReadyTradeIsConfirmed
<1>1. decision' = T!Neutralized(c, trade, c.action, p) /\ decided' = "resolved" /\ trade' = trade
  BY DEF T!Resolve, T!Decide, T!Resolved, T!Guarded
<1>2. a = T!Proposed(trade)
  BY DEF T!Proposed
<1> HIDE DEF p, a, c
<1>3. /\ decision'.action = c.action /\ c.action \in T!Operational /\ c.blocked = {}
      /\ T!HardFaults(trade, c.action, p.bull, p.bear) = {} /\ T!DataWarnings(trade) = {}
  BY <1>1, GuardsOfReady
<1>4. c.action = a /\ (a \in T!Entries => ~(trade.regime = "range" /\ trade.trendStrength < 35))
  BY <1>3, CoherentStays DEF c
<1>5. /\ trade.price /\ trade.volume /\ trade.volumeKnown /\ trade.quality \notin T!BadData
      /\ ~trade.stale /\ ~trade.provider /\ T!ContextFaults(trade) = {}
      /\ c.action = "BUY" => trade.above = "yes" \/ trade.chart \in T!UpRegimes
      /\ c.action = "SHORT" => trade.above = "no" \/ trade.chart \in T!DownRegimes
  BY <1>3, NoFault
<1>6. T!Proposed(trade)' = T!Proposed(trade)
  BY <1>1
<1> QED
  BY <1>1, <1>2, <1>3, <1>4, <1>5, <1>6 DEF T!ReadyTradeIsConfirmed

LEMMA SummaryIsConfirmed ==
    ASSUME TradeInv, part = "trade", T!Summarize, decided = "no" PROVE T!ReadyTradeIsConfirmed'
<1> DEFINE r == T!Carrying(trade, decision)
           p == T!Sides(trade.bullish, trade.bearish)
<1> SUFFICES ASSUME decision'.ready PROVE T!ReadyTradeIsConfirmed'
  BY DEF T!ReadyTradeIsConfirmed
<1>1. decision' = T!Neutralized(decision, r, decision.action, p) /\ decided' = "summarized" /\ trade' = trade
  BY DEF T!Summarize, T!Decide
<1>2. trade \in T!RowType /\ decision.action = trade.action
  BY AnalysisConstants DEF TradeInv, T!Decision
<1>3. /\ r.price = trade.price /\ r.volume = trade.volume /\ r.volumeKnown = trade.volumeKnown
      /\ r.quality = trade.quality /\ r.stale = trade.stale /\ r.provider = trade.provider
      /\ r.above = trade.above /\ r.chart = trade.chart /\ r.auditor = trade.auditor
      /\ r.snapshot = trade.snapshot /\ r.radar = trade.radar /\ r.liquidity = trade.liquidity
  BY <1>2 DEF T!Carrying, T!RowType
<1> HIDE DEF r, p
<1>4. /\ decision'.action = trade.action
      /\ T!HardFaults(r, trade.action, p.bull, p.bear) = {} /\ T!DataWarnings(r) = {}
  BY <1>1, <1>2, GuardsOfReady
<1>5. /\ r.price /\ r.volume /\ r.volumeKnown /\ r.quality \notin T!BadData /\ ~r.stale /\ ~r.provider
      /\ T!ContextFaults(r) = {}
      /\ trade.action = "BUY" => r.above = "yes" \/ r.chart \in T!UpRegimes
      /\ trade.action = "SHORT" => r.above = "no" \/ r.chart \in T!DownRegimes
  BY <1>4, NoFault
<1>6. T!ContextFaults(trade) = T!ContextFaults(r)
  BY <1>3 DEF T!ContextFaults
<1> QED
  BY <1>1, <1>3, <1>4, <1>5, <1>6 DEF T!ReadyTradeIsConfirmed

LEMMA TradeStep ==
    ASSUME TradeInv, T!ReadyTradeIsConfirmed, part = "trade", T!Next
    PROVE  T!ReadyTradeIsConfirmed' /\ (part' = part => TradeInv')
<1>1. CASE T!Resolve
  BY <1>1, ResolvedIsConfirmed DEF T!Resolve, T!Decide, TradeInv
<1>2. CASE T!Summarize
  BY <1>2, SummaryIsConfirmed DEF T!Summarize, T!Decide, TradeInv
<1>3. CASE T!Decided
  BY <1>3 DEF T!Decided, T!vars, TradeInv, T!ReadyTradeIsConfirmed
<1> QED
  BY <1>1, <1>2, <1>3 DEF T!Next

\* The trade decision: one that is ready was not turned round and stands on whole
\* data, a trend and a VWAP on its side, for every row (trade_decision.py).
THEOREM ReadyTradeHolds == AnalysisSpec => []ReadyTradeIsConfirmed
<1> DEFINE Inv == TradeInv /\ T!ReadyTradeIsConfirmed /\ (part # "trade" => decided = "no")
<1>1. AnalysisInit => Inv
  BY DEF AnalysisInit, T!Init, TradeInv, NoTrade, T!ReadyTradeIsConfirmed
<1>2. Inv /\ [AnalysisNext]_analysisVars => Inv'
  <2> SUFFICES ASSUME Inv, [AnalysisNext]_analysisVars PROVE Inv'
    OBVIOUS
  <2>1. CASE Trade
    BY <2>1, TradeStep DEF Trade
  <2>2. CASE Chart \/ Pipeline \/ UNCHANGED analysisVars
    BY <2>2 DEF Chart, Pipeline, analysisVars, tradeVars, TradeInv, T!ReadyTradeIsConfirmed
  <2> QED
    BY <2>1, <2>2 DEF AnalysisNext
<1> QED
  BY <1>1, <1>2, PTL DEF AnalysisSpec, ReadyTradeIsConfirmed

-----------------------------------------------------------------------------
(* The rows of the pipeline: what each stage writes, and what it leaves.     *)

RowFields ==
    {"quality", "price", "volume", "provider", "stale", "signal", "state", "ready", "audit",
     "auditScore", "auditBlocks", "auditWarnings", "conflict", "blocked", "masterDir",
     "masterScore", "masterStatus", "masterRisk", "conviction", "confidence", "aligned",
     "opposing", "panel", "radarBlocks", "radarScore", "radarLevel", "rankBlocks", "rankScore",
     "rankClass", "op", "opBlocks", "opScore", "convScore", "convLevel", "prioScore", "prioLevel",
     "ranked", "final", "finalBlocks", "envelope", "envelopeBlocks"}

\* A row has every field; another one keeps all of its fields but some.
IsRow(r) == DOMAIN r = RowFields /\ r = [x \in DOMAIN r |-> r[x]]
Keeps(n, r, changed) == IsRow(n) /\ \A x \in RowFields \ changed : n[x] = r[x]

LEMMA FreshIsRow == ASSUME NEW f PROVE IsRow(D!Fresh(f))
  BY DEF D!Fresh, IsRow, RowFields

LEMMA SeededKeeps == ASSUME NEW r, IsRow(r)
    PROVE  LET q == IF r.price /\ r.volume THEN D!CoerceQuality(r) ELSE "score_only" IN
           /\ Keeps(D!Seeded(r), r, {"quality", "stale"})
           /\ D!Seeded(r).quality = q /\ (r.stale => D!Seeded(r).stale)
  BY DEF D!Seeded, IsRow, RowFields, Keeps

LEMMA AuditedKeeps ==
    ASSUME NEW e, NEW r, IsRow(r)
    PROVE  LET n == D!Audited(e, r)
               blocked == D!AuditBlocks(e, r) # {} IN
           /\ Keeps(n, r, {"audit", "auditScore", "auditBlocks", "auditWarnings", "conflict", "blocked", "ready", "state"})
           /\ n.audit = D!AuditStatus(e, r) /\ n.auditBlocks = D!AuditBlocks(e, r)
           /\ D!ConflictSeen(e, r) => n.conflict
           /\ blocked => "auditor_blocked" \in n.blocked /\ n.ready = "no" /\ n.state = "DO_NOT_TRADE"
           /\ ~blocked => n.ready = r.ready /\ n.state = r.state
<1> DEFINE changed == {"audit", "auditScore", "auditBlocks", "auditWarnings", "conflict", "blocked", "ready", "state"}
           blocks == D!AuditBlocks(e, r)
           with(a, n, x, w, c, b, d, t) ==
               [r EXCEPT !.audit = a, !.auditScore = n, !.auditBlocks = x, !.auditWarnings = w, !.conflict = c,
                         !.blocked = b, !.ready = d, !.state = t]
           c == r.conflict \/ D!ConflictSeen(e, r)
           b == IF blocks # {} THEN r.blocked \cup {"auditor_blocked"} \cup blocks ELSE r.blocked
           d == IF blocks # {} THEN "no" ELSE r.ready
           t == IF blocks # {} THEN "DO_NOT_TRADE" ELSE r.state
           n == with(D!AuditStatus(e, r), D!AuditScore(e, r), blocks, D!AuditWarnings(e, r), c, b, d, t)
<1>1. D!Audited(e, r) = n
  BY DEF D!Audited
<1>2. ASSUME NEW A, NEW S, NEW X, NEW W, NEW C, NEW B, NEW R, NEW P
      PROVE  LET m == with(A, S, X, W, C, B, R, P) IN
             /\ Keeps(m, r, changed) /\ m.audit = A /\ m.auditBlocks = X
             /\ m.conflict = C /\ m.blocked = B /\ m.ready = R /\ m.state = P
  <2> DEFINE m == with(A, S, X, W, C, B, R, P)
  <2>1. IsRow(m)
    BY DEF IsRow
  <2>2. \A x \in RowFields \ changed : m[x] = r[x]
    BY DEF IsRow
  <2>3. changed \subseteq RowFields
    BY DEF RowFields
  <2>4. /\ m.audit = A /\ m.auditBlocks = X /\ m.conflict = C
        /\ m.blocked = B /\ m.ready = R /\ m.state = P
    BY <2>3 DEF IsRow
  <2> QED
    BY <2>1, <2>2, <2>4 DEF Keeps
<1> HIDE DEF with
<1>3. /\ Keeps(n, r, changed) /\ n.audit = D!AuditStatus(e, r) /\ n.auditBlocks = blocks
      /\ n.conflict = c /\ n.blocked = b /\ n.ready = d /\ n.state = t
  BY <1>2
<1> HIDE DEF n
<1>4. D!ConflictSeen(e, r) => n.conflict
  <2> HIDE DEF b, d, t, changed, blocks
  <2> QED
    BY <1>3
<1> QED
  BY <1>1, <1>3, <1>4

LEMMA MasterAppliedKeeps ==
    ASSUME NEW m, NEW r, IsRow(r)
    PROVE  LET n == D!MasterApplied(m, r) IN
           /\ Keeps(n, r, {"masterDir", "masterScore", "masterStatus", "masterRisk", "conviction", "confidence",
                           "aligned", "opposing", "blocked", "ready", "state"})
           /\ n.masterDir = m.dir /\ n.masterStatus = m.status /\ r.blocked \subseteq n.blocked
           /\ (n.ready = r.ready /\ n.state = r.state) \/ (n.ready = "no" /\ n.state \in D!BlockedStates)
<1> DEFINE n == [r EXCEPT !.masterDir = m.dir, !.masterScore = m.score, !.masterStatus = m.status,
                          !.masterRisk = m.risk, !.conviction = m.conviction, !.confidence = m.confidence,
                          !.aligned = m.aligned, !.opposing = m.opposing]
           left(x) == [n EXCEPT !.blocked = x, !.ready = "no", !.state = "DO_NOT_TRADE"]
           waits(x) == [n EXCEPT !.blocked = x, !.ready = "no", !.state = "NO_TRADE"]
           B == n.blocked \cup {"master_score_blocked"} \cup r.auditBlocks
           W == n.blocked \cup {"master_score_context_not_confirmed"}
<1>1. /\ Keeps(n, r, {"masterDir", "masterScore", "masterStatus", "masterRisk", "conviction", "confidence",
                      "aligned", "opposing"})
      /\ n.masterDir = m.dir /\ n.masterStatus = m.status
  <2>1. IsRow(n)
    BY DEF IsRow
  <2>2. \A x \in RowFields \ {"masterDir", "masterScore", "masterStatus", "masterRisk", "conviction",
                              "confidence", "aligned", "opposing"} : n[x] = r[x]
    BY DEF IsRow
  <2>3. {"masterDir", "masterScore", "masterStatus", "masterRisk", "conviction", "confidence", "aligned",
         "opposing"} \subseteq RowFields
    BY DEF RowFields
  <2>4. n.masterDir = m.dir /\ n.masterStatus = m.status
    BY <2>3 DEF IsRow
  <2> QED
    BY <2>1, <2>2, <2>4 DEF Keeps
<1>2. n.blocked = r.blocked /\ n.ready = r.ready /\ n.state = r.state
  BY <1>1 DEF Keeps, RowFields
<1>3. D!MasterApplied(m, r) \in {n, left(B), waits(W)}
  BY DEF D!MasterApplied
<1> HIDE DEF n
<1>4. ASSUME NEW x PROVE /\ Keeps(left(x), n, {"blocked", "ready", "state"}) /\ left(x).blocked = x
                         /\ left(x).ready = "no" /\ left(x).state = "DO_NOT_TRADE"
  BY <1>1 DEF IsRow, RowFields, Keeps
<1>5. ASSUME NEW x PROVE /\ Keeps(waits(x), n, {"blocked", "ready", "state"}) /\ waits(x).blocked = x
                         /\ waits(x).ready = "no" /\ waits(x).state = "NO_TRADE"
  BY <1>1 DEF IsRow, RowFields, Keeps
<1> HIDE DEF left, waits
<1>6. CASE D!MasterApplied(m, r) = n
  BY <1>1, <1>2, <1>6 DEF Keeps
<1>7. CASE D!MasterApplied(m, r) = left(B)
  <2>1. left(B).masterDir = n.masterDir /\ left(B).masterStatus = n.masterStatus
    BY <1>4 DEF Keeps, RowFields
  <2> QED
    BY <1>1, <1>2, <1>4, <1>7, <2>1 DEF Keeps, D!BlockedStates
<1>8. CASE D!MasterApplied(m, r) = waits(W)
  <2>1. waits(W).masterDir = n.masterDir /\ waits(W).masterStatus = n.masterStatus
    BY <1>5 DEF Keeps, RowFields
  <2> QED
    BY <1>1, <1>2, <1>5, <1>8, <2>1 DEF Keeps, D!BlockedStates
<1> QED
  BY <1>3, <1>6, <1>7, <1>8

LEMMA PanelKeeps == ASSUME NEW r, IsRow(r), NEW a PROVE Keeps([r EXCEPT !.panel = a], r, {"panel"})
  BY DEF IsRow, RowFields, Keeps

LEMMA RadarKeeps ==
    ASSUME NEW e, NEW r, IsRow(r)
    PROVE  /\ Keeps(D!RadarEnriched(e, r), r, {"radarBlocks", "radarScore", "radarLevel"})
           /\ D!RadarEnriched(e, r).radarBlocks = D!RadarReasons(e, r)
  BY DEF D!RadarEnriched, IsRow, RowFields, Keeps

LEMMA RankKeeps ==
    ASSUME NEW e, NEW r, IsRow(r)
    PROVE  /\ Keeps(D!RankEnriched(e, r), r, {"rankBlocks", "rankScore", "rankClass"})
           /\ D!RankEnriched(e, r).rankBlocks = D!RankReasons(e, r)
  BY DEF D!RankEnriched, IsRow, RowFields, Keeps

LEMMA OperationalKeeps ==
    ASSUME NEW e, NEW r, IsRow(r)
    PROVE  /\ Keeps(D!OperationalEnriched(e, r), r, {"op", "opBlocks", "opScore"})
           /\ D!OperationalEnriched(e, r).opBlocks = D!OperationalReasons(e, r)
           /\ D!OperationalEnriched(e, r).op = "BLOCKED" <=> D!OperationalReasons(e, r) # {}
  BY DEF D!OperationalEnriched, IsRow, RowFields, Keeps

LEMMA ConvictionKeeps == ASSUME NEW e, NEW r, IsRow(r) PROVE Keeps(D!ConvictionEnriched(e, r), r, {"convScore", "convLevel"})
  BY DEF D!ConvictionEnriched, IsRow, RowFields, Keeps

LEMMA PriorityKeeps ==
    ASSUME NEW e, NEW r, IsRow(r)
    PROVE  /\ Keeps(D!PriorityEnriched(e, r), r, {"prioScore", "prioLevel", "ranked"})
           /\ D!PriorityEnriched(e, r).ranked = (r.op # "BLOCKED" /\ r.rankBlocks = {} /\ r.radarBlocks = {})
           /\ r.op = "BLOCKED" => D!PriorityEnriched(e, r).prioLevel = "baixa"
<1>1. Keeps(D!PriorityEnriched(e, r), r, {"prioScore", "prioLevel", "ranked"})
  BY DEF D!PriorityEnriched, IsRow, Keeps
<1>2. {"prioScore", "prioLevel", "ranked"} \subseteq DOMAIN r
  BY DEF IsRow, RowFields
<1>3. D!PriorityEnriched(e, r).ranked = (r.op # "BLOCKED" /\ r.rankBlocks = {} /\ r.radarBlocks = {})
  BY <1>2 DEF D!PriorityEnriched
<1>4. r.op = "BLOCKED" => D!PriorityEnriched(e, r).prioLevel = "baixa"
  BY <1>2 DEF D!PriorityEnriched
<1> QED
  BY <1>1, <1>3, <1>4

LEMMA FinalKeeps ==
    ASSUME NEW e, NEW r, IsRow(r)
    PROVE  /\ Keeps(D!FinalEnriched(e, r), r, {"final", "finalBlocks"})
           /\ D!FinalEnriched(e, r).finalBlocks = D!FinalReasons(e, r)
           /\ D!FinalEnriched(e, r).final = "NO_TRADE" <=> D!FinalReasons(e, r) # {}
<1>1. Keeps(D!FinalEnriched(e, r), r, {"final", "finalBlocks"})
  BY DEF D!FinalEnriched, IsRow, Keeps
<1>2. {"final", "finalBlocks"} \subseteq DOMAIN r
  BY DEF IsRow, RowFields
<1>3. D!FinalEnriched(e, r).finalBlocks = D!FinalReasons(e, r)
  BY <1>2 DEF D!FinalEnriched
<1>4. D!FinalEnriched(e, r).final = "NO_TRADE" <=> D!FinalReasons(e, r) # {}
  BY <1>2 DEF D!FinalEnriched, D!FinalDecision
<1> QED
  BY <1>1, <1>3, <1>4

LEMMA AttachKeeps ==
    ASSUME NEW r, IsRow(r), NEW stale
    PROVE  /\ Keeps(D!Attach(r, stale), r, {"envelope", "envelopeBlocks", "ready"})
           /\ D!Attach(r, stale).envelope = D!EnvelopeStatus(r, stale)
           /\ D!Attach(r, stale).envelopeBlocks = D!Blockers(r, stale)
           /\ D!Attach(r, stale).ready = "yes" <=> D!EnvelopeStatus(r, stale) = "READY"
  BY DEF D!Attach, IsRow, RowFields, Keeps

-----------------------------------------------------------------------------
(* What the stages find.                                                     *)

LEMMA LowRisk == ASSUME NEW e \in D!EnvType, D!RiskState(e) \notin {"high", "critical"} PROVE e.risk < 70
<1>1. e.risk \in 0..100
  BY DEF D!EnvType
<1>2. \A n \in 0..100 : ~(n >= 70) => n < 70
  OBVIOUS
<1> QED
  BY <1>1, <1>2 DEF D!RiskState

\* A row the auditor lets pass is no fallback, and no tool warned of it.
LEMMA PassedAudit ==
    ASSUME NEW e \in D!EnvType, NEW r, r.masterDir = "", D!AuditBlocks(e, r) = {}
    PROVE  /\ ~e.stale /\ e.risk < 70 /\ e.remark \notin {"thin_liquidity", "radar_invalid", "risk_blocks"}
           /\ r.signal \in D!Actionable => e.pulse \in {"NEUTRAL", D!SideOfSignal(r)}
<1>1. D!FeedFaults(e, r) = {}
  BY DEF D!AuditBlocks
<1>2. ~e.stale
  BY <1>1 DEF D!FeedFaults, D!When
<1>3. D!RiskState(e) \notin {"high", "critical"} /\ e.remark \notin {"thin_liquidity", "radar_invalid", "risk_blocks"}
      /\ ~D!PulseAgainst(e, r)
  BY DEF D!AuditBlocks, D!When
<1>4. e.risk < 70
  BY <1>3, LowRisk
<1>5. e.pulse \in {"BULLISH", "BEARISH", "NEUTRAL"}
  BY DEF D!EnvType
<1>6. ASSUME r.signal \in D!Actionable PROVE D!Orientation(r) = D!SideOfSignal(r) /\ D!Orientation(r) # ""
  BY <1>6 DEF D!Orientation, D!SideOfSignal, D!Actionable, D!BullishActions, D!BearishActions
<1>7. r.signal \in D!Actionable => e.pulse \in {"NEUTRAL", D!SideOfSignal(r)}
  BY <1>3, <1>5, <1>6 DEF D!PulseAgainst
<1> QED
  BY <1>2, <1>3, <1>4, <1>7

\* Trend and smart money against one another leave a conflict.
LEMMA OpposedIsSeen ==
    ASSUME NEW e, NEW r, D!Opposed(D!Reading(e, "trend"), D!Reading(e, "smart_money"))
    PROVE  D!ConflictSeen(e, r)
<1>1. D!Reading(e, "trend") \in {"bull", "bear"} /\ D!Reading(e, "smart_money") \in {"bull", "bear"}
  BY DEF D!Opposed
<1>2. D!AuditDirection(e, r, "trend") = D!Reading(e, "trend")
  BY <1>1 DEF D!AuditDirection
<1>3. D!AuditDirection(e, r, "smart_money") = D!Reading(e, "smart_money")
  BY <1>1 DEF D!AuditDirection
<1> QED
  BY <1>2, <1>3 DEF D!ConflictSeen, D!TrendConflict, D!TrendDoubt

\* A direction of the master score: three core tools at least, three against it at
\* most.
Side(d) == IF d = "BULLISH" THEN "bull" ELSE "bear"
Core == {"flow", "liquidity", "trend", "smart_money", "regime"}
ToolsSound(e, d) ==
    /\ Cardinality({t \in Core : D!Reading(e, t) \in {Side(d), "plain"}}) >= 3
    /\ Cardinality({t \in D!Tools : D!Reading(e, t) \notin {Side(d), "plain", "flat"}}) <= 3

LEMMA CountIsCount == ASSUME NEW S PROVE D!Cardinality(S) = Cardinality(S)
  BY DEF D!Cardinality, Cardinality, D!IsFiniteSet, IsFiniteSet

LEMMA ToolsAreFinite == IsFiniteSet(D!Tools) /\ IsFiniteSet(Core)
<1> DEFINE s1 == {"flow"}
           s2 == s1 \cup {"liquidity"}
           s3 == s2 \cup {"trend"}
           s4 == s3 \cup {"smart_money"}
           s5 == s4 \cup {"regime"}
           s6 == s5 \cup {"momentum"}
           s7 == s6 \cup {"news"}
           s8 == s7 \cup {"macro"}
<1>1. IsFiniteSet(s1)
  BY FS_Singleton
<1>2. IsFiniteSet(s2)
  BY <1>1, FS_AddElement
<1>3. IsFiniteSet(s3)
  BY <1>2, FS_AddElement
<1>4. IsFiniteSet(s4)
  BY <1>3, FS_AddElement
<1>5. IsFiniteSet(s5)
  BY <1>4, FS_AddElement
<1>6. IsFiniteSet(s6)
  BY <1>5, FS_AddElement
<1>7. IsFiniteSet(s7)
  BY <1>6, FS_AddElement
<1>8. IsFiniteSet(s8)
  BY <1>7, FS_AddElement
<1>9. s8 = D!Tools /\ s5 = Core
  BY DEF D!Tools, Core
<1> HIDE DEF s5, s8
<1> QED
  BY <1>5, <1>8, <1>9

LEMMA ReadingIsKnown ==
    ASSUME NEW e \in D!EnvType, NEW t \in D!Tools PROVE D!Reading(e, t) \in {"bull", "bear", "flat", "plain"}
<1>1. e.tools[t] \in {"bull", "bear", "flat", "plain"}
  BY DEF D!EnvType
<1> QED
  BY <1>1 DEF D!Reading

LEMMA SupportedIsSound ==
    ASSUME NEW e \in D!EnvType, NEW r, NEW d \in {"BULLISH", "BEARISH"}, D!Supports(e, r, d)
    PROVE  ToolsSound(e, d)
<1> DEFINE own == D!Aligned(e, r, d) \cap {"flow", "liquidity", "trend", "smart_money", "regime"}
           core == {t \in Core : D!Reading(e, t) \in {Side(d), "plain"}}
           other == D!Aligned(e, r, D!Opposite(d))
           against == {t \in D!Tools : D!Reading(e, t) \notin {Side(d), "plain", "flat"}}
<1>1. Cardinality(own) >= 3 /\ Cardinality(other) <= 3
  BY CountIsCount DEF D!Supports, D!ContextAvailable
<1>2. own \subseteq core
  <2> SUFFICES ASSUME NEW t \in own PROVE t \in core
    OBVIOUS
  <2>1. t \in Core /\ D!MasterReading(e, r, t) = d
    BY DEF D!Aligned, Core
  <2>2. D!Reading(e, t) \in {Side(d), "plain"}
    BY <2>1 DEF D!MasterReading, Side
  <2> QED
    BY <2>1, <2>2
<1>3. against \subseteq other
  <2> SUFFICES ASSUME NEW t \in against PROVE t \in other
    OBVIOUS
  <2>1. D!Reading(e, t) = Side(D!Opposite(d))
    BY ReadingIsKnown DEF Side, D!Opposite
  <2>2. D!MasterReading(e, r, t) = D!Opposite(d)
    BY <2>1 DEF D!MasterReading, Side, D!Opposite
  <2> QED
    BY <2>2 DEF D!Aligned
<1>4. IsFiniteSet(core) /\ IsFiniteSet(other)
  BY ToolsAreFinite, FS_Subset DEF D!Aligned
<1>5. Cardinality(own) <= Cardinality(core) /\ Cardinality(against) <= Cardinality(other)
  BY <1>2, <1>3, <1>4, FS_Subset
<1>6. Cardinality(core) \in Nat /\ Cardinality(other) \in Nat /\ Cardinality(own) \in Nat /\ Cardinality(against) \in Nat
  BY <1>2, <1>3, <1>4, FS_Subset, FS_CardinalityType
<1> QED
  BY <1>1, <1>5, <1>6 DEF ToolsSound

LEMMA MasterSays ==
    ASSUME NEW e \in D!EnvType, NEW r
    PROVE  LET m == D!MasterRow(e, r) IN
           /\ m.status = r.audit /\ m.dir \in {"BULLISH", "BEARISH", "NEUTRAL"}
           /\ m.dir # "NEUTRAL" => ToolsSound(e, m.dir)
<1>1. D!MasterRow(e, r).status = r.audit /\ D!MasterRow(e, r).dir = D!ChooseDirection(e, r)
  BY DEF D!MasterRow
<1>2. /\ D!ChooseDirection(e, r) \in {"BULLISH", "BEARISH", "NEUTRAL"}
      /\ D!ChooseDirection(e, r) # "NEUTRAL" => D!Supports(e, r, D!ChooseDirection(e, r))
  BY DEF D!ChooseDirection
<1> QED
  BY <1>1, <1>2, SupportedIsSound

-----------------------------------------------------------------------------
(* Reasons against a row: what it takes that there are none.                 *)

LEMMA NoBlockers ==
    ASSUME NEW r, NEW stale, D!Blockers(r, stale) = {}
    PROVE  /\ ~stale /\ ~r.stale /\ D!CoerceQuality(r) \notin D!BadQualities
           /\ ~r.provider /\ r.price /\ r.volume /\ r.audit # "BLOCKED" /\ r.masterStatus # "BLOCKED"
           /\ r.radarBlocks = {} /\ r.rankBlocks = {} /\ r.blocked = {} /\ ~D!HasConflict(r)
<1>1. /\ D!When(stale \/ r.stale \/ D!CoerceQuality(r) = "stale", {"snapshot_stale"}) = {}
      /\ D!When(D!CoerceQuality(r) \in D!BadQualities \ {"stale"}, {"data_quality"}) = {}
      /\ D!When(r.provider, {"provider_failed"}) = {} /\ D!When(~r.price, {"price_invalid"}) = {}
      /\ D!When(~r.volume, {"volume_invalid"}) = {} /\ D!When(r.audit = "BLOCKED", {"auditor_blocked"}) = {}
      /\ D!When(r.masterStatus = "BLOCKED", {"master_score_blocked"}) = {}
      /\ r.radarBlocks = {} /\ r.rankBlocks = {} /\ r.blocked = {}
      /\ D!When(D!HasConflict(r), {"decision_conflict"}) = {}
  BY DEF D!Blockers
<1> QED
  BY <1>1 DEF D!When

LEMMA WithoutBlockers ==
    ASSUME NEW r, ~r.stale, D!CoerceQuality(r) \notin D!BadQualities, ~r.provider, r.price, r.volume,
           r.audit # "BLOCKED", r.masterStatus # "BLOCKED", r.op # "BLOCKED", r.final # "NO_TRADE",
           r.radarBlocks = {}, r.rankBlocks = {}, r.blocked = {}, ~D!HasConflict(r)
    PROVE  D!Blockers(r, FALSE) = {}
<1>1. /\ D!When(FALSE \/ r.stale \/ D!CoerceQuality(r) = "stale", {"snapshot_stale"}) = {}
      /\ D!When(D!CoerceQuality(r) \in D!BadQualities \ {"stale"}, {"data_quality"}) = {}
      /\ D!When(r.provider, {"provider_failed"}) = {} /\ D!When(~r.price, {"price_invalid"}) = {}
      /\ D!When(~r.volume, {"volume_invalid"}) = {} /\ D!When(r.audit = "BLOCKED", {"auditor_blocked"}) = {}
      /\ D!When(r.masterStatus = "BLOCKED", {"master_score_blocked"}) = {}
      /\ D!When(r.op = "BLOCKED", r.opBlocks) = {} /\ D!When(r.final = "NO_TRADE", r.finalBlocks) = {}
      /\ D!When(D!HasConflict(r), {"decision_conflict"}) = {}
  BY DEF D!When, D!BadQualities
<1> QED
  BY <1>1 DEF D!Blockers

LEMMA StatusIsReady ==
    ASSUME NEW r, NEW stale
    PROVE  /\ D!EnvelopeStatus(r, stale) = "READY" <=>
                  /\ D!Blockers(r, stale) = {}
                  /\ r.signal \in D!Actionable /\ r.state \notin D!BlockedStates /\ r.ready = "yes"
           /\ "snapshot_stale" \in D!Blockers(r, stale) => D!EnvelopeStatus(r, stale) = "STALE_DATA"
           /\ D!EnvelopeStatus(r, stale) \in D!Statuses
  BY DEF D!EnvelopeStatus, D!Statuses

\* A row nothing can be held against, whatever the later stages add.
Faultless(e, r) ==
    /\ r.audit # "BLOCKED" /\ r.masterStatus # "BLOCKED" /\ r.panel # "NO_TRADE"
    /\ D!StageRisk(e, r) # "Critico"
    /\ ~r.stale /\ D!CoerceQuality(r) \notin D!BadQualities
    /\ r.quality \notin D!BadQualities \cup {"missing", "failed"}
    /\ r.price /\ r.volume /\ ~r.provider
    /\ r.signal \in D!Actionable /\ D!MasterConfirms(r) /\ ~r.conflict /\ r.blocked = {}
    /\ r.state \notin D!BlockedStates /\ D!StateAgrees(r)

LateFields ==
    {"radarBlocks", "radarScore", "radarLevel", "rankBlocks", "rankScore", "rankClass", "op", "opBlocks", "opScore",
     "convScore", "convLevel", "prioScore", "prioLevel", "ranked", "final", "finalBlocks", "envelope",
     "envelopeBlocks", "ready"}

LEMMA FaultlessStays ==
    ASSUME NEW e, NEW r, NEW n, NEW F \in SUBSET LateFields, Keeps(n, r, F), Faultless(e, r)
    PROVE  Faultless(e, n)
<1>1. /\ n.audit = r.audit /\ n.masterStatus = r.masterStatus /\ n.panel = r.panel /\ n.masterRisk = r.masterRisk
      /\ n.stale = r.stale /\ n.quality = r.quality /\ n.price = r.price /\ n.volume = r.volume
      /\ n.provider = r.provider /\ n.signal = r.signal /\ n.masterDir = r.masterDir /\ n.conflict = r.conflict
      /\ n.blocked = r.blocked /\ n.state = r.state
  BY DEF Keeps, RowFields, LateFields
<1>2. D!StageRisk(e, n) = D!StageRisk(e, r) /\ D!CoerceQuality(n) = D!CoerceQuality(r)
  BY <1>1 DEF D!StageRisk, D!CoerceQuality
<1>3. D!MasterConfirms(n) /\ D!StateAgrees(n)
  BY <1>1 DEF Faultless, D!MasterConfirms, D!StateAgrees
<1> QED
  BY <1>1, <1>2, <1>3 DEF Faultless

\* No reason in the radar: the row is clean.
LEMMA NoRadarReason ==
    ASSUME NEW e, NEW r, r.envelope = "", D!RadarReasons(e, r) = {}
    PROVE  Faultless(e, r) /\ r.ready = "yes"
<1>1. D!CommonReasons(e, r) = {} /\ D!IsActionable(r)
  BY DEF D!RadarReasons, D!When
<1>2. r.panel # "NO_TRADE" /\ D!StageRisk(e, r) # "Critico"
  BY <1>1 DEF D!CommonReasons, D!When
<1>3. D!EnvelopeStatus(r, FALSE) = "READY"
  BY <1>1 DEF D!IsActionable, D!ResolvedStatus
<1>4. D!Blockers(r, FALSE) = {} /\ r.state \notin D!BlockedStates
  BY <1>3, StatusIsReady
<1>5. ~r.conflict
  BY <1>4, NoBlockers DEF D!HasConflict
<1> QED
  BY <1>1, <1>2, <1>4, <1>5, NoBlockers DEF D!IsActionable, Faultless

LEMMA FaultlessHasNoReason == ASSUME NEW e, NEW r, Faultless(e, r), r.ready = "yes" PROVE D!CommonReasons(e, r) = {}
  BY DEF Faultless, D!CommonReasons, D!When

LEMMA FaultlessIsReady ==
    ASSUME NEW e, NEW r, Faultless(e, r), r.ready = "yes", r.radarBlocks = {}, r.rankBlocks = {}, r.op # "BLOCKED",
           r.final # "NO_TRADE", r.finalBlocks = {}
    PROVE  D!Blockers(r, FALSE) = {} /\ D!EnvelopeStatus(r, FALSE) = "READY"
<1>1. ~D!HasConflict(r)
  BY DEF Faultless, D!HasConflict
<1>2. D!Blockers(r, FALSE) = {}
  BY <1>1, WithoutBlockers DEF Faultless
<1> QED
  BY <1>2, StatusIsReady DEF Faultless

LEMMA FaultlessIsActionable ==
    ASSUME NEW e, NEW r, Faultless(e, r), r.ready = "yes", D!ResolvedStatus(r) = "READY", r.envelopeBlocks = {}
    PROVE  D!IsActionable(r)
  BY DEF Faultless, D!IsActionable, D!HasBlockingReasons

-----------------------------------------------------------------------------
(* The way of a row.                                                         *)

\* The stages that come after one.
AfterFinal == {"envelope", "done"}
AfterPriority == AfterFinal \cup {"final"}
AfterOperational == AfterPriority \cup {"conviction", "priority"}
AfterRanking == AfterOperational \cup {"operational"}
AfterRadar == AfterRanking \cup {"ranking"}
AfterApply == AfterRadar \cup {"panel", "radar"}
AfterScore == AfterApply \cup {"apply"}
AfterAudit == AfterScore \cup {"score"}
AfterSeed == AfterAudit \cup {"audit"}

RowTypes ==
    /\ env \in D!EnvType /\ feed \in D!FeedType /\ IsRow(row)
    /\ stage \in AfterSeed \cup {"seed"} /\ pass \in {1, 2} /\ (pass = 2 => env.stale)

\* What a row keeps of its feed.
FeedQuality == feed.price /\ feed.volume /\ feed.quality \notin D!BadQualities \cup {"partial", "missing", "failed"}
FromFeed ==
    /\ row.price = feed.price /\ row.volume = feed.volume /\ row.provider = feed.provider
    /\ row.signal = feed.signal /\ (feed.stale => row.stale)
    /\ row.ready = "yes" => feed.ready = "yes"
    /\ pass = 1 /\ stage = "seed" => row.quality = feed.quality /\ row.stale = feed.stale
    /\ pass = 1 /\ stage \in AfterSeed /\ row.quality \notin D!BadQualities => FeedQuality

\* In the first pass a field holds nothing until its stage.
Untouched ==
    pass = 1 =>
        /\ stage \notin AfterApply => row.masterDir = ""
        /\ stage \notin AfterRanking => row.rankBlocks = {}
        /\ stage \notin AfterOperational => row.op = ""
        /\ stage \notin AfterFinal => row.final = "" /\ row.finalBlocks = {}
        /\ stage # "done" => row.envelope = "" /\ row.envelopeBlocks = {}

\* A row the auditor stopped stays stopped, and one it let pass is sound.
AuditSound ==
    /\ env.risk < 70 /\ env.remark \notin {"thin_liquidity", "radar_invalid", "risk_blocks"}
    /\ feed.signal \in D!Actionable => env.pulse \in {"NEUTRAL", D!SideOfSignal(feed)}
    /\ D!Opposed(D!Reading(env, "trend"), D!Reading(env, "smart_money")) => row.conflict
AuditHolds ==
    stage \in AfterAudit =>
        /\ row.audit = "BLOCKED" <=> row.auditBlocks # {}
        /\ row.audit = "BLOCKED" => "auditor_blocked" \in row.blocked /\ row.ready # "yes"
        /\ row.audit # "BLOCKED" => ~env.stale /\ AuditSound

\* The direction of the row is that of its master row, with the tools behind it.
MasterHolds ==
    /\ stage \in AfterScore =>
          /\ master.status = row.audit /\ master.dir \in {"BULLISH", "BEARISH", "NEUTRAL"}
          /\ master.dir # "NEUTRAL" => ToolsSound(env, master.dir)
    /\ stage \in AfterApply => row.masterDir = master.dir /\ row.masterStatus = row.audit

\* What one surface finds against a row, all of them find.
SurfacesHold ==
    /\ stage \in AfterRadar /\ row.radarBlocks = {} => Faultless(env, row) /\ row.ready = "yes"
    /\ stage \in AfterRanking => (row.rankBlocks = {} <=> row.radarBlocks = {})
    /\ stage \in AfterOperational =>
          (row.op = "BLOCKED" <=> row.opBlocks # {}) /\ (row.opBlocks = {} <=> row.radarBlocks = {})
    /\ stage \in AfterPriority =>
          (row.ranked <=> row.radarBlocks = {}) /\ (row.op = "BLOCKED" => row.prioLevel = "baixa")
    /\ stage \in AfterFinal =>
          (row.final = "NO_TRADE" <=> row.finalBlocks # {}) /\ (row.finalBlocks = {} <=> row.radarBlocks = {})
    /\ stage = "done" =>
          /\ row.envelope \in D!Statuses /\ (row.envelope = "READY" <=> row.radarBlocks = {})
          /\ row.envelope = "READY" => row.envelopeBlocks = {}
          /\ env.stale => row.envelope = "STALE_DATA"

PipelineInv == RowTypes /\ FromFeed /\ Untouched /\ AuditHolds /\ MasterHolds /\ SurfacesHold

LEMMA PipelineStart == D!Init => PipelineInv
<1> SUFFICES ASSUME D!Init PROVE PipelineInv
  OBVIOUS
<1>1. env \in D!EnvType /\ feed \in D!FeedType /\ row = D!Fresh(feed) /\ stage = "seed" /\ pass = 1
  BY AnalysisConstants DEF D!Init
<1>2. IsRow(row)
  BY <1>1, FreshIsRow
<1>3. /\ row.price = feed.price /\ row.volume = feed.volume /\ row.provider = feed.provider
      /\ row.signal = feed.signal /\ row.stale = feed.stale /\ row.ready = feed.ready /\ row.quality = feed.quality
      /\ row.masterDir = "" /\ row.rankBlocks = {} /\ row.op = "" /\ row.final = "" /\ row.finalBlocks = {}
      /\ row.envelope = "" /\ row.envelopeBlocks = {}
  BY <1>1 DEF D!Fresh
<1>4. stage \notin AfterSeed /\ stage \notin AfterAudit /\ stage \notin AfterScore /\ stage \notin AfterApply
      /\ stage \notin AfterRadar /\ stage \notin AfterRanking /\ stage \notin AfterOperational
      /\ stage \notin AfterPriority /\ stage \notin AfterFinal
  BY <1>1 DEF AfterSeed, AfterAudit, AfterScore, AfterApply, AfterRadar, AfterRanking, AfterOperational, AfterPriority, AfterFinal
<1>5. RowTypes
  BY <1>1, <1>2 DEF RowTypes
<1>6. FromFeed
  BY <1>1, <1>3, <1>4 DEF FromFeed
<1>7. Untouched
  BY <1>1, <1>3 DEF Untouched
<1>8. AuditHolds /\ MasterHolds
  BY <1>4 DEF AuditHolds, MasterHolds
<1>9. SurfacesHold
  BY <1>1, <1>4 DEF SurfacesHold
<1> QED
  BY <1>5, <1>6, <1>7, <1>8, <1>9 DEF PipelineInv

LEMMA SeedStep == ASSUME PipelineInv, D!Seed PROVE PipelineInv'
<1> DEFINE q == IF row.price /\ row.volume THEN D!CoerceQuality(row) ELSE "score_only"
<1>1. stage = "seed" /\ stage' = "audit" /\ row' = D!Seeded(row) /\ UNCHANGED <<env, feed, pass, master>>
  BY DEF D!Seed, D!Step
<1>2. /\ Keeps(row', row, {"quality", "stale"}) /\ row'.quality = q /\ (row.stale => row'.stale)
  BY <1>1, SeededKeeps DEF PipelineInv, RowTypes
<1>3. /\ row'.price = row.price /\ row'.volume = row.volume /\ row'.provider = row.provider
      /\ row'.signal = row.signal /\ row'.ready = row.ready /\ row'.masterDir = row.masterDir
      /\ row'.rankBlocks = row.rankBlocks /\ row'.op = row.op /\ row'.final = row.final
      /\ row'.finalBlocks = row.finalBlocks /\ row'.envelope = row.envelope /\ row'.envelopeBlocks = row.envelopeBlocks
  BY <1>2 DEF Keeps, RowFields
<1>4. stage' \in AfterSeed /\ stage' \notin AfterAudit /\ stage' \notin AfterScore /\ stage' \notin AfterApply
      /\ stage' \notin AfterRadar /\ stage' \notin AfterRanking /\ stage' \notin AfterOperational
      /\ stage' \notin AfterPriority /\ stage' \notin AfterFinal
  BY <1>1 DEF AfterSeed, AfterAudit, AfterScore, AfterApply, AfterRadar, AfterRanking, AfterOperational, AfterPriority, AfterFinal
<1>5. RowTypes'
  BY <1>1, <1>2, <1>4 DEF PipelineInv, RowTypes, Keeps
<1>6. FromFeed'
  <2>1. ASSUME pass = 1, q \notin D!BadQualities PROVE FeedQuality
    <3>1. row.price /\ row.volume /\ D!CoerceQuality(row) \notin D!BadQualities
      BY <2>1 DEF D!BadQualities
    <3>2. row.quality \notin D!BadQualities \cup {"partial", "missing", "failed"}
      BY <3>1 DEF D!CoerceQuality, D!Qualities, D!BadQualities
    <3> QED
      BY <1>1, <2>1, <3>1, <3>2 DEF PipelineInv, FromFeed, FeedQuality
  <2> HIDE DEF q
  <2>2. FeedQuality' = FeedQuality
    BY <1>1 DEF FeedQuality
  <2> QED
    BY <1>1, <1>2, <1>3, <2>1, <2>2 DEF PipelineInv, FromFeed
<1>7. Untouched'
  BY <1>1, <1>3, <1>4 DEF PipelineInv, Untouched, AfterApply, AfterRadar, AfterRanking, AfterOperational, AfterPriority, AfterFinal
<1> QED
  BY <1>1, <1>4, <1>5, <1>6, <1>7 DEF PipelineInv, AuditHolds, MasterHolds, SurfacesHold

LEMMA AuditStep == ASSUME PipelineInv, D!Audit PROVE PipelineInv'
<1> DEFINE blocks == D!AuditBlocks(env, row)
<1>1. stage = "audit" /\ stage' = "score" /\ row' = D!Audited(env, row) /\ UNCHANGED <<env, feed, pass, master>>
  BY DEF D!Audit, D!Step
<1>2. /\ Keeps(row', row, {"audit", "auditScore", "auditBlocks", "auditWarnings", "conflict", "blocked", "ready", "state"})
      /\ row'.audit = D!AuditStatus(env, row) /\ row'.auditBlocks = blocks
      /\ D!ConflictSeen(env, row) => row'.conflict
      /\ blocks # {} => "auditor_blocked" \in row'.blocked /\ row'.ready = "no"
      /\ blocks = {} => row'.ready = row.ready
  BY <1>1, AuditedKeeps DEF PipelineInv, RowTypes
<1>3. /\ row'.price = row.price /\ row'.volume = row.volume /\ row'.provider = row.provider
      /\ row'.signal = row.signal /\ row'.stale = row.stale /\ row'.quality = row.quality
      /\ row'.masterDir = row.masterDir /\ row'.rankBlocks = row.rankBlocks /\ row'.op = row.op
      /\ row'.final = row.final /\ row'.finalBlocks = row.finalBlocks
      /\ row'.envelope = row.envelope /\ row'.envelopeBlocks = row.envelopeBlocks
  BY <1>2 DEF Keeps, RowFields
<1>4. /\ stage \in AfterSeed /\ stage \notin AfterApply /\ stage \notin AfterRanking
      /\ stage \notin AfterOperational /\ stage \notin AfterFinal /\ stage # "done"
      /\ stage' \in AfterSeed /\ stage' \in AfterAudit /\ stage' \notin AfterScore /\ stage' \notin AfterApply
      /\ stage' \notin AfterRadar /\ stage' \notin AfterRanking /\ stage' \notin AfterOperational
      /\ stage' \notin AfterPriority /\ stage' \notin AfterFinal /\ stage' # "done" /\ stage' # "seed"
  BY <1>1 DEF AfterSeed, AfterAudit, AfterScore, AfterApply, AfterRadar, AfterRanking, AfterOperational, AfterPriority, AfterFinal
<1>5. RowTypes'
  BY <1>1, <1>2, <1>4 DEF PipelineInv, RowTypes, Keeps
<1>6. FromFeed'
  <2>1. FeedQuality' = FeedQuality
    BY <1>1 DEF FeedQuality
  <2>2. row'.ready = "yes" => row.ready = "yes"
    BY <1>2
  <2> QED
    BY <1>1, <1>3, <1>4, <2>1, <2>2 DEF PipelineInv, FromFeed
<1>7. Untouched'
  BY <1>1, <1>3, <1>4 DEF PipelineInv, Untouched
<1>8. row'.audit = "BLOCKED" <=> blocks # {}
  BY <1>2 DEF D!AuditStatus
<1>9. ASSUME blocks = {} PROVE ~env.stale /\ AuditSound'
  <2>1. env \in D!EnvType /\ pass \in {1, 2} /\ (pass = 2 => env.stale)
    BY DEF PipelineInv, RowTypes
  <2>2. D!FeedFaults(env, row) = {}
    BY <1>9 DEF D!AuditBlocks
  <2>3. ~env.stale
    BY <2>2 DEF D!FeedFaults, D!When
  <2>4. row.masterDir = ""
    BY <1>4, <2>1, <2>3 DEF PipelineInv, Untouched
  <2>5. /\ env.risk < 70 /\ env.remark \notin {"thin_liquidity", "radar_invalid", "risk_blocks"}
        /\ row.signal \in D!Actionable => env.pulse \in {"NEUTRAL", D!SideOfSignal(row)}
    BY <1>9, <2>1, <2>4, PassedAudit
  <2>6. D!SideOfSignal(row) = D!SideOfSignal(feed) /\ row.signal = feed.signal
    BY DEF PipelineInv, FromFeed, D!SideOfSignal
  <2>7. D!Opposed(D!Reading(env, "trend"), D!Reading(env, "smart_money")) => row'.conflict
    BY <1>2, OpposedIsSeen
  <2>8. D!SideOfSignal(feed)' = D!SideOfSignal(feed) /\ D!Reading(env, "trend")' = D!Reading(env, "trend")
        /\ D!Reading(env, "smart_money")' = D!Reading(env, "smart_money")
    BY <1>1
  <2>9. D!Opposed(D!Reading(env, "trend"), D!Reading(env, "smart_money"))'
            = D!Opposed(D!Reading(env, "trend"), D!Reading(env, "smart_money"))
    BY <1>1
  <2> QED
    BY <1>1, <2>3, <2>5, <2>6, <2>7, <2>8, <2>9 DEF AuditSound
<1>10. AuditHolds'
  BY <1>1, <1>2, <1>8, <1>9 DEF AuditHolds
<1>11. MasterHolds' /\ SurfacesHold'
  BY <1>4 DEF MasterHolds, SurfacesHold
<1> QED
  BY <1>5, <1>6, <1>7, <1>10, <1>11 DEF PipelineInv

\* What no stage after the audit does to a row.
LEMMA EarlierHolds ==
    ASSUME PipelineInv, UNCHANGED <<env, feed, pass>>, stage \in AfterAudit, stage' \in AfterAudit,
           NEW F, Keeps(row', row, F), "blocked" \in F => row.blocked \subseteq row'.blocked,
           F \cap {"quality", "price", "volume", "provider", "stale", "signal", "audit", "auditBlocks", "conflict"} = {},
           row'.ready = "yes" => row.ready = "yes"
    PROVE  RowTypes' /\ FromFeed' /\ AuditHolds'
<1>1. /\ row'.price = row.price /\ row'.volume = row.volume /\ row'.provider = row.provider
      /\ row'.signal = row.signal /\ row'.stale = row.stale /\ row'.quality = row.quality
      /\ row'.audit = row.audit /\ row'.auditBlocks = row.auditBlocks /\ row'.conflict = row.conflict
  BY DEF Keeps, RowFields
<1>2. row.blocked \subseteq row'.blocked
  <2>1. "blocked" \in RowFields
    BY DEF RowFields
  <2> QED
    BY <2>1 DEF Keeps
<1>3. AfterAudit \subseteq AfterSeed /\ stage \in AfterSeed /\ stage' \in AfterSeed /\ stage # "seed" /\ stage' # "seed"
  BY DEF AfterSeed, AfterAudit, AfterScore, AfterApply, AfterRadar, AfterRanking, AfterOperational, AfterPriority, AfterFinal
<1>4. RowTypes'
  BY <1>3 DEF PipelineInv, RowTypes, Keeps
<1>5. FromFeed'
  <2>1. FeedQuality' = FeedQuality
    BY DEF FeedQuality
  <2> QED
    BY <1>1, <1>3, <2>1 DEF PipelineInv, FromFeed
<1>6. AuditHolds'
  <2>1. AuditSound => AuditSound'
    <3>1. D!SideOfSignal(feed)' = D!SideOfSignal(feed) /\ D!Reading(env, "trend")' = D!Reading(env, "trend")
          /\ D!Reading(env, "smart_money")' = D!Reading(env, "smart_money")
      OBVIOUS
    <3>2. D!Opposed(D!Reading(env, "trend"), D!Reading(env, "smart_money"))'
              = D!Opposed(D!Reading(env, "trend"), D!Reading(env, "smart_money"))
      OBVIOUS
    <3> QED
      BY <1>1, <3>1, <3>2 DEF AuditSound
  <2> QED
    BY <1>1, <1>2, <2>1 DEF PipelineInv, AuditHolds
<1> QED
  BY <1>4, <1>5, <1>6

LEMMA ScoreStep == ASSUME PipelineInv, D!Score PROVE PipelineInv'
<1>1. /\ stage = "score" /\ stage' = "apply" /\ row' = row /\ UNCHANGED <<env, feed, pass>>
      /\ master' = D!MasterRow(env, row)
  BY DEF D!Score, D!Step
<1>2. /\ stage \in AfterAudit /\ stage' \in AfterAudit /\ stage' \in AfterScore
      /\ stage \notin AfterApply /\ stage \notin AfterRanking
      /\ stage \notin AfterOperational /\ stage \notin AfterFinal /\ stage # "done" /\ stage' \notin AfterApply
      /\ stage' \notin AfterRadar /\ stage' \notin AfterRanking /\ stage' \notin AfterOperational
      /\ stage' \notin AfterPriority /\ stage' \notin AfterFinal /\ stage' # "done"
  BY <1>1 DEF AfterAudit, AfterScore, AfterApply, AfterRadar, AfterRanking, AfterOperational, AfterPriority, AfterFinal
<1>3. Keeps(row', row, {})
  BY <1>1 DEF PipelineInv, RowTypes, Keeps
<1>4. RowTypes' /\ FromFeed' /\ AuditHolds'
  BY <1>1, <1>2, <1>3, EarlierHolds
<1>5. Untouched'
  BY <1>1, <1>2 DEF PipelineInv, Untouched
<1>6. MasterHolds'
  <2>1. /\ master'.status = row.audit /\ master'.dir \in {"BULLISH", "BEARISH", "NEUTRAL"}
        /\ master'.dir # "NEUTRAL" => ToolsSound(env, master'.dir)
    BY <1>1, MasterSays DEF PipelineInv, RowTypes
  <2>2. ASSUME NEW d PROVE ToolsSound(env, d)' = ToolsSound(env, d)
    BY <1>1
  <2>3. ToolsSound(env, master.dir)' = ToolsSound(env, master'.dir)
    BY <1>1
  <2> QED
    BY <1>1, <1>2, <2>1, <2>3 DEF MasterHolds
<1>7. SurfacesHold'
  BY <1>2 DEF SurfacesHold
<1> QED
  BY <1>4, <1>5, <1>6, <1>7 DEF PipelineInv

LEMMA ApplyStep == ASSUME PipelineInv, D!Apply PROVE PipelineInv'
<1> DEFINE F == {"masterDir", "masterScore", "masterStatus", "masterRisk", "conviction", "confidence",
                 "aligned", "opposing", "blocked", "ready", "state"}
<1>1. /\ stage = "apply" /\ stage' = "panel" /\ row' = D!MasterApplied(master, row)
      /\ UNCHANGED <<env, feed, pass, master>>
  BY DEF D!Apply, D!Step
<1>2. /\ Keeps(row', row, F) /\ row'.masterDir = master.dir /\ row'.masterStatus = master.status
      /\ row.blocked \subseteq row'.blocked /\ (row'.ready = row.ready \/ row'.ready = "no")
  BY <1>1, MasterAppliedKeeps DEF PipelineInv, RowTypes
<1>3. /\ row'.audit = row.audit /\ row'.rankBlocks = row.rankBlocks /\ row'.op = row.op
      /\ row'.final = row.final /\ row'.finalBlocks = row.finalBlocks
      /\ row'.envelope = row.envelope /\ row'.envelopeBlocks = row.envelopeBlocks
  BY <1>2 DEF Keeps, RowFields
<1>4. /\ stage \in AfterAudit /\ stage' \in AfterAudit /\ stage \in AfterScore /\ stage' \in AfterScore
      /\ stage \notin AfterRanking /\ stage \notin AfterOperational /\ stage \notin AfterFinal /\ stage # "done"
      /\ stage' \in AfterApply /\ stage' \notin AfterRadar /\ stage' \notin AfterRanking
      /\ stage' \notin AfterOperational /\ stage' \notin AfterPriority /\ stage' \notin AfterFinal /\ stage' # "done"
  BY <1>1 DEF AfterAudit, AfterScore, AfterApply, AfterRadar, AfterRanking, AfterOperational, AfterPriority, AfterFinal
<1>5. RowTypes' /\ FromFeed' /\ AuditHolds'
  <2>1. row'.ready = "yes" => row.ready = "yes"
    BY <1>2
  <2>2. F \cap {"quality", "price", "volume", "provider", "stale", "signal", "audit", "auditBlocks", "conflict"} = {}
    OBVIOUS
  <2> HIDE DEF F
  <2> QED
    BY <1>1, <1>2, <1>4, <2>1, <2>2, EarlierHolds
<1>6. Untouched'
  BY <1>1, <1>3, <1>4 DEF PipelineInv, Untouched
<1>7. MasterHolds'
  <2>1. ToolsSound(env, master.dir)' = ToolsSound(env, master.dir)
    BY <1>1
  <2> QED
    BY <1>1, <1>2, <1>3, <1>4, <2>1 DEF PipelineInv, MasterHolds
<1>8. SurfacesHold'
  BY <1>4 DEF SurfacesHold
<1> QED
  BY <1>5, <1>6, <1>7, <1>8 DEF PipelineInv

\* What no stage after the master scores were applied does to a row.
LEMMA LaterHolds ==
    ASSUME PipelineInv, UNCHANGED <<env, feed, pass, master>>, stage \in AfterApply, stage' \in AfterApply,
           NEW F \in SUBSET (LateFields \cup {"panel"}), Keeps(row', row, F), row'.ready = "yes" => row.ready = "yes"
    PROVE  RowTypes' /\ FromFeed' /\ AuditHolds' /\ MasterHolds'
<1>1. AfterApply \subseteq AfterAudit /\ AfterApply \subseteq AfterScore
  BY DEF AfterAudit, AfterScore
<1>2. /\ F \cap {"quality", "price", "volume", "provider", "stale", "signal", "audit", "auditBlocks", "conflict"} = {}
      /\ "blocked" \notin F /\ {"masterDir", "masterStatus", "audit"} \cap F = {}
  BY DEF LateFields
<1>3. RowTypes' /\ FromFeed' /\ AuditHolds'
  BY <1>1, <1>2, EarlierHolds
<1>4. row'.masterDir = row.masterDir /\ row'.masterStatus = row.masterStatus /\ row'.audit = row.audit
  BY <1>2 DEF Keeps, RowFields
<1>5. ToolsSound(env, master.dir)' = ToolsSound(env, master.dir)
  OBVIOUS
<1>6. MasterHolds'
  BY <1>1, <1>4, <1>5 DEF PipelineInv, MasterHolds
<1> QED
  BY <1>3, <1>6

\* A stage after the radar leaves a row nothing is held against such a row.
LEMMA RadarSays ==
    ASSUME PipelineInv, env' = env, stage \in AfterRadar,
           NEW F \in SUBSET LateFields, Keeps(row', row, F), row'.radarBlocks = row.radarBlocks,
           row.radarBlocks = {} => row'.ready = row.ready
    PROVE  row'.radarBlocks = {} => Faultless(env, row)' /\ row'.ready = "yes"
<1> SUFFICES ASSUME row'.radarBlocks = {} PROVE Faultless(env, row)' /\ row'.ready = "yes"
  OBVIOUS
<1>1. Faultless(env, row) /\ row.ready = "yes"
  BY DEF PipelineInv, SurfacesHold
<1>2. Faultless(env, row')
  BY <1>1, FaultlessStays
<1>3. Faultless(env, row)' = Faultless(env, row')
  OBVIOUS
<1> QED
  BY <1>1, <1>2, <1>3

\* A row something is held against by the auditor is not there in a live cycle.
LEMMA PassedIsLive == ASSUME PipelineInv, stage \in AfterAudit, row.audit # "BLOCKED" PROVE pass = 1 /\ ~env.stale
  BY DEF PipelineInv, RowTypes, AuditHolds

LEMMA PanelStep == ASSUME PipelineInv, D!Panel PROVE PipelineInv'
<1>1. /\ stage = "panel" /\ stage' = "radar" /\ row' = [row EXCEPT !.panel = D!PanelAction(env, master)]
      /\ UNCHANGED <<env, feed, pass, master>>
  BY DEF D!Panel, D!Step
<1>2. Keeps(row', row, {"panel"})
  BY <1>1, PanelKeeps DEF PipelineInv, RowTypes
<1>3. /\ row'.masterDir = row.masterDir /\ row'.rankBlocks = row.rankBlocks /\ row'.op = row.op
      /\ row'.final = row.final /\ row'.finalBlocks = row.finalBlocks /\ row'.ready = row.ready
      /\ row'.envelope = row.envelope /\ row'.envelopeBlocks = row.envelopeBlocks
  BY <1>2 DEF Keeps, RowFields
<1>4. /\ stage \in AfterApply /\ stage' \in AfterApply /\ stage # "done"
      /\ stage \notin AfterRanking /\ stage \notin AfterOperational /\ stage \notin AfterFinal
      /\ stage' \notin AfterRadar /\ stage' \notin AfterRanking /\ stage' \notin AfterOperational
      /\ stage' \notin AfterPriority /\ stage' \notin AfterFinal /\ stage' # "done"
  BY <1>1 DEF AfterApply, AfterRadar, AfterRanking, AfterOperational, AfterPriority, AfterFinal
<1>5. RowTypes' /\ FromFeed' /\ AuditHolds' /\ MasterHolds'
  BY <1>1, <1>2, <1>3, <1>4, LaterHolds DEF LateFields
<1>6. Untouched'
  BY <1>1, <1>3, <1>4 DEF PipelineInv, Untouched
<1>7. SurfacesHold'
  BY <1>4 DEF SurfacesHold
<1> QED
  BY <1>5, <1>6, <1>7 DEF PipelineInv

LEMMA RadarStep == ASSUME PipelineInv, D!Radar PROVE PipelineInv'
<1> DEFINE F == {"radarBlocks", "radarScore", "radarLevel"}
<1>1. /\ stage = "radar" /\ stage' = "ranking" /\ row' = D!RadarEnriched(env, row)
      /\ UNCHANGED <<env, feed, pass, master>>
  BY DEF D!Radar, D!Step
<1>2. Keeps(row', row, F) /\ row'.radarBlocks = D!RadarReasons(env, row)
  BY <1>1, RadarKeeps DEF PipelineInv, RowTypes
<1>3. /\ row'.masterDir = row.masterDir /\ row'.rankBlocks = row.rankBlocks /\ row'.op = row.op
      /\ row'.final = row.final /\ row'.finalBlocks = row.finalBlocks /\ row'.ready = row.ready
      /\ row'.envelope = row.envelope /\ row'.envelopeBlocks = row.envelopeBlocks
  BY <1>2 DEF Keeps, RowFields
<1>4. /\ stage \in AfterAudit /\ stage \in AfterApply /\ stage' \in AfterApply /\ stage # "done"
      /\ stage \notin AfterRanking /\ stage \notin AfterOperational /\ stage \notin AfterFinal
      /\ stage' \in AfterRadar /\ stage' \notin AfterRanking /\ stage' \notin AfterOperational
      /\ stage' \notin AfterPriority /\ stage' \notin AfterFinal /\ stage' # "done"
  BY <1>1 DEF AfterAudit, AfterScore, AfterApply, AfterRadar, AfterRanking, AfterOperational, AfterPriority, AfterFinal
<1>5. F \in SUBSET LateFields
  BY DEF LateFields
<1> HIDE DEF F
<1>6. RowTypes' /\ FromFeed' /\ AuditHolds' /\ MasterHolds'
  BY <1>1, <1>2, <1>3, <1>4, <1>5, LaterHolds
<1>7. Untouched'
  BY <1>1, <1>3, <1>4 DEF PipelineInv, Untouched
<1>8. ASSUME row'.radarBlocks = {} PROVE Faultless(env, row)' /\ row'.ready = "yes"
  <2>1. row.audit = "BLOCKED" => row.auditBlocks # {}
    BY <1>4 DEF PipelineInv, AuditHolds
  <2>2. row.audit # "BLOCKED"
    <3>1. D!When(row.audit = "BLOCKED", row.auditBlocks) = {}
      BY <1>2, <1>8 DEF D!RadarReasons, D!CommonReasons
    <3> QED
      BY <2>1, <3>1 DEF D!When
  <2>3. row.envelope = ""
    BY <1>4, <2>2, PassedIsLive DEF PipelineInv, Untouched
  <2>4. Faultless(env, row) /\ row.ready = "yes"
    BY <1>2, <1>8, <2>3, NoRadarReason
  <2>5. Faultless(env, row')
    BY <1>2, <1>5, <2>4, FaultlessStays
  <2>6. Faultless(env, row)' = Faultless(env, row')
    BY <1>1
  <2> QED
    BY <1>3, <2>4, <2>5, <2>6
<1>9. SurfacesHold'
  BY <1>4, <1>8 DEF SurfacesHold
<1> QED
  BY <1>6, <1>7, <1>9 DEF PipelineInv

LEMMA RankingStep == ASSUME PipelineInv, D!Ranking PROVE PipelineInv'
<1> DEFINE F == {"rankBlocks", "rankScore", "rankClass"}
<1>1. /\ stage = "ranking" /\ stage' = "operational" /\ row' = D!RankEnriched(env, row)
      /\ UNCHANGED <<env, feed, pass, master>>
  BY DEF D!Ranking, D!Step
<1>2. Keeps(row', row, F) /\ row'.rankBlocks = D!RankReasons(env, row)
  BY <1>1, RankKeeps DEF PipelineInv, RowTypes
<1>3. /\ row'.masterDir = row.masterDir /\ row'.radarBlocks = row.radarBlocks /\ row'.op = row.op
      /\ row'.final = row.final /\ row'.finalBlocks = row.finalBlocks /\ row'.ready = row.ready
      /\ row'.envelope = row.envelope /\ row'.envelopeBlocks = row.envelopeBlocks
  BY <1>2 DEF Keeps, RowFields
<1>4. /\ stage \in AfterAudit /\ stage \in AfterApply /\ stage' \in AfterApply /\ stage # "done"
      /\ stage \in AfterRadar /\ stage \notin AfterRanking /\ stage \notin AfterOperational /\ stage \notin AfterFinal
      /\ stage' \in AfterRadar /\ stage' \in AfterRanking /\ stage' \notin AfterOperational
      /\ stage' \notin AfterPriority /\ stage' \notin AfterFinal /\ stage' # "done"
  BY <1>1 DEF AfterAudit, AfterScore, AfterApply, AfterRadar, AfterRanking, AfterOperational, AfterPriority, AfterFinal
<1>5. F \in SUBSET LateFields
  BY DEF LateFields
<1> HIDE DEF F
<1>6. RowTypes' /\ FromFeed' /\ AuditHolds' /\ MasterHolds'
  BY <1>1, <1>2, <1>3, <1>4, <1>5, LaterHolds
<1>7. Untouched'
  BY <1>1, <1>3, <1>4 DEF PipelineInv, Untouched
<1>8. row'.radarBlocks = {} => Faultless(env, row)' /\ row'.ready = "yes"
  BY <1>1, <1>2, <1>3, <1>4, <1>5, RadarSays
<1>9. ASSUME row.radarBlocks = {} PROVE D!RankReasons(env, row) = {}
  <2>1. Faultless(env, row) /\ row.ready = "yes"
    BY <1>4, <1>9 DEF PipelineInv, SurfacesHold
  <2>2. row.audit # "BLOCKED"
    BY <2>1 DEF Faultless
  <2>3. /\ row.rankBlocks = {} /\ row.op = "" /\ row.final = "" /\ row.finalBlocks = {}
        /\ row.envelope = "" /\ row.envelopeBlocks = {}
    BY <1>4, <2>2, PassedIsLive DEF PipelineInv, Untouched
  <2>4. D!EnvelopeStatus(row, FALSE) = "READY"
    BY <1>9, <2>1, <2>3, FaultlessIsReady
  <2>5. D!IsActionable(row)
    BY <2>1, <2>3, <2>4, FaultlessIsActionable DEF D!ResolvedStatus
  <2>6. D!CommonReasons(env, row) = {}
    BY <2>1, FaultlessHasNoReason
  <2> QED
    BY <1>9, <2>5, <2>6 DEF D!RankReasons, D!When
<1>10. row.radarBlocks \subseteq D!RankReasons(env, row)
  BY DEF D!RankReasons
<1>11. SurfacesHold'
  BY <1>2, <1>3, <1>4, <1>8, <1>9, <1>10 DEF SurfacesHold
<1> QED
  BY <1>6, <1>7, <1>11 DEF PipelineInv

LEMMA OperationalStep == ASSUME PipelineInv, D!Operational PROVE PipelineInv'
<1> DEFINE F == {"op", "opBlocks", "opScore"}
<1>1. /\ stage = "operational" /\ stage' = "conviction" /\ row' = D!OperationalEnriched(env, row)
      /\ UNCHANGED <<env, feed, pass, master>>
  BY DEF D!Operational, D!Step
<1>2. /\ Keeps(row', row, F) /\ row'.opBlocks = D!OperationalReasons(env, row)
      /\ row'.op = "BLOCKED" <=> row'.opBlocks # {}
  BY <1>1, OperationalKeeps DEF PipelineInv, RowTypes
<1>3. /\ row'.masterDir = row.masterDir /\ row'.radarBlocks = row.radarBlocks /\ row'.rankBlocks = row.rankBlocks
      /\ row'.final = row.final /\ row'.finalBlocks = row.finalBlocks /\ row'.ready = row.ready
      /\ row'.envelope = row.envelope /\ row'.envelopeBlocks = row.envelopeBlocks
  BY <1>2 DEF Keeps, RowFields
<1>4. /\ stage \in AfterApply /\ stage' \in AfterApply /\ stage # "done" /\ stage' \notin AfterFinal /\ stage' # "done"
      /\ stage \in AfterRadar /\ stage \in AfterRanking /\ stage \notin AfterFinal
      /\ stage' \in AfterRadar /\ stage' \in AfterRanking /\ stage' \in AfterOperational /\ stage' \notin AfterPriority
  BY <1>1 DEF AfterApply, AfterRadar, AfterRanking, AfterOperational, AfterPriority, AfterFinal
<1>5. F \in SUBSET LateFields
  BY DEF LateFields
<1> HIDE DEF F
<1>6. RowTypes' /\ FromFeed' /\ AuditHolds' /\ MasterHolds'
  BY <1>1, <1>2, <1>3, <1>4, <1>5, LaterHolds
<1>7. Untouched'
  BY <1>1, <1>3, <1>4 DEF PipelineInv, Untouched
<1>8. row'.radarBlocks = {} => Faultless(env, row)' /\ row'.ready = "yes"
  BY <1>1, <1>2, <1>3, <1>4, <1>5, RadarSays
<1>9. ASSUME row.radarBlocks = {} PROVE D!OperationalReasons(env, row) = {}
  <2>1. Faultless(env, row) /\ row.ready = "yes"
    BY <1>4, <1>9 DEF PipelineInv, SurfacesHold
  <2> QED
    BY <1>9, <2>1, FaultlessHasNoReason DEF D!OperationalReasons
<1>10. row.radarBlocks \subseteq D!OperationalReasons(env, row)
  BY DEF D!OperationalReasons
<1>11. row.rankBlocks = {} <=> row.radarBlocks = {}
  BY <1>4 DEF PipelineInv, SurfacesHold
<1>12. SurfacesHold'
  BY <1>2, <1>3, <1>4, <1>8, <1>9, <1>10, <1>11 DEF SurfacesHold
<1> QED
  BY <1>6, <1>7, <1>12 DEF PipelineInv

LEMMA ConvictStep == ASSUME PipelineInv, D!Convict PROVE PipelineInv'
<1> DEFINE F == {"convScore", "convLevel"}
<1>1. /\ stage = "conviction" /\ stage' = "priority" /\ row' = D!ConvictionEnriched(env, row)
      /\ UNCHANGED <<env, feed, pass, master>>
  BY DEF D!Convict, D!Step
<1>2. Keeps(row', row, F)
  BY <1>1, ConvictionKeeps DEF PipelineInv, RowTypes
<1>3. /\ row'.masterDir = row.masterDir /\ row'.radarBlocks = row.radarBlocks /\ row'.rankBlocks = row.rankBlocks
      /\ row'.final = row.final /\ row'.finalBlocks = row.finalBlocks /\ row'.ready = row.ready
      /\ row'.op = row.op /\ row'.opBlocks = row.opBlocks
      /\ row'.envelope = row.envelope /\ row'.envelopeBlocks = row.envelopeBlocks
  BY <1>2 DEF Keeps, RowFields
<1>4. /\ stage \in AfterApply /\ stage' \in AfterApply /\ stage # "done" /\ stage' \notin AfterFinal /\ stage' # "done"
      /\ stage \in AfterRadar /\ stage \in AfterRanking /\ stage \in AfterOperational /\ stage \notin AfterFinal
      /\ stage' \in AfterRadar /\ stage' \in AfterRanking /\ stage' \in AfterOperational /\ stage' \notin AfterPriority
  BY <1>1 DEF AfterApply, AfterRadar, AfterRanking, AfterOperational, AfterPriority, AfterFinal
<1>5. F \in SUBSET LateFields
  BY DEF LateFields
<1> HIDE DEF F
<1>6. RowTypes' /\ FromFeed' /\ AuditHolds' /\ MasterHolds'
  BY <1>1, <1>2, <1>3, <1>4, <1>5, LaterHolds
<1>7. Untouched'
  BY <1>1, <1>3, <1>4 DEF PipelineInv, Untouched
<1>8. row'.radarBlocks = {} => Faultless(env, row)' /\ row'.ready = "yes"
  BY <1>1, <1>2, <1>3, <1>4, <1>5, RadarSays
<1>9. SurfacesHold'
  BY <1>3, <1>4, <1>8 DEF PipelineInv, SurfacesHold
<1> QED
  BY <1>6, <1>7, <1>9 DEF PipelineInv

LEMMA PriorityStep == ASSUME PipelineInv, D!Priority PROVE PipelineInv'
<1> DEFINE F == {"prioScore", "prioLevel", "ranked"}
<1>1. /\ stage = "priority" /\ stage' = "final" /\ row' = D!PriorityEnriched(env, row)
      /\ UNCHANGED <<env, feed, pass, master>>
  BY DEF D!Priority, D!Step
<1>2. /\ Keeps(row', row, F)
      /\ row'.ranked = (row.op # "BLOCKED" /\ row.rankBlocks = {} /\ row.radarBlocks = {})
      /\ row.op = "BLOCKED" => row'.prioLevel = "baixa"
  BY <1>1, PriorityKeeps DEF PipelineInv, RowTypes
<1>3. /\ row'.masterDir = row.masterDir /\ row'.radarBlocks = row.radarBlocks /\ row'.rankBlocks = row.rankBlocks
      /\ row'.final = row.final /\ row'.finalBlocks = row.finalBlocks /\ row'.ready = row.ready
      /\ row'.op = row.op /\ row'.opBlocks = row.opBlocks
      /\ row'.envelope = row.envelope /\ row'.envelopeBlocks = row.envelopeBlocks
  BY <1>2 DEF Keeps, RowFields
<1>4. /\ stage \in AfterApply /\ stage' \in AfterApply /\ stage # "done" /\ stage' \notin AfterFinal /\ stage' # "done"
      /\ stage \in AfterRadar /\ stage \in AfterRanking /\ stage \in AfterOperational /\ stage \notin AfterFinal
      /\ stage' \in AfterRadar /\ stage' \in AfterRanking /\ stage' \in AfterOperational /\ stage' \in AfterPriority
  BY <1>1 DEF AfterApply, AfterRadar, AfterRanking, AfterOperational, AfterPriority, AfterFinal
<1>5. F \in SUBSET LateFields
  BY DEF LateFields
<1> HIDE DEF F
<1>6. RowTypes' /\ FromFeed' /\ AuditHolds' /\ MasterHolds'
  BY <1>1, <1>2, <1>3, <1>4, <1>5, LaterHolds
<1>7. Untouched'
  BY <1>1, <1>3, <1>4 DEF PipelineInv, Untouched
<1>8. row'.radarBlocks = {} => Faultless(env, row)' /\ row'.ready = "yes"
  BY <1>1, <1>2, <1>3, <1>4, <1>5, RadarSays
<1>9. /\ row.rankBlocks = {} <=> row.radarBlocks = {}
      /\ row.op = "BLOCKED" <=> row.opBlocks # {}
      /\ row.opBlocks = {} <=> row.radarBlocks = {}
  BY <1>4 DEF PipelineInv, SurfacesHold
<1>10. row'.ranked <=> row'.radarBlocks = {}
  BY <1>2, <1>3, <1>9
<1>11. SurfacesHold'
  BY <1>2, <1>3, <1>4, <1>8, <1>9, <1>10 DEF SurfacesHold
<1> QED
  BY <1>6, <1>7, <1>11 DEF PipelineInv

LEMMA FinalStep == ASSUME PipelineInv, D!Final PROVE PipelineInv'
<1> DEFINE F == {"final", "finalBlocks"}
<1>1. /\ stage = "final" /\ stage' = "envelope" /\ row' = D!FinalEnriched(env, row)
      /\ UNCHANGED <<env, feed, pass, master>>
  BY DEF D!Final, D!Step
<1>2. /\ Keeps(row', row, F) /\ row'.finalBlocks = D!FinalReasons(env, row)
      /\ row'.final = "NO_TRADE" <=> row'.finalBlocks # {}
  BY <1>1, FinalKeeps DEF PipelineInv, RowTypes
<1>3. /\ row'.masterDir = row.masterDir /\ row'.radarBlocks = row.radarBlocks /\ row'.rankBlocks = row.rankBlocks
      /\ row'.ready = row.ready /\ row'.op = row.op /\ row'.opBlocks = row.opBlocks
      /\ row'.ranked = row.ranked /\ row'.prioLevel = row.prioLevel
      /\ row'.envelope = row.envelope /\ row'.envelopeBlocks = row.envelopeBlocks
  BY <1>2 DEF Keeps, RowFields
<1>4. /\ stage \in AfterApply /\ stage' \in AfterApply /\ stage # "done" /\ stage' \in AfterFinal /\ stage' # "done"
      /\ stage \in AfterRadar /\ stage \in AfterRanking /\ stage \in AfterOperational /\ stage \in AfterPriority
      /\ stage' \in AfterRadar /\ stage' \in AfterRanking /\ stage' \in AfterOperational /\ stage' \in AfterPriority
  BY <1>1 DEF AfterApply, AfterRadar, AfterRanking, AfterOperational, AfterPriority, AfterFinal
<1>5. F \in SUBSET LateFields
  BY DEF LateFields
<1> HIDE DEF F
<1>6. RowTypes' /\ FromFeed' /\ AuditHolds' /\ MasterHolds'
  BY <1>1, <1>2, <1>3, <1>4, <1>5, LaterHolds
<1>7. Untouched'
  BY <1>1, <1>3, <1>4 DEF PipelineInv, Untouched, AfterRanking, AfterOperational, AfterPriority
<1>8. row'.radarBlocks = {} => Faultless(env, row)' /\ row'.ready = "yes"
  BY <1>1, <1>2, <1>3, <1>4, <1>5, RadarSays
<1>9. /\ row.rankBlocks = {} <=> row.radarBlocks = {}
      /\ row.op = "BLOCKED" <=> row.opBlocks # {}
      /\ row.opBlocks = {} <=> row.radarBlocks = {}
      /\ row.ranked <=> row.radarBlocks = {}
      /\ row.op = "BLOCKED" => row.prioLevel = "baixa"
      /\ row.radarBlocks = {} => Faultless(env, row) /\ row.ready = "yes"
  BY <1>4 DEF PipelineInv, SurfacesHold
<1>10. ASSUME row.radarBlocks = {} PROVE D!FinalReasons(env, row) = {}
  <2>1. /\ row.audit # "BLOCKED" /\ row.ready = "yes" /\ row.op # "BLOCKED"
        /\ D!StageRisk(env, row) # "Critico" /\ row.rankBlocks = {}
    BY <1>9, <1>10 DEF Faultless
  <2> QED
    BY <1>10, <2>1 DEF D!FinalReasons, D!When
<1>11. row.radarBlocks \subseteq D!FinalReasons(env, row)
  BY DEF D!FinalReasons
<1>12. row'.finalBlocks = {} <=> row'.radarBlocks = {}
  BY <1>2, <1>3, <1>10, <1>11
<1>13. SurfacesHold'
  BY <1>2, <1>3, <1>4, <1>8, <1>9, <1>12 DEF SurfacesHold
<1> QED
  BY <1>6, <1>7, <1>13 DEF PipelineInv

LEMMA EnvelopeStep == ASSUME PipelineInv, D!Envelope PROVE PipelineInv'
<1> DEFINE F == {"envelope", "envelopeBlocks", "ready"}
           reached == D!EnvelopeStatus(row, env.stale)
<1>1. /\ stage = "envelope" /\ stage' = "done" /\ row' = D!Attach(row, env.stale)
      /\ UNCHANGED <<env, feed, pass, master>>
  BY DEF D!Envelope, D!Step
<1>2. /\ Keeps(row', row, F) /\ row'.envelope = reached /\ row'.envelopeBlocks = D!Blockers(row, env.stale)
      /\ row'.ready = "yes" <=> reached = "READY"
  BY <1>1, AttachKeeps DEF PipelineInv, RowTypes
<1>3. /\ row'.masterDir = row.masterDir /\ row'.radarBlocks = row.radarBlocks /\ row'.rankBlocks = row.rankBlocks
      /\ row'.op = row.op /\ row'.opBlocks = row.opBlocks /\ row'.final = row.final
      /\ row'.finalBlocks = row.finalBlocks /\ row'.ranked = row.ranked /\ row'.prioLevel = row.prioLevel
  BY <1>2 DEF Keeps, RowFields
<1>4. /\ stage \in AfterAudit /\ stage \in AfterApply /\ stage' \in AfterApply /\ stage' = "done"
      /\ stage \in AfterRadar /\ stage \in AfterRanking /\ stage \in AfterOperational /\ stage \in AfterPriority
      /\ stage' \in AfterRadar /\ stage' \in AfterRanking /\ stage' \in AfterOperational /\ stage' \in AfterPriority
      /\ stage \in AfterFinal /\ stage' \in AfterFinal
  BY <1>1 DEF AfterAudit, AfterScore, AfterApply, AfterRadar, AfterRanking, AfterOperational, AfterPriority, AfterFinal
<1>5. F \in SUBSET LateFields
  BY DEF LateFields
<1>6. /\ reached \in D!Statuses
      /\ reached = "READY" => D!Blockers(row, env.stale) = {} /\ row.ready = "yes"
      /\ "snapshot_stale" \in D!Blockers(row, env.stale) => reached = "STALE_DATA"
  BY StatusIsReady
<1> HIDE DEF F, reached
<1>7. RowTypes' /\ FromFeed' /\ AuditHolds' /\ MasterHolds'
  BY <1>1, <1>2, <1>4, <1>5, <1>6, LaterHolds
<1>8. Untouched'
  BY <1>4 DEF Untouched, AfterRanking, AfterOperational, AfterPriority
<1>9. /\ row.rankBlocks = {} <=> row.radarBlocks = {}
      /\ row.op = "BLOCKED" <=> row.opBlocks # {}
      /\ row.opBlocks = {} <=> row.radarBlocks = {}
      /\ row.ranked <=> row.radarBlocks = {}
      /\ row.op = "BLOCKED" => row.prioLevel = "baixa"
      /\ row.final = "NO_TRADE" <=> row.finalBlocks # {}
      /\ row.finalBlocks = {} <=> row.radarBlocks = {}
      /\ row.radarBlocks = {} => Faultless(env, row) /\ row.ready = "yes"
  BY <1>4 DEF PipelineInv, SurfacesHold
<1>10. ASSUME row.radarBlocks = {} PROVE reached = "READY"
  <2>1. Faultless(env, row) /\ row.ready = "yes"
    BY <1>9, <1>10
  <2>2. row.audit # "BLOCKED"
    BY <2>1 DEF Faultless
  <2>3. env.stale = FALSE
    <3>1. ~env.stale /\ env.stale \in BOOLEAN
      BY <1>4, <2>2, PassedIsLive DEF PipelineInv, RowTypes, D!EnvType
    <3> QED
      BY <3>1
  <2>4. D!EnvelopeStatus(row, FALSE) = "READY"
    BY <1>9, <1>10, <2>1, FaultlessIsReady
  <2> QED
    BY <2>3, <2>4 DEF reached
<1>11. reached = "READY" => row.radarBlocks = {}
  BY <1>6, NoBlockers
<1>12. row'.radarBlocks = {} => Faultless(env, row)' /\ row'.ready = "yes"
  <2>1. row.radarBlocks = {} => row'.ready = row.ready
    BY <1>2, <1>9, <1>10
  <2> QED
    BY <1>1, <1>2, <1>3, <1>4, <1>5, <2>1, RadarSays
<1>13. env.stale => reached = "STALE_DATA"
  BY <1>6 DEF D!Blockers, D!When
<1>14. SurfacesHold'
  BY <1>1, <1>2, <1>3, <1>4, <1>6, <1>9, <1>10, <1>11, <1>12, <1>13 DEF SurfacesHold
<1> QED
  BY <1>7, <1>8, <1>14 DEF PipelineInv

LEMMA RefeedStep == ASSUME PipelineInv, D!Refeed PROVE PipelineInv'
<1>1. /\ stage = "done" /\ stage' = "seed" /\ pass' = 2 /\ env' = [env EXCEPT !.stale = TRUE]
      /\ UNCHANGED <<feed, row, master>>
  BY DEF D!Refeed
<1>2. env' \in D!EnvType /\ env'.stale
  BY <1>1 DEF PipelineInv, RowTypes, D!EnvType
<1>3. /\ stage' \notin AfterSeed /\ stage' \notin AfterAudit /\ stage' \notin AfterScore /\ stage' \notin AfterApply
      /\ stage' \notin AfterRadar /\ stage' \notin AfterRanking /\ stage' \notin AfterOperational
      /\ stage' \notin AfterPriority /\ stage' \notin AfterFinal /\ stage' # "done"
  BY <1>1 DEF AfterSeed, AfterAudit, AfterScore, AfterApply, AfterRadar, AfterRanking, AfterOperational, AfterPriority, AfterFinal
<1>4. RowTypes'
  BY <1>1, <1>2 DEF PipelineInv, RowTypes
<1>5. FromFeed'
  BY <1>1, <1>3 DEF PipelineInv, FromFeed
<1>6. Untouched' /\ AuditHolds' /\ MasterHolds' /\ SurfacesHold'
  BY <1>1, <1>3 DEF Untouched, AuditHolds, MasterHolds, SurfacesHold
<1> QED
  BY <1>4, <1>5, <1>6 DEF PipelineInv

LEMMA PipelineStays == ASSUME PipelineInv, UNCHANGED rowVars PROVE PipelineInv'
<1> USE DEF rowVars
<1>1. RowTypes' /\ Untouched'
  BY DEF PipelineInv, RowTypes, Untouched
<1>2. FromFeed'
  BY DEF PipelineInv, FromFeed, FeedQuality
<1>3. AuditHolds'
  <2>1. AuditSound' = AuditSound
    BY DEF AuditSound
  <2> QED
    BY <2>1 DEF PipelineInv, AuditHolds
<1>4. MasterHolds'
  <2>1. ToolsSound(env, master.dir)' = ToolsSound(env, master.dir)
    OBVIOUS
  <2> QED
    BY <2>1 DEF PipelineInv, MasterHolds
<1>5. SurfacesHold'
  <2>1. Faultless(env, row)' = Faultless(env, row)
    OBVIOUS
  <2> QED
    BY <2>1 DEF PipelineInv, SurfacesHold
<1> QED
  BY <1>1, <1>2, <1>3, <1>4, <1>5 DEF PipelineInv

LEMMA PipelineStep == ASSUME PipelineInv, D!Next PROVE PipelineInv'
<1>1. CASE D!Seed
  BY <1>1, SeedStep
<1>2. CASE D!Audit
  BY <1>2, AuditStep
<1>3. CASE D!Score
  BY <1>3, ScoreStep
<1>4. CASE D!Apply
  BY <1>4, ApplyStep
<1>5. CASE D!Panel
  BY <1>5, PanelStep
<1>6. CASE D!Radar
  BY <1>6, RadarStep
<1>7. CASE D!Ranking
  BY <1>7, RankingStep
<1>8. CASE D!Operational
  BY <1>8, OperationalStep
<1>9. CASE D!Convict
  BY <1>9, ConvictStep
<1>10. CASE D!Priority
  BY <1>10, PriorityStep
<1>11. CASE D!Final
  BY <1>11, FinalStep
<1>12. CASE D!Envelope
  BY <1>12, EnvelopeStep
<1>13. CASE D!Refeed
  BY <1>13, RefeedStep
<1>14. CASE D!Finished
  BY <1>14, PipelineStays DEF D!Finished, D!vars, rowVars
<1> QED
  BY <1>1, <1>2, <1>3, <1>4, <1>5, <1>6, <1>7, <1>8, <1>9, <1>10, <1>11, <1>12, <1>13, <1>14 DEF D!Next

-----------------------------------------------------------------------------
(* What the way of a row comes to.                                           *)

LEMMA FaultlessTrades == ASSUME NEW e, NEW r, Faultless(e, r), r.final # "NO_TRADE", r.finalBlocks = {} PROVE ~D!NoTrade(r)
<1>1. r.signal \notin D!NoTradeSignals /\ r.state \notin D!NoTradeSignals
  BY DEF Faultless, D!Actionable, D!NoTradeSignals, D!BlockedStates
<1> QED
  BY <1>1 DEF D!NoTrade

LEMMA SurfacesFollow == ASSUME PipelineInv PROVE D!SurfacesAgree
<1> SUFFICES ASSUME stage = "done" PROVE D!SurfacesAgree
  BY DEF D!SurfacesAgree, D!Done
<1>1. /\ stage \in AfterRadar /\ stage \in AfterRanking /\ stage \in AfterOperational
      /\ stage \in AfterPriority /\ stage \in AfterFinal
  BY DEF AfterRadar, AfterRanking, AfterOperational, AfterPriority, AfterFinal
<1>2. /\ row.radarBlocks = {} => Faultless(env, row) /\ row.ready = "yes"
      /\ row.rankBlocks = {} <=> row.radarBlocks = {}
      /\ row.op = "BLOCKED" <=> row.radarBlocks # {}
      /\ row.ranked <=> row.radarBlocks = {}
      /\ row.op = "BLOCKED" => row.prioLevel = "baixa"
      /\ row.final = "NO_TRADE" <=> row.finalBlocks # {}
      /\ row.finalBlocks = {} <=> row.radarBlocks = {}
  BY <1>1 DEF PipelineInv, SurfacesHold
<1>3. /\ row.envelope \in D!Statuses /\ (row.envelope = "READY" <=> row.radarBlocks = {})
      /\ row.envelope = "READY" => row.envelopeBlocks = {}
  BY DEF PipelineInv, SurfacesHold
<1>4. row.envelope # ""
  BY <1>3 DEF D!Statuses
<1>5. D!ResolvedStatus(row) = row.envelope
  BY <1>4 DEF D!ResolvedStatus
<1>6. row.envelope = "READY" <=> D!IsActionable(row)
  <2>1. ASSUME row.envelope = "READY" PROVE D!IsActionable(row)
    BY <1>2, <1>3, <1>5, <2>1, FaultlessIsActionable
  <2>2. D!IsActionable(row) => row.envelope = "READY"
    BY <1>5 DEF D!IsActionable
  <2> QED
    BY <2>1, <2>2
<1>7. row.radarBlocks = {} => ~D!NoTrade(row)
  BY <1>2, FaultlessTrades
<1>8. ~D!UnauthorizedPromotion(row)
  BY <1>2, <1>7 DEF D!UnauthorizedPromotion, Faultless
<1>9. ~D!PriorityNoTrade(row)
  BY <1>2, <1>7 DEF D!PriorityNoTrade
<1> QED
  BY <1>2, <1>3, <1>6, <1>8, <1>9 DEF D!SurfacesAgree

LEMMA FallbackFollows == ASSUME PipelineInv PROVE D!FallbackNeverTrades
<1> SUFFICES ASSUME stage = "done", pass = 2 PROVE D!FallbackNeverTrades
  BY DEF D!FallbackNeverTrades, D!Done
<1>1. stage \in AfterAudit /\ stage \in AfterRadar /\ stage \in AfterFinal
  BY DEF AfterAudit, AfterScore, AfterApply, AfterRadar, AfterRanking, AfterOperational, AfterPriority, AfterFinal
<1>2. env.stale /\ IsRow(row)
  BY DEF PipelineInv, RowTypes
<1>3. row.envelope = "STALE_DATA" /\ row.audit = "BLOCKED"
  BY <1>1, <1>2 DEF PipelineInv, SurfacesHold, AuditHolds
<1>4. row.radarBlocks # {}
  BY <1>1, <1>3 DEF PipelineInv, SurfacesHold, Faultless
<1>5. row.final = "NO_TRADE"
  BY <1>1, <1>4 DEF PipelineInv, SurfacesHold
<1>6. ~D!IsActionable(row)
  BY <1>3 DEF D!IsActionable
<1>7. D!EnvelopeStatus(row, FALSE) # "READY"
  BY <1>3, StatusIsReady, NoBlockers
<1>8. D!Surface(row).envelope # "READY"
  BY <1>2, <1>7, AttachKeeps DEF D!Surface
<1> QED
  BY <1>3, <1>5, <1>6, <1>8 DEF D!FallbackNeverTrades

LEMMA ReadyFollows == ASSUME PipelineInv PROVE D!ReadyIsSound
<1> SUFFICES ASSUME stage = "done", row.envelope = "READY" PROVE D!ReadyIsSound
  BY DEF D!ReadyIsSound, D!Done
<1>1. /\ stage \in AfterAudit /\ stage \in AfterScore /\ stage \in AfterApply /\ stage \in AfterRadar
      /\ stage \in AfterSeed
  BY DEF AfterSeed, AfterAudit, AfterScore, AfterApply, AfterRadar, AfterRanking, AfterOperational, AfterPriority, AfterFinal
<1>2. Faultless(env, row) /\ row.ready = "yes"
  BY <1>1 DEF PipelineInv, SurfacesHold
<1>3. /\ row.audit # "BLOCKED" /\ ~row.stale /\ ~row.provider /\ row.signal \in D!Actionable
      /\ D!MasterConfirms(row) /\ ~row.conflict /\ row.quality \notin D!BadQualities
  BY <1>2 DEF Faultless
<1>4. pass = 1 /\ AuditSound
  BY <1>1, <1>3, PassedIsLive DEF PipelineInv, AuditHolds
<1>5. /\ feed.price /\ feed.volume /\ ~feed.provider /\ ~feed.stale /\ feed.ready = "yes"
      /\ feed.signal \in D!Actionable /\ feed.signal = row.signal
      /\ feed.quality \notin D!BadQualities \cup {"partial", "missing", "failed"}
  BY <1>1, <1>2, <1>3, <1>4 DEF PipelineInv, FromFeed, FeedQuality
<1>6. /\ env.risk < 70 /\ env.remark \notin {"thin_liquidity", "radar_invalid", "risk_blocks"}
      /\ env.pulse \in {"NEUTRAL", D!SideOfSignal(feed)}
      /\ ~D!Opposed(D!Reading(env, "trend"), D!Reading(env, "smart_money"))
  BY <1>3, <1>4, <1>5 DEF AuditSound
<1>7. D!SideOfSignal(feed) \in {"BULLISH", "BEARISH"} /\ ToolsSound(env, D!SideOfSignal(feed))
  <2>1. /\ row.masterDir = master.dir /\ master.dir \in {"BULLISH", "BEARISH", "NEUTRAL"}
        /\ master.dir # "NEUTRAL" => ToolsSound(env, master.dir)
    BY <1>1 DEF PipelineInv, MasterHolds
  <2>2. master.dir = D!SideOfSignal(feed) /\ master.dir # "NEUTRAL"
    BY <1>3, <1>5, <2>1 DEF D!MasterConfirms, D!SideOfSignal, D!BullishActions, D!BearishActions
  <2> QED
    BY <2>1, <2>2
<1>8. LET side == IF D!SideOfSignal(feed) = "BULLISH" THEN "bull" ELSE "bear"
          core == {"flow", "liquidity", "trend", "smart_money", "regime"}
      IN  /\ D!Cardinality({t \in core : D!Reading(env, t) \in {side, "plain"}}) >= 3
          /\ D!Cardinality({t \in D!Tools : D!Reading(env, t) \notin {side, "plain", "flat"}}) <= 3
  BY <1>7, CountIsCount DEF ToolsSound, Side, Core
<1> QED
  BY <1>4, <1>5, <1>6, <1>8 DEF D!ReadyIsSound

LEMMA PipelineAlways == AnalysisSpec => [](part = "row" => PipelineInv)
<1> DEFINE Inv == part = "row" => PipelineInv
<1>1. AnalysisInit => Inv
  BY PipelineStart DEF AnalysisInit
<1>2. Inv /\ [AnalysisNext]_analysisVars => Inv'
  <2> SUFFICES ASSUME Inv, [AnalysisNext]_analysisVars, part' = "row" PROVE PipelineInv'
    OBVIOUS
  <2>1. CASE Pipeline
    BY <2>1, PipelineStep DEF Pipeline
  <2>2. CASE Chart \/ Trade \/ UNCHANGED analysisVars
    BY <2>2, PipelineStays DEF Chart, Trade, analysisVars
  <2> QED
    BY <2>1, <2>2 DEF AnalysisNext
<1> QED
  BY <1>1, <1>2, PTL DEF AnalysisSpec

\* However the tools read and whatever the feed brought, a finished row is offered
\* by all of the surfaces or by none (radar, ranking, operational rules, final
\* decision and envelope).
THEOREM SurfacesAlwaysAgree == AnalysisSpec => []SurfacesAgree
<1>1. (part = "row" => PipelineInv) => SurfacesAgree
  BY SurfacesFollow DEF SurfacesAgree
<1> QED
  BY <1>1, PipelineAlways, PTL

\* A ready row stands on whole and fresh data of a live cycle and on tools that
\* agree with it, for every feed and every reading (attach_decision_envelope).
THEOREM ReadyRowHolds == AnalysisSpec => []ReadyIsSound
<1>1. (part = "row" => PipelineInv) => ReadyIsSound
  BY ReadyFollows DEF ReadyIsSound
<1> QED
  BY <1>1, PipelineAlways, PTL

\* Rows of the last good snapshot that are built again never come out as a trade,
\* whatever the tools say now (generate_market_snapshot).
THEOREM FallbackHolds == AnalysisSpec => []FallbackNeverTrades
<1>1. (part = "row" => PipelineInv) => FallbackNeverTrades
  BY FallbackFollows DEF FallbackNeverTrades
<1> QED
  BY <1>1, PipelineAlways, PTL

=============================================================================
