---------------------------- MODULE ChartSignals ----------------------------
(***************************************************************************)
(* The chart engine walks the bars of one chart, opens and closes one      *)
(* position at a time, and reports the last signal (the loop and the       *)
(* session close of build_trend_breakout_payload,                          *)
(* app/engine/trend_breakout_signal_engine.py; its context comes from      *)
(* app/engine/chart_signal_adapter.py).                                    *)
(***************************************************************************)
EXTENDS ChartFacts, FiniteSetsExt

CONSTANTS
    Contexts,  \* the AI rows the snapshot may hold for the symbol
    MaxBars    \* bound: bars after the warm-up

VARIABLES
    context,   \* the AI rows the chart was built with
    index,     \* bars walked since the warm-up
    previous,  \* the last bar walked
    book,      \* the pullback of either side: bar of its breakout, armed
    position,  \* the open position: side, bar, price and best price, in the side's own facing
    lastExit,  \* bar of the last exit
    signal,    \* the signal the payload will carry
    verdict,   \* the coherence the payload will carry
    event,     \* the last event of the chart
    view,      \* what the session close needs of the last bar that was not skipped
    status     \* "walking", or "ready" once the payload is built
vars == <<context, index, previous, book, position, lastExit, signal, verdict, event, view, status>>

None == [side |-> "none", at |-> 0, price |-> 0, best |-> 0]
Never == -1
LongAgo == -999
NoEvent == [type |-> "none", side |-> "none", reason |-> "none", at |-> Never, held |-> 0, blocked |-> FALSE]
NoView == [row |-> "none", long |-> 0, short |-> 0]
NoVerdict == "none"

Init ==
    /\ context \in Contexts \cup {NoContext}
    /\ previous \in Warmups
    /\ index = 0 /\ lastExit = LongAgo /\ status = "walking"
    /\ book = [s \in BothSides |-> [bar |-> Never, armed |-> FALSE]]
    /\ position = None /\ signal = "NEUTRAL" /\ verdict = NoVerdict
    /\ event = NoEvent /\ view = NoView

---------------------------------------------------------------------------
(***************************************************************************)
(* One bar.                                                                *)
(***************************************************************************)
\* Mutant: a pullback stays armed when its breakout is too old.
PullbackKeepsArmed(side, r) ==
    LET bar == IF r.on[side].breakout THEN index ELSE book[side].bar
        recent == bar >= 0 /\ index - bar <= Settings.pullbackBars
        armed == \/ book[side].armed /\ ~r.on[side].breakout
                 \/ recent /\ r.on[side].weak
    IN  [bar |-> bar, recent |-> recent, resumes |-> armed /\ r.on[side].resumes,
         armed |-> armed /\ ~r.on[side].resumes]

\* A breakout disarms the pullback of its side, a weak bar after a recent
\* breakout arms it, and the bar that resumes the trend uses it up.
Pullback(side, r) ==
    LET bar == IF r.on[side].breakout THEN index ELSE book[side].bar
        recent == bar >= 0 /\ index - bar <= Settings.pullbackBars
        armed == /\ recent
                 /\ (book[side].armed /\ ~r.on[side].breakout) \/ r.on[side].weak
    IN  [bar |-> bar, recent |-> recent, resumes |-> armed /\ r.on[side].resumes,
         armed |-> armed /\ ~r.on[side].resumes]

\* The bar with the pullbacks, scores and confidences of both sides.
Rated(b, r, pull, score) ==
    [r |-> r, pull |-> pull, score |-> score,
     confidence |-> [s \in BothSides |-> Confidence(s, r, score[s], score[Other(s)], context)],
     row |-> ContextRow(b, r, context, pull["long"].recent \/ pull["short"].recent)]
Scored(b, r, pull) ==
    Rated(b, r, pull, [s \in BothSides |-> r.on[s].base + Points(pull[s].resumes, 3) + Bonus(s, context)])
Paired(b, r) == Scored(b, r, [s \in BothSides |-> Pullback(s, r)])
Facts(b) == Paired(b, Read[b][previous])

\* The coherence rules block an action, warn of it or let it pass.
Ruled(d) == IF d.blocked # {} THEN "blocked" ELSE IF d.warnings # {} THEN "watch" ELSE "ok"
VerdictOn(f, action) == Ruled(Coherence(f.row, action, f.score["long"], f.score["short"]))

\* The liquidity reversal of a side, with the score it asks for.
Reversal(side, f) ==
    f.r.on[side].reverses /\ f.score[side] - Bonus(side, context) >= Max2(5, Settings.scoreMin - 1)

---------------------------------------------------------------------------
(***************************************************************************)
(* Entries.                                                                *)
(***************************************************************************)
\* No entry against the bias, within the cooldown of the last exit (unless volume
\* and score are far ahead), or without an edge on the other side.
MayEnter(side, f) ==
    LET own == f.score[side]
        opposite == f.score[Other(side)]
    IN  /\ ~BlockedSide(side, context)
        /\ \/ index - lastExit >= Settings.cooldown
           \/ f.r.rel >= Settings.volumeFactor + 35 /\ own >= opposite + Settings.edge + 3
        /\ own >= opposite + Settings.edge

\* The setups, and the order in which they are tried, the long side first: of
\* those that fit the first is taken.
Fits(setup, side, f) ==
    LET on == f.r.on[side]
        scored == f.score[side] >= Required(context)
        sure(n) == f.confidence[side] >= n
    IN  CASE setup = "pullback_resume" -> f.pull[side].resumes /\ ~on.crowded /\ scored
          [] setup = "breakout" -> on.breakout /\ scored
          [] setup = "level_reclaim" ->
                on.reclaim /\ sure(6000) /\ f.score[side] >= Max2(5, Required(context) - 1)
          [] setup = "liquidity_reversal" -> Reversal(side, f) /\ sure(6600)
          [] setup = "trend_acceptance" ->
                on.accepts /\ sure(6000) /\ scored /\ (Settings.cautious => f.r.volumeOk /\ sure(7200))
          [] setup = "trend_continuation" -> on.continues /\ sure(5800) /\ scored
Setups == <<"pullback_resume", "breakout", "level_reclaim", "liquidity_reversal", "trend_acceptance",
            "trend_continuation">>
Order == [i \in 1..12 |-> [setup |-> Setups[(i + 1) \div 2], side |-> IF i % 2 = 1 THEN "long" ELSE "short"]]
SetupsOf(f) == {i \in DOMAIN Order : MayEnter(Order[i].side, f) /\ Fits(Order[i].setup, Order[i].side, f)}
Taken(setups) == Order[Min(setups)]

EntryAction(side) == IF side = "long" THEN "BUY" ELSE "SHORT"
ExitAction(side) == IF side = "long" THEN "SELL" ELSE "COVER"
Opened(side, b) ==
    [side |-> side, at |-> index, price |-> Facing(side, b).close, best |-> Facing(side, b).high]

---------------------------------------------------------------------------
(***************************************************************************)
(* Exits.                                                                  *)
(***************************************************************************)
BestSoFar(b) == LET s == Facing(position.side, b) IN Max2(position.best, Max2(s.high, s.close))

TimeStop(side, intact) == index - position.at >= Settings.maxHold /\ ~intact

\* The reasons to leave: s and p are the bar and the one before as the side faces
\* them, lost and intact what is left of the trend, pressed how close the other
\* side has come.
Confirmed(o, f) ==
    /\ f.pull[o].resumes \/ f.r.on[o].breakout \/ Reversal(o, f) \/ f.r.on[o].continues
    /\ f.score[o] >= Required(context) /\ f.confidence[o] >= 6600
LevelBreak(s, p, rel, lost, intact, pressed) ==
    \/ s.close < s.sup - Buffer /\ lost /\ rel >= 80 /\ ~intact
    \/ /\ s.low < s.sup - Buffer /\ 100 * (s.sup - s.close) >= 35 * Buffer /\ s.close < p.low
       /\ s.close < Min2(s.fast, s.mid) \/ pressed
       /\ s.vol <= 0 \/ rel >= 55 \/ pressed
Protects(s, p, best, intact, pressed) ==
    best - position.price >= 135 /\ s.close < s.fast /\ s.close < p.low /\ pressed /\ ~intact
Lost(s) == s.close < Min2(s.mid, s.vwap)
Lead(side, f) == f.score[side] - f.score[Other(side)]
Intact(side, s, f) ==
    f.r.on[side].trend /\ ~Lost(s) /\ Lead(side, f) >= Settings.edge /\ ~f.r.on[side].hurt

\* Any of them closes the position, and the first is reported; a position that
\* only got old lost its trend.
Reasons(side, s, p, f, intact, pressed) ==
       Faults(ExitOnAi(side, context), {"ai_regime_flip"})
  \cup Faults(Lost(s) /\ Confirmed(Other(side), f), {"opposite_signal"})
  \cup Faults(s.levels /\ LevelBreak(s, p, f.r.rel, Lost(s), intact, pressed), {"level_break"})
  \cup Faults(Protects(s, p, Max2(position.best, Max2(s.high, s.close)), intact, pressed), {"protect_profit"})
  \cup Faults(Lost(s) /\ Lead(side, f) <= -Settings.edge /\ f.r.rel >= 95, {"micro_structure_loss"})
  \cup Faults(TimeStop(side, intact), {"trend_loss"})
ExitOrder == <<"ai_regime_flip", "opposite_signal", "level_break", "protect_profit", "micro_structure_loss", "trend_loss">>
Reported(reasons) == ExitOrder[Min({i \in DOMAIN ExitOrder : ExitOrder[i] \in reasons})]
ExitReasons(side, b, f) ==
    Reasons(side, Facing(side, b), Facing(side, previous), f, Intact(side, Facing(side, b), f), Lead(side, f) <= 1)

---------------------------------------------------------------------------
(***************************************************************************)
(* What every bar leaves behind.                                           *)
(***************************************************************************)
Walk(b) == status = "walking" /\ index < MaxBars /\ index' = index + 1 /\ previous' = b

Kept(f) ==
    /\ book' = [s \in BothSides |-> [bar |-> f.pull[s].bar, armed |-> f.pull[s].armed]]
    /\ view' = [row |-> f.row, long |-> f.score["long"], short |-> f.score["short"]]
    /\ UNCHANGED <<context, status>>

\* The first bar that is worth watching leaves its signal for good, and the first
\* bar at all leaves its verdict, until an entry or an exit replaces them.
Worth(side, f) ==
    /\ ~BlockedSide(side, context) /\ f.score[side] >= Required(context) /\ f.confidence[side] >= 5800
    /\ Settings.cautious => f.r.volumeOk
WatchSignal(f, held) ==
    IF signal # "NEUTRAL" THEN signal
    ELSE IF held # None THEN EntryAction(held.side)
    ELSE IF Worth("long", f) THEN "WATCH_BUY"
    ELSE IF Worth("short", f) THEN "WATCH_SHORT" ELSE "NEUTRAL"
FirstVerdict(f) ==
    IF verdict # NoVerdict THEN verdict
    ELSE VerdictOn(f, IF f.score["long"] >= f.score["short"] THEN "BUY" ELSE "SHORT")

---------------------------------------------------------------------------
(***************************************************************************)
(* The steps of the walk.                                                  *)
(***************************************************************************)
\* A bar without a price or a range is passed over.
Skip(b) ==
    /\ Walk(b) /\ ~b.valid
    /\ UNCHANGED <<context, book, position, lastExit, signal, verdict, event, view, status>>

\* Without a position, and without a setup or with a setup that the coherence rules block.
Watch(b, f, setups) ==
    /\ Walk(b) /\ b.valid /\ position = None
    /\ setups # {} => VerdictOn(f, EntryAction(Taken(setups).side)) = "blocked"
    /\ Kept(f)
    /\ signal' = WatchSignal(f, None)
    /\ verdict' = IF setups # {} THEN "blocked" ELSE FirstVerdict(f)
    /\ UNCHANGED <<position, lastExit, event>>

Enter(b, f, setups) ==
    /\ Walk(b) /\ b.valid /\ position = None /\ setups # {}
    /\ VerdictOn(f, EntryAction(Taken(setups).side)) # "blocked"
    /\ Kept(f)
    /\ position' = Opened(Taken(setups).side, b)
    /\ signal' = EntryAction(Taken(setups).side) /\ verdict' = VerdictOn(f, signal')
    /\ event' = [type |-> signal', side |-> Taken(setups).side, reason |-> Taken(setups).setup, at |-> index,
                 held |-> 0, blocked |-> verdict' = "blocked"]
    /\ UNCHANGED lastExit

Hold(b, f, reasons) ==
    /\ Walk(b) /\ b.valid /\ position # None /\ reasons = {}
    /\ Kept(f)
    /\ position' = [position EXCEPT !.best = BestSoFar(b)]
    /\ signal' = WatchSignal(f, position) /\ verdict' = FirstVerdict(f)
    /\ UNCHANGED <<lastExit, event>>

Exit(b, f, reasons) ==
    /\ Walk(b) /\ b.valid /\ position # None /\ reasons # {}
    /\ Kept(f)
    /\ position' = None /\ lastExit' = index
    /\ signal' = ExitAction(position.side) /\ verdict' = VerdictOn(f, signal')
    /\ event' = [type |-> signal', side |-> position.side, reason |-> Reported(reasons), at |-> index,
                 held |-> index - position.at, blocked |-> verdict' = "blocked"]

\* After the last bar: a position is closed if that bar ends the session.
Finish ==
    /\ status = "walking" /\ index > 0 /\ status' = "ready"
    /\ IF position # None /\ previous.closing /\ previous.priced
       THEN LET action == ExitAction(position.side)
                v == Ruled(Coherence(view.row, action, view.long, view.short))
            IN  /\ position' = None /\ signal' = action /\ verdict' = v
                /\ event' = [type |-> action, side |-> position.side, reason |-> "session_close",
                             at |-> index - 1, held |-> index - 1 - position.at, blocked |-> v = "blocked"]
       ELSE UNCHANGED <<position, signal, verdict, event>>
    /\ UNCHANGED <<context, index, previous, book, lastExit, view>>

\* Too few bars: the neutral payload.
TooFewBars == status = "walking" /\ index = 0 /\ status' = "ready"
              /\ UNCHANGED <<context, index, previous, book, position, lastExit, signal, verdict, event, view>>

Built == status = "ready" /\ UNCHANGED vars

Next ==
    \/ \E b \in Bars : Skip(b)
    \/ \E b \in Bars : \E f \in {Facts(b)} : \E setups \in {SetupsOf(f)} : Watch(b, f, setups) \/ Enter(b, f, setups)
    \/ /\ position # None
       /\ \E b \in Bars : \E f \in {Facts(b)} : \E reasons \in {ExitReasons(position.side, b, f)} :
             Hold(b, f, reasons) \/ Exit(b, f, reasons)
    \/ Finish \/ TooFewBars \/ Built
Spec == Init /\ [][Next]_vars

---------------------------------------------------------------------------
(***************************************************************************)
(* Properties.                                                             *)
(***************************************************************************)
\* The reported signal and the last event tell the position: an open one was
\* entered by the last event, whose verdict nobody blocked, and a closed one left
\* the signal of its exit, also after the session close.
SignalTellsPosition ==
    /\ position # None => /\ signal = EntryAction(position.side)
                          /\ event.type = signal /\ event.at = position.at /\ ~event.blocked
    /\ position = None => signal \notin Entries /\ event.type \notin Entries
    /\ event.type # "none" => signal = event.type

\* A pullback entry comes at least two bars after the last breakout of its side,
\* with a weak bar between, and while that breakout is recent.
PullbackFollowsBreakout ==
    event.reason = "pullback_resume" /\ event.at = index - 1 =>
        /\ book[event.side].bar # Never
        /\ event.at - book[event.side].bar \in 2..Settings.pullbackBars

\* What the last bar reports is what the bars before it add up to: the position
\* it left and, for a pullback, the breakout it resumes (build_trend_breakout_payload).
SignalsFollowBars == SignalTellsPosition /\ PullbackFollowsBreakout
===========================================================================
