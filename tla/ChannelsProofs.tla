--------------------------- MODULE ChannelsProofs ---------------------------
(* Theorems about the parts of Channels, for every value of its constants.  *)
EXTENDS Channels, FiniteSetTheorems, WellFoundedInduction, TLAPS

-----------------------------------------------------------------------------
(* One step of the composition is a step of one part.                        *)

LEMMA PartStays == ASSUME [ChannelsNext]_all PROVE part' = part
  BY DEF ChannelsNext, all, RoomsMove, PushMoves, TelegramMoves, FeedMoves, NewsMoves, BooksMove, HistoryMoves,
         PollsMove, CommunityMoves, LinksMove

-----------------------------------------------------------------------------
(* Telegram alerts.                                                          *)

LEMMA TelegramStep ==
    ASSUME [ChannelsNext]_all, part = "telegram"
    PROVE  [T!Next]_T!vars
  BY DEF ChannelsNext, all, RoomsMove, PushMoves, TelegramMoves, FeedMoves, NewsMoves, BooksMove, HistoryMoves,
         PollsMove, CommunityMoves, LinksMove, Shared, telegramVars, T!vars

SenderState == [pc : {"idle", "next", "post"}, batch : Seq(T!Alerts), at : Nat]
SenderTypes ==
    /\ clock \in Nat \ {0}
    /\ fingerprints \in [T!Fingerprints -> Nat]
    /\ sender \in [Senders -> SenderState]

\* An alert that is being sent is reserved since its request began, which is less
\* than a cooldown ago, if none of its requests is overdue.
IsReserved(p) ==
    T!Fingerprint(T!Current(p)) \notin overdue =>
        /\ fingerprints[T!Fingerprint(T!Current(p))] = sender[p].at
        /\ sender[p].at # 0 /\ clock - sender[p].at < AlertCooldown
SentIsReserved == \A p \in Senders : T!Posting(p) => sender[p].batch # <<>> /\ IsReserved(p)
TelegramInv == SenderTypes /\ SentIsReserved /\ T!OneSenderPerAlert

\* A batch holds prepared alerts.
LEMMA BatchesOfAlerts ==
    ASSUME NEW rows \in SUBSET T!Alerts, NEW b \in T!Batches(rows)
    PROVE  b \in Seq(T!Alerts)
<1> DEFINE n(q) == IF Len(q) < MaxBatch THEN Len(q) ELSE MaxBatch
<1>1. PICK q \in T!SetToAllKPermutations(rows) : b = SubSeq(q, 1, n(q)) /\ Len(q) = T!Cardinality(rows)
  BY DEF T!Batches
<1>2. PICK s \in SUBSET rows : q \in T!SetToSeqs(s)
  BY <1>1 DEF T!SetToAllKPermutations
<1>3. \A S : T!Cardinality(S) = Cardinality(S)
  BY DEF T!Cardinality, Cardinality
<1>4. IsFiniteSet(s)
  BY <1>2, AlertTiming, FS_Subset DEF T!Alerts
<1>5. Cardinality(s) \in Nat
  BY <1>4, FS_CardinalityType
<1>6. q \in [1..Cardinality(s) -> s]
  BY <1>2, <1>3 DEF T!SetToSeqs
<1>7. q \in Seq(T!Alerts) /\ Len(q) \in Nat
  BY <1>2, <1>5, <1>6
<1>8. n(q) \in 0..Len(q)
  BY <1>7, AlertTiming
<1> QED
  BY <1>1, <1>7, <1>8

LEMMA HeadOfBatch ==
    ASSUME NEW b \in Seq(T!Alerts), b # <<>>
    PROVE  /\ Head(b) \in T!Alerts /\ T!Fingerprint(Head(b)) \in T!Fingerprints
           /\ Tail(b) \in Seq(T!Alerts)
<1>1. Head(b) \in T!Alerts /\ Tail(b) \in Seq(T!Alerts)
  OBVIOUS
<1> QED
  BY <1>1 DEF T!Fingerprints

\* A thread that is done with an alert holds none; the others are where they were.
LEMMA DoneTypes ==
    ASSUME NEW p \in Senders, sender \in [Senders -> SenderState], sender[p].batch # <<>>, T!Done(p)
    PROVE  /\ sender' \in [Senders -> SenderState] /\ sender'[p].pc # "post"
           /\ \A q \in Senders \ {p} : sender'[q] = sender[q]
<1>1. sender[p] \in SenderState
  OBVIOUS
<1>2. Tail(sender[p].batch) \in Seq(T!Alerts)
  BY <1>1, HeadOfBatch DEF SenderState
<1> QED
  BY <1>2 DEF T!Done, SenderState

\* Reserving an alert: nobody else is sending it.
LEMMA ReserveKeeps ==
    ASSUME TelegramInv, NEW p \in Senders, T!Reserve(p)
    PROVE  TelegramInv'
<1> DEFINE f == T!Fingerprint(T!Current(p))
<1>1. sender[p] \in SenderState /\ f \in T!Fingerprints /\ fingerprints[f] \in Nat
  BY HeadOfBatch DEF T!Reserve, T!Current, TelegramInv, SenderTypes, SenderState
<1>2. ~(fingerprints[f] # 0 /\ clock - fingerprints[f] < AlertCooldown)
  BY DEF T!Reserve, T!Repeats
<1>3. \A q \in Senders : T!Posting(q) => q # p /\ (T!Fingerprint(T!Current(q)) = f => f \in overdue)
  <2> SUFFICES ASSUME NEW q \in Senders, T!Posting(q)
               PROVE  q # p /\ (T!Fingerprint(T!Current(q)) = f => f \in overdue)
    OBVIOUS
  <2>1. IsReserved(q)
    BY DEF TelegramInv, SentIsReserved
  <2>2. q # p
    BY DEF T!Reserve, T!Posting
  <2> QED
    BY <2>1, <2>2, <1>2 DEF IsReserved
<1>4. /\ clock' = clock /\ fingerprints' = [fingerprints EXCEPT ![f] = clock]
      /\ sender' = [sender EXCEPT ![p].pc = "post", ![p].at = clock]
      /\ overdue' = overdue \ ({f} \ T!Posted)
  BY DEF T!Reserve, T!Reserved
<1>5. sender'[p] = [sender[p] EXCEPT !.pc = "post", !.at = clock] /\ \A q \in Senders \ {p} : sender'[q] = sender[q]
  BY <1>4 DEF TelegramInv, SenderTypes
<1>6. SenderTypes'
  BY <1>1, <1>4 DEF TelegramInv, SenderTypes, SenderState
<1>7. T!Fingerprint(T!Current(p))' = f /\ sender'[p].batch # <<>> /\ sender'[p].at = clock
  <2>1. sender'[p].batch = sender[p].batch /\ sender'[p].at = clock
    BY <1>1, <1>5 DEF SenderState
  <2>2. sender[p].batch # <<>>
    BY DEF T!Reserve
  <2> QED
    BY <2>1, <2>2 DEF T!Current, T!Fingerprint
<1>8. \A q \in Senders \ {p} : /\ T!Posting(q)' <=> T!Posting(q)
                               /\ T!Fingerprint(T!Current(q))' = T!Fingerprint(T!Current(q))
  BY <1>5 DEF T!Current, T!Posting, T!Fingerprint
<1>9. \A q \in Senders \ {p} : T!Posting(q) /\ T!Fingerprint(T!Current(q)) = f => f \in overdue'
  <2> SUFFICES ASSUME NEW q \in Senders, T!Posting(q), T!Fingerprint(T!Current(q)) = f
               PROVE  f \in overdue'
    OBVIOUS
  <2>1. f \in T!Posted
    BY DEF T!Posted
  <2> QED
    BY <2>1, <1>3, <1>4
<1>10. ASSUME NEW q \in Senders, T!Posting(q)'
       PROVE  sender'[q].batch # <<>> /\ IsReserved(q)'
  <2>1. CASE q = p
    <3>1. fingerprints'[f] = clock /\ clock # 0 /\ clock - clock < AlertCooldown
      BY <1>1, <1>4, AlertTiming DEF TelegramInv, SenderTypes
    <3> QED
      BY <2>1, <3>1, <1>4, <1>7 DEF IsReserved
  <2>2. CASE q # p
    <3>1. T!Posting(q) /\ sender'[q] = sender[q] /\ T!Fingerprint(T!Current(q))' = T!Fingerprint(T!Current(q))
      BY <1>10, <2>2, <1>5, <1>8
    <3>2. sender[q].batch # <<>> /\ IsReserved(q)
      BY <3>1 DEF TelegramInv, SentIsReserved
    <3>3. CASE T!Fingerprint(T!Current(q)) = f
      BY <2>2, <3>1, <3>2, <3>3, <1>9 DEF IsReserved
    <3>4. CASE T!Fingerprint(T!Current(q)) # f
      <4>1. fingerprints'[T!Fingerprint(T!Current(q))] = fingerprints[T!Fingerprint(T!Current(q))]
        BY <3>4, <1>4 DEF TelegramInv, SenderTypes
      <4>2. T!Fingerprint(T!Current(q)) \in overdue <=> T!Fingerprint(T!Current(q)) \in overdue'
        BY <3>4, <1>4
      <4> QED
        BY <3>1, <3>2, <4>1, <4>2, <1>4 DEF IsReserved
    <3> QED
      BY <3>3, <3>4
  <2> QED
    BY <2>1, <2>2
<1>11. T!OneSenderPerAlert'
  <2> SUFFICES ASSUME NEW q \in Senders, NEW r \in Senders, q # r, T!Posting(q)', T!Posting(r)',
                      T!Fingerprint(T!Current(q))' = T!Fingerprint(T!Current(r))'
               PROVE  T!Fingerprint(T!Current(q))' \in overdue'
    BY DEF T!OneSenderPerAlert
  <2>1. CASE q = p \/ r = p
    BY <2>1, <1>7, <1>8, <1>9
  <2>2. CASE q # p /\ r # p
    <3>1. /\ T!Posting(q) /\ T!Posting(r) /\ T!Fingerprint(T!Current(q)) = T!Fingerprint(T!Current(r))
          /\ T!Fingerprint(T!Current(q))' = T!Fingerprint(T!Current(q))
      BY <2>2, <1>8
    <3>2. T!Fingerprint(T!Current(q)) \in overdue /\ T!Fingerprint(T!Current(q)) \in T!Posted
      BY <3>1 DEF TelegramInv, T!OneSenderPerAlert, T!Posted
    <3> QED
      BY <3>1, <3>2, <1>4
  <2> QED
    BY <2>1, <2>2
<1> QED
  BY <1>6, <1>10, <1>11 DEF TelegramInv, SentIsReserved


\* A thread that is done with its alert changes nothing for the others, whose
\* alerts have other fingerprints, or have been sent too long.
LEMMA EndKeeps ==
    ASSUME TelegramInv, NEW p \in Senders, T!Posting(p), T!Done(p), clock' = clock, overdue' = overdue,
           fingerprints' \in [T!Fingerprints -> Nat],
           \A f \in T!Fingerprints : f # T!Fingerprint(T!Current(p)) => fingerprints'[f] = fingerprints[f]
    PROVE  TelegramInv'
<1>1. /\ sender' \in [Senders -> SenderState] /\ ~T!Posting(p)'
      /\ \A q \in Senders \ {p} : sender'[q] = sender[q]
  BY DoneTypes DEF TelegramInv, SenderTypes, SentIsReserved, T!Posting
<1>2. SenderTypes'
  BY <1>1 DEF TelegramInv, SenderTypes
<1>3. \A q \in Senders : T!Posting(q)' => /\ q # p /\ T!Posting(q)
                                          /\ T!Fingerprint(T!Current(q))' = T!Fingerprint(T!Current(q))
  BY <1>1 DEF T!Posting, T!Current, T!Fingerprint
<1>4. SentIsReserved'
  <2> SUFFICES ASSUME NEW q \in Senders, T!Posting(q)'
               PROVE  sender'[q].batch # <<>> /\ IsReserved(q)'
    BY DEF SentIsReserved
  <2>1. q # p /\ T!Posting(q) /\ sender'[q] = sender[q]
    BY <1>1, <1>3
  <2>2. sender[q].batch # <<>> /\ sender[q] \in SenderState
    BY <2>1 DEF TelegramInv, SentIsReserved, SenderTypes
  <2>3. T!Fingerprint(T!Current(q)) \in T!Fingerprints
    BY <2>2, HeadOfBatch DEF SenderState, T!Current
  <2>4. T!Fingerprint(T!Current(q)) = T!Fingerprint(T!Current(p)) => T!Fingerprint(T!Current(q)) \in overdue
    BY <2>1 DEF TelegramInv, T!OneSenderPerAlert
  <2>5. IsReserved(q)
    BY <2>1 DEF TelegramInv, SentIsReserved
  <2> QED
    BY <1>3, <2>1, <2>2, <2>3, <2>4, <2>5 DEF IsReserved
<1>5. T!OneSenderPerAlert'
  BY <1>3 DEF TelegramInv, T!OneSenderPerAlert
<1> QED
  BY <1>2, <1>4, <1>5 DEF TelegramInv

\* A step of a thread that is not sending and does not begin to.
LEMMA QuietKeeps ==
    ASSUME TelegramInv, NEW p \in Senders, ~T!Posting(p), sender' \in [Senders -> SenderState], ~T!Posting(p)',
           \A q \in Senders \ {p} : sender'[q] = sender[q], UNCHANGED <<clock, fingerprints, overdue>>
    PROVE  TelegramInv'
<1>1. \A q \in Senders : T!Posting(q)' => /\ q # p /\ T!Posting(q)
                                          /\ T!Fingerprint(T!Current(q))' = T!Fingerprint(T!Current(q))
  BY DEF T!Posting, T!Current, T!Fingerprint
<1>2. SenderTypes'
  BY DEF TelegramInv, SenderTypes
<1>3. SentIsReserved'
  BY <1>1 DEF TelegramInv, SentIsReserved, IsReserved
<1>4. T!OneSenderPerAlert'
  BY <1>1 DEF TelegramInv, T!OneSenderPerAlert
<1> QED
  BY <1>2, <1>3, <1>4 DEF TelegramInv

LEMMA TelegramKept ==
    ASSUME TelegramInv, [T!Next]_T!vars
    PROVE  TelegramInv'
<1>1. CASE UNCHANGED T!vars
  BY <1>1 DEF T!vars, TelegramInv, SenderTypes, SentIsReserved, IsReserved, T!OneSenderPerAlert, T!Posting, T!Current, T!Fingerprint
<1>2. CASE T!Tick
  <2>1. SenderTypes' /\ T!OneSenderPerAlert'
    BY <1>2 DEF T!Tick, TelegramInv, SenderTypes, T!OneSenderPerAlert, T!Posting, T!Current, T!Fingerprint
  <2>2. \A p \in Senders : sender[p].at \in Nat /\ clock \in Nat
    BY DEF TelegramInv, SenderTypes, SenderState
  <2>3. SentIsReserved'
    <3> SUFFICES ASSUME NEW p \in Senders, T!Posting(p)'
                 PROVE  sender'[p].batch # <<>> /\ IsReserved(p)'
      BY DEF SentIsReserved
    <3>1. T!Posting(p) /\ UNCHANGED <<sender, fingerprints>> /\ clock' = clock + 1 /\ overdue' = overdue \cup T!Overdue
      BY <1>2 DEF T!Tick, T!Posting
    <3>2. T!Fingerprint(T!Current(p))' = T!Fingerprint(T!Current(p))
      BY <3>1 DEF T!Fingerprint, T!Current
    <3>3. sender[p].batch # <<>> /\ IsReserved(p)
      BY <3>1 DEF TelegramInv, SentIsReserved
    <3>4. clock + 1 - sender[p].at >= AlertCooldown => T!Fingerprint(T!Current(p)) \in T!Overdue
      BY <3>1 DEF T!Overdue
    <3> QED
      BY <2>2, <3>1, <3>2, <3>3, <3>4, AlertTiming DEF IsReserved
  <2> QED
    BY <2>1, <2>3 DEF TelegramInv
<1>3. ASSUME NEW p \in Senders, T!Call(p)
      PROVE  TelegramInv'
  <2>1. PICK rows \in SUBSET Signals : \E b \in T!Batches({s \in rows : T!Prepared(s)}) :
            sender' = [sender EXCEPT ![p] = [pc |-> "next", batch |-> b, at |-> 0]]
    BY <1>3 DEF T!Call
  <2>2. {s \in rows : T!Prepared(s)} \in SUBSET T!Alerts
    BY DEF T!Alerts
  <2>3. PICK b \in Seq(T!Alerts) : sender' = [sender EXCEPT ![p] = [pc |-> "next", batch |-> b, at |-> 0]]
    BY <2>1, <2>2, BatchesOfAlerts
  <2> QED
    BY <1>3, <2>3, QuietKeeps DEF T!Call, TelegramInv, SenderTypes, SenderState, T!Posting
<1>4. ASSUME NEW p \in Senders, T!PassOver(p)
      PROVE  TelegramInv'
  BY <1>4, DoneTypes, QuietKeeps DEF T!PassOver, TelegramInv, SenderTypes, T!Posting
<1>5. ASSUME NEW p \in Senders, T!Return(p)
      PROVE  TelegramInv'
  BY <1>5, QuietKeeps DEF T!Return, T!Idle, TelegramInv, SenderTypes, SenderState, T!Posting
<1>6. ASSUME NEW p \in Senders, T!Sent(p)
      PROVE  TelegramInv'
  <2>1. sender[p] \in SenderState
    BY DEF TelegramInv, SenderTypes
  <2> QED
    BY <1>6, <2>1, EndKeeps DEF T!Sent, TelegramInv, SenderTypes, SenderState, T!Posting
<1>7. ASSUME NEW p \in Senders, T!Unknown(p)
      PROVE  TelegramInv'
  BY <1>7, EndKeeps DEF T!Unknown, TelegramInv, SenderTypes, T!Posting
<1>8. ASSUME NEW p \in Senders, T!Failed(p)
      PROVE  TelegramInv'
  <2> DEFINE f == T!Fingerprint(T!Current(p))
  <2>1. fingerprints' = [fingerprints EXCEPT ![f] = IF fingerprints[f] = sender[p].at THEN 0 ELSE fingerprints[f]]
    BY <1>8 DEF T!Failed
  <2>2. fingerprints' \in [T!Fingerprints -> Nat] /\ \A g \in T!Fingerprints : g # f => fingerprints'[g] = fingerprints[g]
    BY <2>1 DEF TelegramInv, SenderTypes
  <2> QED
    BY <1>8, <2>2, EndKeeps DEF T!Failed, T!Posting
<1> QED
  BY <1>1, <1>2, <1>3, <1>4, <1>5, <1>6, <1>7, <1>8, ReserveKeeps DEF T!Next

\* Two threads send the same alert at the same time only while a request of it has
\* outlasted the cooldown, whatever the batches are, however many threads dispatch
\* them and however long the requests take.
THEOREM OneSenderHolds == ChannelsSpec => []OneSenderPerAlert
<1> DEFINE Inv == part = "telegram" => TelegramInv
<1>1. ChannelsInit => Inv
  <2>1. ChannelsInit /\ part = "telegram" => T!Init
    BY DEF ChannelsInit, PartInit
  <2>2. T!Init => TelegramInv
    BY DEF T!Init, T!Idle, TelegramInv, SenderTypes, SenderState, SentIsReserved, T!OneSenderPerAlert, T!Posting
  <2> QED
    BY <2>1, <2>2
<1>2. Inv /\ [ChannelsNext]_all => Inv'
  BY PartStays, TelegramStep, TelegramKept
<1>3. Inv => OneSenderPerAlert
  BY DEF TelegramInv, OneSenderPerAlert
<1> QED
  BY <1>1, <1>2, <1>3, PTL DEF ChannelsSpec

-----------------------------------------------------------------------------
(* Push alerts.                                                              *)

LEMMA PushStep ==
    ASSUME [ChannelsNext]_all, part = "push"
    PROVE  [P!Next]_P!vars
  BY DEF ChannelsNext, all, RoomsMove, PushMoves, TelegramMoves, FeedMoves, NewsMoves, BooksMove, HistoryMoves,
         PollsMove, CommunityMoves, LinksMove, Shared, pushVars, P!vars

Cycle == [pc : {"signal", "send"}, at : Nat, queue : Seq(Tickers), stamps : [Tickers -> Nat],
          tokens : SUBSET (PushUsers \X Tokens), left : SUBSET (PushUsers \X Tokens), sent : Nat]
PushTypes ==
    /\ clock \in Nat /\ crashes \in Nat
    /\ stamps \in [Tickers -> Nat]
    /\ cycle \in Cycle \cup {P!Idle}
    /\ \A a \in log : a.at \in Nat

\* The ticker whose alerts are leaving had cooled down.
SendsCooled ==
    cycle.pc = "send" => cycle.queue # <<>> /\ cycle.at - cycle.stamps[Head(cycle.queue)] >= PushCooldown

\* Every alert since the last restart is remembered by the stamps the next decision
\* looks at: those in the file or, during a cycle, the ones it has read and changed;
\* but for those that are leaving now.
Remembered(a) ==
    \/ cycle = P!Idle /\ a.at <= stamps[a.ticker]
    \/ cycle # P!Idle /\ a.at <= cycle.stamps[a.ticker]
    \/ cycle.pc = "send" /\ a.ticker = Head(cycle.queue) /\ a.at = cycle.at /\ cycle.sent > 0
\* The stamps in the file remember every alert but those of the running cycle.
Filed(a) == (cycle # P!Idle /\ a.at = cycle.at) \/ a.at <= stamps[a.ticker]
AlertsRemembered == \A a \in log : a.ticker \in Tickers /\ Remembered(a) /\ Filed(a)
PushInv == PushTypes /\ SendsCooled /\ AlertsRemembered /\ P!OneAlertPerCooldown

\* What a cycle that runs looks like.
LEMMA CycleTypes ==
    ASSUME PushInv, cycle.pc \in {"signal", "send"}
    PROVE  /\ cycle \in Cycle /\ cycle # P!Idle
           /\ cycle.queue # <<>> => Head(cycle.queue) \in Tickers /\ Tail(cycle.queue) \in Seq(Tickers)
<1>1. cycle \in Cycle /\ cycle # P!Idle
  BY DEF PushInv, PushTypes, P!Idle
<1>2. cycle.queue \in Seq(Tickers)
  BY <1>1 DEF Cycle
<1> QED
  BY <1>1, <1>2

LEMMA DispatchKeeps == ASSUME PushInv, P!Dispatch PROVE PushInv'
<1> DEFINE New(q, known) == [pc |-> "signal", at |-> clock, queue |-> q, stamps |-> known, tokens |-> P!Active(file),
                             left |-> {}, sent |-> 0]
<1>1. PICK S \in SUBSET Tickers : /\ P!Cardinality(S) \in 1..MaxSignals
          /\ \E q \in P!Best(S), known \in {stamps, P!NeverSent} :
                 cycle' = New(q, known) /\ log' = IF known = stamps THEN log ELSE {}
  BY DEF P!Dispatch
<1>2. PICK q \in P!Best(S), known \in {stamps, P!NeverSent} :
          cycle' = New(q, known) /\ log' = IF known = stamps THEN log ELSE {}
  BY <1>1
<1>3. q \in [1..P!Cardinality(S) -> S] /\ P!Cardinality(S) \in Nat
  BY <1>1 DEF P!Best
<1>4. q \in Seq(Tickers) /\ known \in [Tickers -> Nat] /\ clock \in Nat
  BY <1>3 DEF P!NeverSent, PushInv, PushTypes
<1>5. cycle' \in Cycle /\ cycle' # P!Idle /\ cycle'.pc = "signal" /\ cycle'.stamps = known
  BY <1>2, <1>4 DEF Cycle, P!Active, P!Idle
<1>6. cycle = P!Idle /\ cycle.pc = "idle" /\ UNCHANGED <<clock, crashes, stamps>>
  BY DEF P!Dispatch, P!Idle
<1>7. log' = {} \/ (log' = log /\ cycle'.stamps = stamps)
  BY <1>2, <1>5
<1>8. AlertsRemembered'
  BY <1>5, <1>6, <1>7 DEF PushInv, AlertsRemembered, Remembered, Filed
<1> QED
  BY <1>5, <1>6, <1>7, <1>8 DEF PushInv, PushTypes, SendsCooled, P!OneAlertPerCooldown

\* Going on to the next ticker.
LEMMA SkipKeeps == ASSUME PushInv, P!Skip PROVE PushInv'
<1>1. cycle \in Cycle /\ cycle # P!Idle /\ cycle.pc = "signal" /\ Tail(cycle.queue) \in Seq(Tickers)
  BY CycleTypes DEF P!Skip
<1>2. cycle' = [cycle EXCEPT !.pc = "signal", !.queue = Tail(cycle.queue), !.left = {}]
  BY DEF P!Skip, P!Next1
<1>3. cycle' \in Cycle /\ cycle' # P!Idle /\ cycle'.pc = "signal" /\ cycle'.stamps = cycle.stamps /\ cycle'.at = cycle.at
  BY <1>1, <1>2 DEF Cycle, P!Idle
<1>4. UNCHANGED <<clock, crashes, stamps, log>>
  BY DEF P!Skip
<1> QED
  BY <1>1, <1>3, <1>4 DEF PushInv, PushTypes, SendsCooled, AlertsRemembered, Remembered, Filed, P!OneAlertPerCooldown

LEMMA TakeKeeps == ASSUME PushInv, P!Take PROVE PushInv'
<1>1. cycle \in Cycle /\ cycle # P!Idle /\ cycle.pc = "signal" /\ cycle.queue # <<>> /\ Head(cycle.queue) \in Tickers
  BY CycleTypes DEF P!Take
<1>2. cycle' = [cycle EXCEPT !.pc = "send", !.left = cycle.tokens, !.sent = 0] /\ UNCHANGED <<clock, crashes, stamps, log>>
  BY DEF P!Take
<1>3. /\ cycle' \in Cycle /\ cycle' # P!Idle /\ cycle'.pc = "send" /\ cycle'.stamps = cycle.stamps
      /\ cycle'.queue = cycle.queue /\ cycle'.at = cycle.at
  BY <1>1, <1>2 DEF Cycle, P!Idle
<1>4. cycle.at - cycle.stamps[Head(cycle.queue)] >= PushCooldown
  <2>1. cycle.at \in Nat /\ cycle.stamps[Head(cycle.queue)] \in Nat
    BY <1>1 DEF Cycle
  <2> QED
    BY <2>1, PushTiming DEF P!Take, P!Cooling
<1>5. AlertsRemembered'
  BY <1>1, <1>2, <1>3 DEF PushInv, AlertsRemembered, Remembered, Filed
<1> QED
  BY <1>1, <1>2, <1>3, <1>4, <1>5 DEF PushInv, PushTypes, SendsCooled, P!OneAlertPerCooldown

LEMMA SentKeeps == ASSUME PushInv, NEW d \in PushUsers \X Tokens, P!Sent(d) PROVE PushInv'
<1> DEFINE new == [ticker |-> Head(cycle.queue), token |-> d[2], at |-> cycle.at]
<1>1. /\ cycle \in Cycle /\ cycle # P!Idle /\ cycle.pc = "send" /\ cycle.queue # <<>> /\ Head(cycle.queue) \in Tickers
      /\ cycle.at \in Nat /\ cycle.sent \in Nat /\ cycle.stamps[Head(cycle.queue)] \in Nat
  BY CycleTypes DEF P!Sent, P!Turn, PushInv, SendsCooled, Cycle
<1>2. /\ cycle' = [cycle EXCEPT !.left = cycle.left \ {d}, !.sent = cycle.sent + 1]
      /\ UNCHANGED <<clock, crashes, stamps>> /\ log' = log \cup {new}
  BY DEF P!Sent
<1>3. /\ cycle' \in Cycle /\ cycle' # P!Idle /\ cycle'.pc = "send" /\ cycle'.stamps = cycle.stamps
      /\ cycle'.queue = cycle.queue /\ cycle'.at = cycle.at /\ cycle'.sent > 0
  <2>1. cycle.left \ {d} \in SUBSET (PushUsers \X Tokens)
    BY <1>1 DEF Cycle
  <2>2. cycle.sent + 1 \in Nat /\ cycle.sent + 1 > 0
    BY <1>1
  <2> HIDE DEF new
  <2> QED
    BY <1>1, <1>2, <2>1, <2>2 DEF Cycle, P!Idle
<1>4. PushTypes'
  BY <1>1, <1>2, <1>3 DEF PushInv, PushTypes
<1>5. SendsCooled'
  BY <1>1, <1>3 DEF PushInv, SendsCooled
<1>6. AlertsRemembered'
  <2>1. ASSUME NEW a \in log
        PROVE  a.ticker \in Tickers /\ Remembered(a)' /\ Filed(a)'
    <3>1. a.ticker \in Tickers /\ Remembered(a) /\ Filed(a)
      BY DEF PushInv, AlertsRemembered
    <3>2. Remembered(a)'
      BY <1>1, <1>3, <3>1 DEF Remembered
    <3>3. Filed(a)'
      BY <1>1, <1>2, <1>3, <3>1 DEF Filed
    <3> QED
      BY <3>1, <3>2, <3>3
  <2>2. new.ticker \in Tickers /\ Remembered(new)' /\ Filed(new)'
    BY <1>1, <1>3 DEF Remembered, Filed
  <2> QED
    BY <1>2, <2>1, <2>2 DEF AlertsRemembered
<1>7. \A a \in log : a.ticker = new.ticker
          => (a.at = new.at \/ new.at - a.at >= PushCooldown) /\ a.at <= new.at
  <2> SUFFICES ASSUME NEW a \in log, a.ticker = new.ticker
               PROVE  (a.at = new.at \/ new.at - a.at >= PushCooldown) /\ a.at <= new.at
    OBVIOUS
  <2>1. a.at \in Nat
    BY DEF PushInv, PushTypes
  <2>2. a.at <= cycle.stamps[Head(cycle.queue)] \/ a.at = cycle.at
    BY <1>1 DEF PushInv, AlertsRemembered, Remembered, Filed
  <2>3. cycle.at - cycle.stamps[Head(cycle.queue)] >= PushCooldown
    BY <1>1 DEF PushInv, SendsCooled
  <2> QED
    BY <1>1, <2>1, <2>2, <2>3, PushTiming
<1>8. P!OneAlertPerCooldown'
  <2> SUFFICES ASSUME NEW a \in log', NEW b \in log', a.ticker = b.ticker, a.token = b.token, a.at < b.at
               PROVE  b.at - a.at >= PushCooldown
    BY DEF P!OneAlertPerCooldown
  <2>1. CASE a \in log /\ b \in log
    BY <2>1 DEF PushInv, P!OneAlertPerCooldown
  <2>2. CASE a \in log /\ b = new
    BY <2>2, <1>7, <1>1 DEF PushInv, PushTypes
  <2>3. CASE a = new
    BY <2>3, <1>1, <1>2, <1>7 DEF PushInv, PushTypes
  <2> QED
    BY <1>2, <2>1, <2>2, <2>3
<1> QED
  BY <1>4, <1>5, <1>6, <1>8 DEF PushInv

\* A device that is not reached, and one the provider does not know.
LEMMA MissKeeps ==
    ASSUME PushInv, NEW d \in PushUsers \X Tokens, P!Unsent(d) \/ P!Invalid(d)
    PROVE  PushInv'
<1>1. cycle \in Cycle /\ cycle # P!Idle /\ cycle.pc = "send"
  BY CycleTypes DEF P!Unsent, P!Invalid, P!Turn
<1>2. cycle' = [cycle EXCEPT !.left = cycle.left \ {d}] /\ UNCHANGED <<clock, crashes, stamps, log>>
  BY DEF P!Unsent, P!Invalid
<1>3. cycle.left \ {d} \in SUBSET (PushUsers \X Tokens)
  BY <1>1 DEF Cycle
<1>4. /\ cycle' \in Cycle /\ cycle' # P!Idle /\ cycle'.pc = "send" /\ cycle'.stamps = cycle.stamps
      /\ cycle'.queue = cycle.queue /\ cycle'.at = cycle.at /\ cycle'.sent = cycle.sent
  BY <1>1, <1>2, <1>3 DEF Cycle, P!Idle
<1>5. AlertsRemembered'
  BY <1>1, <1>2, <1>4 DEF PushInv, AlertsRemembered, Remembered, Filed
<1> QED
  BY <1>1, <1>2, <1>4, <1>5 DEF PushInv, PushTypes, SendsCooled, P!OneAlertPerCooldown

\* The stamps remember what left for the ticker that is done.
LEMMA CloseKeeps == ASSUME PushInv, P!Close PROVE PushInv'
<1> DEFINE t == Head(cycle.queue)
<1>1. /\ cycle \in Cycle /\ cycle # P!Idle /\ cycle.pc = "send" /\ cycle.queue # <<>> /\ t \in Tickers
      /\ Tail(cycle.queue) \in Seq(Tickers)
      /\ cycle.at \in Nat /\ cycle.sent \in Nat /\ cycle.stamps \in [Tickers -> Nat]
  BY CycleTypes DEF P!Close, PushInv, SendsCooled, Cycle
<1>2. P!Stamped(cycle) = IF cycle.sent > 0 THEN [cycle.stamps EXCEPT ![t] = cycle.at] ELSE cycle.stamps
  BY DEF P!Stamped
<1>3. P!Stamped(cycle) \in [Tickers -> Nat]
  BY <1>1, <1>2
<1>4. /\ cycle' = [[cycle EXCEPT !.pc = "signal", !.queue = Tail(cycle.queue), !.left = {}] EXCEPT !.stamps = P!Stamped(cycle)]
      /\ UNCHANGED <<clock, crashes, stamps, log>>
  BY DEF P!Close, P!Next1
<1>5. cycle' \in Cycle /\ cycle' # P!Idle /\ cycle'.pc = "signal" /\ cycle'.stamps = P!Stamped(cycle) /\ cycle'.at = cycle.at
  BY <1>1, <1>3, <1>4 DEF Cycle, P!Idle
<1>6. \A a \in log : a.at <= P!Stamped(cycle)[a.ticker]
  <2> SUFFICES ASSUME NEW a \in log
               PROVE  a.at <= P!Stamped(cycle)[a.ticker]
    OBVIOUS
  <2>1. a.at \in Nat /\ a.ticker \in Tickers /\ cycle.stamps[a.ticker] \in Nat /\ cycle.stamps[t] \in Nat
    BY <1>1 DEF PushInv, PushTypes, AlertsRemembered
  <2>2. a.at <= cycle.stamps[a.ticker] \/ (a.ticker = t /\ a.at = cycle.at /\ cycle.sent > 0)
    BY <1>1 DEF PushInv, AlertsRemembered, Remembered, Filed
  <2>3. cycle.at - cycle.stamps[t] >= PushCooldown
    BY <1>1 DEF PushInv, SendsCooled
  <2>4. P!Stamped(cycle)[a.ticker] = IF cycle.sent > 0 /\ a.ticker = t THEN cycle.at ELSE cycle.stamps[a.ticker]
    BY <1>1, <1>2, <2>1
  <2> QED
    BY <1>1, <2>1, <2>2, <2>3, <2>4, PushTiming
<1>7. AlertsRemembered'
  BY <1>4, <1>5, <1>6 DEF PushInv, AlertsRemembered, Remembered, Filed
<1> QED
  BY <1>4, <1>5, <1>7 DEF PushInv, PushTypes, SendsCooled, P!OneAlertPerCooldown

LEMMA SaveKeeps == ASSUME PushInv, P!Save PROVE PushInv'
<1>1. cycle \in Cycle /\ cycle # P!Idle /\ cycle.pc = "signal" /\ cycle.stamps \in [Tickers -> Nat]
  BY CycleTypes DEF P!Save, P!Saving, Cycle
<1>2. stamps' = cycle.stamps /\ cycle' = P!Idle /\ cycle'.pc = "idle" /\ UNCHANGED <<clock, crashes, log>>
  BY DEF P!Save, P!Idle
<1>3. AlertsRemembered'
  BY <1>1, <1>2 DEF PushInv, AlertsRemembered, Remembered, Filed
<1> QED
  BY <1>1, <1>2, <1>3 DEF PushInv, PushTypes, SendsCooled, P!OneAlertPerCooldown

\* A dispatch that is cut short takes its alerts with it, or leaves no stamps and
\* no alerts.
LEMMA CutShortKeeps == ASSUME PushInv, P!CutShort PROVE PushInv'
<1>1. /\ crashes' = crashes + 1 /\ cycle' = P!Idle /\ cycle'.pc = "idle" /\ stamps' \in {stamps, P!NeverSent}
      /\ clock' = clock /\ log' \subseteq log /\ (log' = {} \/ (stamps' = stamps /\ log' = log \ P!Unsaved))
  BY DEF P!CutShort, P!Idle
<1>2. PushTypes'
  BY <1>1 DEF PushInv, PushTypes, P!NeverSent
<1>3. ASSUME NEW a \in log', log' = log \ P!Unsaved
      PROVE  a.ticker \in Tickers /\ a.at <= stamps[a.ticker]
  BY <1>1, <1>3 DEF PushInv, AlertsRemembered, Filed, P!Unsaved
<1>4. AlertsRemembered'
  BY <1>1, <1>3 DEF AlertsRemembered, Remembered, Filed
<1>5. P!OneAlertPerCooldown'
  BY <1>1 DEF PushInv, P!OneAlertPerCooldown
<1> QED
  BY <1>1, <1>2, <1>4, <1>5 DEF PushInv, SendsCooled

LEMMA PushKept ==
    ASSUME PushInv, [P!Next]_P!vars
    PROVE  PushInv'
<1>1. CASE UNCHANGED <<crashes, stamps, cycle, log>> /\ clock' \in {clock, clock + 1}
  BY <1>1 DEF PushInv, PushTypes, SendsCooled, AlertsRemembered, Remembered, Filed, P!OneAlertPerCooldown
<1>2. CASE UNCHANGED P!vars
  BY <1>1, <1>2 DEF P!vars
<1>3. CASE P!Tick \/ P!Switch
  BY <1>1, <1>3 DEF P!Tick, P!Switch
<1>4. CASE P!ApiFails \/ \E u \in PushUsers, t \in Tokens : P!ApiReads(u, t)
  BY <1>1, <1>4 DEF P!ApiReads, P!ApiFails
<1>5. CASE \E p \in {"api", "worker"} : P!Writes(p)
  BY <1>1, <1>5 DEF P!Writes
<1>6. CASE P!Trying
  BY <1>6, SkipKeeps, TakeKeeps, CloseKeeps, SaveKeeps, SentKeeps, MissKeeps DEF P!Trying
<1> QED
  BY <1>2, <1>3, <1>4, <1>5, <1>6, CutShortKeeps, DispatchKeeps DEF P!Next, P!Crash, P!Raise

\* The alerts of a ticker reach a device a cooldown apart, whatever became of the
\* other devices, unless the stamp of the first was lost, for any number of devices,
\* tickers and cycles.
THEOREM OneAlertHolds == ChannelsSpec => []OneAlertPerCooldown
<1> DEFINE Inv == part = "push" => PushInv
<1>1. ChannelsInit => Inv
  <2>1. ChannelsInit /\ part = "push" => P!Init
    BY DEF ChannelsInit, PartInit
  <2>2. P!Init => PushInv
    BY PushTiming DEF P!Init, P!Idle, P!NeverSent, PushInv, PushTypes, SendsCooled, AlertsRemembered, P!OneAlertPerCooldown
  <2> QED
    BY <2>1, <2>2
<1>2. Inv /\ [ChannelsNext]_all => Inv'
  BY PartStays, PushStep, PushKept
<1>3. Inv => OneAlertPerCooldown
  BY DEF PushInv, OneAlertPerCooldown
<1> QED
  BY <1>1, <1>2, <1>3, PTL DEF ChannelsSpec

-----------------------------------------------------------------------------
(* Weekly polls.                                                             *)

LEMMA PollStep ==
    ASSUME [ChannelsNext]_all, part = "polls"
    PROVE  [W!Next]_W!vars
  BY DEF ChannelsNext, all, RoomsMove, PushMoves, TelegramMoves, FeedMoves, NewsMoves, BooksMove, HistoryMoves,
         PollsMove, CommunityMoves, LinksMove, Shared, pollVars, W!vars

Poll == [event : Events \cup {"none"}, created : Int, votes : [W!Options -> Int],
         voters : [Voters -> W!Options \cup {"none"}], total : Int]
\* A poll that is about nothing is none.
Polls == {x \in Poll : x.event = "none" => x = W!NoPoll}
Store == [mtime : Int, polls : [W!Ids -> Polls]]
Asking == [at : {"idle", "reading", "got", "ensure", "vote", "ensuring", "voting"}, op : {"read", "vote", "generate"},
           id : W!Ids \cup {<<0, 0>>}, user : Voters \cup {"none"}, option : W!Options, event : Events \cup {"none"},
           day : Int, poll : Polls, polls : [W!Ids -> Polls], mtime : Int]
\* What a call is about, from where on.
About(l) ==
    /\ l.at # "idle" => l.id \in W!Ids
    /\ l.at \in {"ensure", "ensuring"} => l.event \in Events
    /\ l.at \in {"vote", "voting"} => l.poll.event # "none" /\ l.user \in Voters
    /\ l.op = "vote" => l.user \in Voters
PollTypes ==
    /\ day \in FirstDay..LastDay
    /\ file \in Store /\ cache \in [W!Procs -> Store]
    /\ call \in [W!Callers -> Asking]
    /\ \A c \in W!Callers : About(call[c])

Changing(c) == call[c].at \in {"ensuring", "voting"}
\* The locks exclude: the threads of a process, and the writers of the file.
PollLocks ==
    \A c, d \in W!Callers : c # d =>
        /\ W!Holds(c) /\ Proc[c] = Proc[d] => ~W!Holds(d)
        /\ Changing(c) => ~Changing(d)
\* Who changes the file has what the copy of its process has, and the copy carries
\* the time of the file.
ChangesCopy ==
    \A c \in W!Callers : Changing(c) =>
        cache[Proc[c]].mtime = file.mtime /\ call[c].polls = cache[Proc[c]].polls
PollInv == PollTypes /\ PollLocks /\ ChangesCopy

LEMMA NoPollTypes ==
    /\ W!NoPoll \in Polls /\ W!NoPoll.event = "none" /\ \A u \in Voters : W!NoPoll.voters[u] = "none"
    /\ W!NoPolls \in [W!Ids -> Polls] /\ W!Idle \in Asking /\ About(W!Idle)
<1>1. W!NoPoll \in Polls /\ W!NoPoll.event = "none" /\ \A u \in Voters : W!NoPoll.voters[u] = "none"
  BY DEF Polls, Poll, W!NoPoll, W!Options
<1>2. W!NoPolls \in [W!Ids -> Polls]
  BY <1>1 DEF W!NoPolls
<1> QED
  BY <1>1, <1>2 DEF W!Idle, Asking, About, W!Options

\* A vote goes to a poll that is about something, and leaves the other voters.
LEMMA VotedTypes ==
    ASSUME NEW x \in Polls, x.event # "none", NEW u \in Voters, NEW o \in W!Options
    PROVE  /\ W!Voted(x, u, o) \in Polls
           /\ W!Voted(x, u, o).voters[u] = o
           /\ \A v \in Voters \ {u} : W!Voted(x, u, o).voters[v] = x.voters[v]
<1>1. x \in Poll
  BY DEF Polls
<1>2. o # "none"
  BY DEF W!Options
<1> DEFINE left == IF x.voters[u] \in W!Options \ {o} /\ x.votes[x.voters[u]] > 0
                   THEN [x.votes EXCEPT ![x.voters[u]] = x.votes[x.voters[u]] - 1] ELSE x.votes
           votes == [left EXCEPT ![o] = left[o] + 1]
           y == [x EXCEPT !.votes = votes, !.voters[u] = o, !.total = votes["A"] + votes["B"]]
<1>3. left \in [W!Options -> Int]
  BY <1>1 DEF Poll
<1>4. votes \in [W!Options -> Int] /\ votes["A"] + votes["B"] \in Int
  BY <1>3 DEF W!Options
<1>5. W!Voted(x, u, o) = IF x.voters[u] = o THEN x ELSE y
  BY DEF W!Voted
<1> HIDE DEF votes
<1>6. y \in Poll /\ y.event = x.event /\ y.voters = [x.voters EXCEPT ![u] = o]
  BY <1>1, <1>4 DEF Poll
<1> HIDE DEF y
<1>7. y \in Polls
  BY <1>6 DEF Polls
<1> QED
  BY <1>1, <1>5, <1>6, <1>7 DEF Poll

\* What the voter's call writes: its poll is about something, and has every vote it
\* had in the store, if it was there.
LEMMA CountedTypes ==
    ASSUME NEW polls \in [W!Ids -> Polls], NEW l \in Asking, About(l), l.at = "voting"
    PROVE  /\ W!Counted(polls, l) \in [W!Ids -> Polls]
           /\ \A id \in W!Ids, u \in Voters :
                  polls[id].voters[u] # "none" => W!Counted(polls, l)[id].voters[u] # "none"
<1> DEFINE x == IF polls[l.id] # W!NoPoll THEN polls[l.id] ELSE l.poll
<1>1. l.id \in W!Ids /\ l.user \in Voters /\ l.option \in W!Options /\ l.poll \in Polls /\ l.poll.event # "none"
  BY DEF About, Asking
<1>2. x \in Polls /\ x.event # "none"
  BY <1>1 DEF Polls
<1>3. W!Counted(polls, l) = [polls EXCEPT ![l.id] = W!Voted(x, l.user, l.option)]
  BY DEF W!Counted
<1>4. \A u \in Voters : polls[l.id].voters[u] # "none" => W!Voted(x, l.user, l.option).voters[u] # "none"
  <2> SUFFICES ASSUME NEW u \in Voters, polls[l.id].voters[u] # "none"
               PROVE  W!Voted(x, l.user, l.option).voters[u] # "none"
    OBVIOUS
  <2>1. x = polls[l.id]
    BY NoPollTypes
  <2> HIDE DEF x
  <2> QED
    BY <1>1, <1>2, <2>1, VotedTypes DEF W!Options
<1> HIDE DEF x
<1>5. W!Voted(x, l.user, l.option) \in Polls
  BY <1>1, <1>2, VotedTypes
<1> QED
  BY <1>1, <1>3, <1>4, <1>5

\* What the maker of a poll writes: a poll that is replaced is about something else
\* now, and one that is dropped is none.
LEMMA EnsuredTypes ==
    ASSUME NEW polls \in [W!Ids -> Polls], NEW l \in Asking, About(l), l.at = "ensuring"
    PROVE  /\ W!Ensured(polls, l) \in [W!Ids -> Polls]
           /\ W!Ensured(polls, l)[l.id].event = l.event
           /\ \A id \in W!Ids : \/ W!Ensured(polls, l)[id] = polls[id]
                                \/ W!Ensured(polls, l)[id].event # polls[id].event
                                \/ polls[id] = W!NoPoll
<1>1. l.id \in W!Ids /\ l.event \in Events /\ l.event # "none" /\ l.day \in Int
  BY PollEvents DEF About, Asking
<1> DEFINE b == W!Built(l.event, l.day)
           new == [polls EXCEPT ![l.id] = b]
<1>2. b \in Polls /\ b.event = l.event
  BY <1>1, NoPollTypes DEF W!Built, W!NoPoll, Polls, Poll
<1>3. new \in [W!Ids -> Polls] /\ new[l.id] = b /\ \A id \in W!Ids \ {l.id} : new[id] = polls[id]
  BY <1>1, <1>2
<1> HIDE DEF b, new
<1>4. /\ W!Pruned(new, l.id) \in [W!Ids -> Polls]
      /\ W!Pruned(new, l.id)[l.id] = new[l.id]
      /\ \A id \in W!Ids : W!Pruned(new, l.id)[id] \in {new[id], W!NoPoll}
  BY <1>1, <1>3, NoPollTypes DEF W!Pruned
<1>5. CASE polls[l.id].event = l.event
  BY <1>1, <1>5 DEF W!Ensured
<1>6. CASE polls[l.id].event # l.event
  <2>1. W!Ensured(polls, l) = W!Pruned(new, l.id)
    BY <1>6 DEF W!Ensured, b, new
  <2>2. \A id \in W!Ids : polls[id].event = "none" => polls[id] = W!NoPoll
    BY DEF Polls
  <2> QED
    BY <1>1, <1>2, <1>3, <1>4, <1>6, <2>1, <2>2, NoPollTypes
<1> QED
  BY <1>5, <1>6

\* A call that goes on: it takes a lock only when it is free.
LEMMA GoesOn ==
    ASSUME PollInv, NEW c \in W!Callers, NEW l \in Asking, About(l), W!Set(c, l),
           l.at \in {"reading", "ensuring", "voting"} => W!ThreadFree(c) \/ W!Holds(c),
           l.at \in {"ensuring", "voting"} => W!FileFree(c) \/ Changing(c),
           day' = day, file' \in Store, cache' \in [W!Procs -> Store]
    PROVE  /\ PollTypes' /\ PollLocks'
           /\ call'[c] = l /\ \A d \in W!Callers \ {c} : call'[d] = call[d]
<1>1. call' \in [W!Callers -> Asking] /\ call'[c] = l /\ \A d \in W!Callers \ {c} : call'[d] = call[d]
  BY DEF W!Set, PollInv, PollTypes
<1>2. PollTypes'
  BY <1>1 DEF PollInv, PollTypes
<1>3. /\ W!Holds(c)' => l.at \in {"reading", "ensuring", "voting"}
      /\ Changing(c)' => l.at \in {"ensuring", "voting"}
      /\ \A d \in W!Callers \ {c} : (W!Holds(d)' <=> W!Holds(d)) /\ (Changing(d)' <=> Changing(d))
  BY <1>1 DEF W!Holds, Changing
<1>4. ASSUME NEW d \in W!Callers, d # c
      PROVE  /\ Proc[c] = Proc[d] => ~(W!Holds(c)' /\ W!Holds(d)')
             /\ ~(Changing(c)' /\ Changing(d)')
  <2>1. W!Holds(d)' <=> W!Holds(d)
    BY <1>3, <1>4
  <2>2. Changing(d)' <=> Changing(d)
    BY <1>3, <1>4
  <2>3. Proc[c] = Proc[d] /\ W!Holds(c) => ~W!Holds(d)
    BY <1>4 DEF PollInv, PollLocks
  <2>4. Changing(c) => ~Changing(d)
    BY <1>4 DEF PollInv, PollLocks
  <2>5. W!ThreadFree(c) /\ Proc[c] = Proc[d] => ~W!Holds(d)
    BY <1>4 DEF W!ThreadFree
  <2>6. W!FileFree(c) => ~Changing(d)
    BY <1>4 DEF W!FileFree, Changing
  <2> QED
    BY <1>3, <2>1, <2>2, <2>3, <2>4, <2>5, <2>6
<1>5. PollLocks'
  <2> SUFFICES ASSUME NEW d \in W!Callers, NEW e \in W!Callers, d # e
               PROVE  /\ W!Holds(d)' /\ Proc[d] = Proc[e] => ~W!Holds(e)'
                      /\ Changing(d)' => ~Changing(e)'
    BY DEF PollLocks
  <2>1. CASE d = c \/ e = c
    BY <1>4, <2>1
  <2>2. CASE d # c /\ e # c
    BY <1>3, <2>2 DEF PollInv, PollLocks
  <2> QED
    BY <2>1, <2>2
<1> QED
  BY <1>1, <1>2, <1>5

\* A call that does not change the file next.
LEMMA GoesOnReading ==
    ASSUME PollInv, NEW c \in W!Callers, NEW l \in Asking, About(l), W!Set(c, l),
           l.at = "reading" => W!ThreadFree(c), l.at \notin {"ensuring", "voting"},
           UNCHANGED <<day, file, cache>>
    PROVE  PollInv'
<1>1. file' \in Store /\ cache' \in [W!Procs -> Store]
  BY DEF PollInv, PollTypes
<1>2. /\ PollTypes' /\ PollLocks'
      /\ call'[c] = l /\ \A d \in W!Callers \ {c} : call'[d] = call[d]
  BY <1>1, GoesOn
<1>3. ChangesCopy'
  BY <1>2 DEF PollInv, ChangesCopy, Changing
<1> QED
  BY <1>2, <1>3 DEF PollInv

LEMMA WeekIsKnown ==
    ASSUME day \in FirstDay..LastDay, NEW s \in PollSymbols
    PROVE  <<W!Week(day), s>> \in W!Ids
<1>1. day \in Int /\ FirstDay <= day /\ day <= LastDay
  BY PollEvents
<1>2. W!Week(day) \in W!Week(FirstDay)..W!Week(LastDay)
  BY <1>1, PollEvents DEF W!Week
<1> QED
  BY <1>2 DEF W!Ids

LEMMA GotTypes ==
    ASSUME NEW l \in Asking, l.id \in W!Ids, About(l), NEW x \in Polls
    PROVE  LET got == [l EXCEPT !.at = "got", !.poll = x, !.mtime = 0]
           IN got \in Asking /\ About(got) /\ got.at = "got"
<1> DEFINE got(t) == [l EXCEPT !.at = "got", !.poll = x, !.mtime = t]
<1>1. \A t \in Int : got(t) \in Asking
  BY DEF Asking
<1>2. \A t : got(t).at = "got" /\ got(t).id = l.id /\ got(t).op = l.op /\ got(t).user = l.user
  BY DEF Asking
<1>3. \A t : About(got(t))
  BY <1>2 DEF About
<1> HIDE DEF got
<1>4. got(0) \in Asking /\ About(got(0)) /\ got(0).at = "got"
  BY <1>1, <1>2, <1>3
<1> QED
  BY <1>4 DEF got

LEMMA AskKeeps == ASSUME PollInv, NEW c \in W!Callers, W!Ask(c) PROVE PollInv'
<1>1. PICK s \in PollSymbols, u \in Voters, o \in W!Options, op \in {"read", "vote"} :
        LET l == [W!Idle EXCEPT !.op = op, !.id = <<W!Week(day), s>>, !.user = u, !.option = o, !.day = day]
        IN IF cache[Proc[c]].mtime = file.mtime THEN W!Got(c, l, cache[Proc[c]].polls)
           ELSE W!Set(c, [l EXCEPT !.at = "reading", !.mtime = file.mtime])
  BY ZenonT(40) DEF W!Ask
<1> DEFINE l == [W!Idle EXCEPT !.op = op, !.id = <<W!Week(day), s>>, !.user = u, !.option = o, !.day = day]
           got == [l EXCEPT !.at = "got", !.poll = cache[Proc[c]].polls[l.id], !.mtime = 0]
           reading == [l EXCEPT !.at = "reading", !.mtime = file.mtime]
<1>2. l.id \in W!Ids /\ day \in Int
  BY WeekIsKnown, PollEvents DEF PollInv, PollTypes, W!Idle
<1>3. l \in Asking /\ l.user = u /\ l.op = op /\ About(l)
  BY <1>2, NoPollTypes DEF Asking, About, W!Idle
<1>4. cache[Proc[c]] \in Store /\ file \in Store
  BY DEF PollInv, PollTypes, W!Procs
<1>5. cache[Proc[c]].polls[l.id] \in Polls /\ file.mtime \in Int
  BY <1>2, <1>4 DEF Store
<1> HIDE DEF l
<1>6. got \in Asking /\ About(got) /\ reading \in Asking /\ About(reading)
  <2>1. got \in Asking /\ About(got)
    BY <1>2, <1>3, <1>5, GotTypes
  <2>2. reading \in Asking /\ About(reading)
    BY <1>2, <1>3, <1>5 DEF Asking, About
  <2> QED
    BY <2>1, <2>2
<1>7. W!Set(c, got) \/ W!Set(c, reading)
  BY <1>1 DEF W!Got, l
<1>8. got.at = "got" /\ reading.at = "reading"
  BY <1>3 DEF Asking
<1>9. W!ThreadFree(c) /\ UNCHANGED <<day, file, cache>>
  BY DEF W!Ask
<1> HIDE DEF got, reading
<1> QED
  BY <1>6, <1>7, <1>8, <1>9, GoesOnReading

\* The copy of a process changes while no other thread of it holds the lock.
LEMMA FetchKeeps == ASSUME PollInv, NEW c \in W!Callers, W!Fetch(c) PROVE PollInv'
<1>1. PICK n \in {0, 1} : /\ cache' = [cache EXCEPT ![Proc[c]] = [mtime |-> call[c].mtime, polls |-> W!Content(n)]]
                          /\ W!Got(c, call[c], W!Content(n))
  BY DEF W!Fetch
<1> DEFINE l == [call[c] EXCEPT !.at = "got", !.poll = W!Content(n)[call[c].id], !.mtime = 0]
<1>2. call[c] \in Asking /\ About(call[c]) /\ call[c].at = "reading" /\ file \in Store /\ Proc[c] \in W!Procs
  BY DEF W!Fetch, PollInv, PollTypes, W!Procs
<1>3. W!Content(n) \in [W!Ids -> Polls] /\ call[c].id \in W!Ids /\ call[c].mtime \in Int
  BY <1>2, NoPollTypes DEF W!Content, Store, About, Asking
<1>4. cache' \in [W!Procs -> Store]
  BY <1>1, <1>2, <1>3 DEF Store, PollInv, PollTypes
<1>5. l \in Asking /\ About(l) /\ l.at = "got" /\ W!Set(c, l)
  <2>1. l \in Asking /\ About(l) /\ l.at = "got"
    BY <1>2, <1>3, GotTypes
  <2>2. W!Set(c, l)
    BY <1>1 DEF W!Got
  <2> QED
    BY <2>1, <2>2
<1> HIDE DEF l
<1>6. UNCHANGED <<day, file>>
  BY DEF W!Fetch
<1>7. /\ PollTypes' /\ PollLocks'
      /\ call'[c] = l /\ \A d \in W!Callers \ {c} : call'[d] = call[d]
  BY <1>2, <1>4, <1>5, <1>6, GoesOn
<1>8. \A d \in W!Callers : Changing(d)' => d # c /\ Changing(d) /\ Proc[d] # Proc[c]
  BY <1>2, <1>5, <1>7 DEF Changing, W!Holds, PollInv, PollLocks
<1>9. ChangesCopy'
  BY <1>1, <1>2, <1>6, <1>7, <1>8 DEF PollInv, PollTypes, ChangesCopy, W!Procs
<1> QED
  BY <1>7, <1>9 DEF PollInv

LEMMA DecideKeeps == ASSUME PollInv, NEW c \in W!Callers, W!Decide(c) PROVE PollInv'
<1>1. call[c] \in Asking /\ About(call[c]) /\ call[c].at = "got" /\ UNCHANGED <<day, file, cache>>
  BY DEF W!Decide, PollInv, PollTypes
<1>2. CASE W!Active(call[c]) /\ call[c].op = "vote"
  <2> DEFINE l == [call[c] EXCEPT !.at = "vote"]
  <2>1. call[c].poll.event # "none"
    BY <1>1, <1>2 DEF W!Active, Asking, Polls
  <2>2. l \in Asking /\ About(l) /\ l.at = "vote"
    BY <1>1, <1>2, <2>1 DEF Asking, About
  <2>3. W!Set(c, l)
    BY <1>2 DEF W!Decide
  <2> HIDE DEF l
  <2> QED
    BY <1>1, <2>2, <2>3, GoesOnReading
<1>3. CASE W!Set(c, W!Idle)
  BY <1>1, <1>3, NoPollTypes, GoesOnReading DEF W!Idle
<1>4. ASSUME NEW e \in Events, W!Set(c, [call[c] EXCEPT !.at = "ensure", !.event = e])
      PROVE  PollInv'
  <2> DEFINE l == [call[c] EXCEPT !.at = "ensure", !.event = e]
  <2>1. l \in Asking /\ About(l) /\ l.at = "ensure"
    BY <1>1 DEF Asking, About
  <2>2. W!Set(c, l)
    BY <1>4
  <2> HIDE DEF l
  <2> QED
    BY <1>1, <2>1, <2>2, GoesOnReading
<1> QED
  BY <1>2, <1>3, <1>4 DEF W!Decide

LEMMA GenerateKeeps == ASSUME PollInv, NEW c \in W!Callers, W!Generate(c) PROVE PollInv'
<1>1. PICK s \in PollSymbols, e \in Events :
          W!Set(c, [W!Idle EXCEPT !.at = "ensure", !.op = "generate", !.id = <<W!Week(day), s>>, !.event = e, !.day = day])
  BY DEF W!Generate
<1> DEFINE l == [W!Idle EXCEPT !.at = "ensure", !.op = "generate", !.id = <<W!Week(day), s>>, !.event = e, !.day = day]
<1>2. <<W!Week(day), s>> \in W!Ids /\ day \in Int
  BY WeekIsKnown, PollEvents DEF PollInv, PollTypes
<1>3. l \in Asking /\ About(l) /\ l.at = "ensure"
  BY ZenonT(40), <1>2, NoPollTypes DEF Asking, About, W!Idle
<1>4. W!Set(c, l) /\ UNCHANGED <<day, file, cache>>
  BY <1>1 DEF W!Generate
<1> HIDE DEF l
<1> QED
  BY <1>3, <1>4, GoesOnReading

LEMMA EnterKeeps == ASSUME PollInv, NEW c \in W!Callers, W!Enter(c) PROVE PollInv'
<1>1. PICK n \in {0, 1} :
          /\ cache' = [cache EXCEPT ![Proc[c]] = W!Loaded(c, n)]
          /\ W!Set(c, [call[c] EXCEPT !.at = IF call[c].at = "vote" THEN "voting" ELSE "ensuring", !.polls = W!Loaded(c, n).polls])
  BY DEF W!Enter
<1> DEFINE polls == W!Loaded(c, n).polls
           at1 == IF call[c].at = "vote" THEN "voting" ELSE "ensuring"
           l == [call[c] EXCEPT !.at = at1, !.polls = polls]
<1>2. /\ call[c] \in Asking /\ About(call[c]) /\ call[c].at \in {"ensure", "vote"} /\ file \in Store /\ Proc[c] \in W!Procs
      /\ cache[Proc[c]] \in Store
  BY DEF W!Enter, PollInv, PollTypes, W!Procs
<1>3. W!Loaded(c, n) \in Store /\ W!Loaded(c, n).mtime = file.mtime
  BY <1>2, NoPollTypes DEF W!Loaded, W!Content, Store
<1>4. polls \in [W!Ids -> Polls]
  BY <1>3 DEF Store
<1>5. cache' \in [W!Procs -> Store] /\ cache'[Proc[c]] = W!Loaded(c, n)
  BY <1>1, <1>2, <1>3 DEF PollInv, PollTypes
<1>6. W!Set(c, l)
  BY <1>1
<1> HIDE DEF polls
<1>7. l \in Asking /\ About(l) /\ l.polls = polls /\ l.at = at1
  BY <1>2, <1>4 DEF Asking, About
<1> HIDE DEF l
<1>8. UNCHANGED <<day, file>> /\ W!ThreadFree(c) /\ W!FileFree(c)
  BY DEF W!Enter
<1>9. /\ PollTypes' /\ PollLocks'
      /\ call'[c] = l /\ \A d \in W!Callers \ {c} : call'[d] = call[d]
  BY <1>2, <1>5, <1>6, <1>7, <1>8, GoesOn
<1>10. \A d \in W!Callers : Changing(d)' => d = c
  BY <1>8, <1>9 DEF Changing, W!FileFree
<1>11. ChangesCopy'
  BY <1>3, <1>5, <1>7, <1>8, <1>9, <1>10 DEF ChangesCopy, polls
<1> QED
  BY <1>9, <1>11 DEF PollInv

\* What a save writes has the types, and every vote on a poll that stays, if what the
\* call loaded was what the file has.
LEMMA SavedTypes ==
    ASSUME PollInv, NEW c \in W!Callers, Changing(c)
    PROVE  LET polls == IF call[c].at = "voting" THEN W!Counted(call[c].polls, call[c]) ELSE W!Ensured(call[c].polls, call[c])
           IN /\ polls \in [W!Ids -> Polls]
              /\ call[c].at = "ensuring" => polls[call[c].id].event = call[c].event
              /\ \A id \in W!Ids, u \in Voters :
                     /\ call[c].polls[id].voters[u] # "none" /\ polls[id].voters[u] = "none"
                     => polls[id].event # call[c].polls[id].event
<1>1. call[c] \in Asking /\ About(call[c]) /\ call[c].polls \in [W!Ids -> Polls]
  BY DEF PollInv, PollTypes, Asking
<1>2. CASE call[c].at = "voting"
  BY <1>1, <1>2, CountedTypes
<1>3. CASE call[c].at = "ensuring"
  BY <1>1, <1>3, EnsuredTypes, NoPollTypes
<1> QED
  BY <1>2, <1>3 DEF Changing

LEMMA SavePollsKeeps == ASSUME PollInv, NEW c \in W!Callers, W!Save(c) PROVE PollInv'
<1> DEFINE polls == IF call[c].at = "voting" THEN W!Counted(call[c].polls, call[c]) ELSE W!Ensured(call[c].polls, call[c])
           l == [call[c] EXCEPT !.at = "vote", !.event = "none", !.poll = polls[call[c].id], !.polls = W!NoPolls]
<1>1. Changing(c) /\ call[c] \in Asking /\ About(call[c]) /\ Proc[c] \in W!Procs
  BY DEF W!Save, Changing, PollInv, PollTypes, W!Procs
<1>2. polls \in [W!Ids -> Polls] /\ (call[c].at = "ensuring" => polls[call[c].id].event = call[c].event)
  BY <1>1, SavedTypes
<1>3. PICK t \in {file.mtime, file.mtime + 1} : t \in 1..PollWrites /\ file' = [mtime |-> t, polls |-> polls]
          /\ cache' = [cache EXCEPT ![Proc[c]] = file']
  BY DEF W!Save
<1>4. W!Set(c, IF call[c].at = "ensuring" /\ call[c].op = "vote" THEN l ELSE W!Idle) /\ day' = day
  BY DEF W!Save
<1> HIDE DEF polls
<1>5. file' \in Store /\ cache' \in [W!Procs -> Store]
  BY <1>1, <1>2, <1>3 DEF Store, PollInv, PollTypes
<1>6. ASSUME call[c].at = "ensuring", call[c].op = "vote"
      PROVE  l \in Asking /\ About(l) /\ l.at = "vote"
  <2>1. polls[call[c].id] \in Polls /\ polls[call[c].id].event # "none" /\ W!NoPolls \in [W!Ids -> Polls]
    BY <1>1, <1>2, <1>6, PollEvents, NoPollTypes DEF About
  <2> QED
    BY <1>1, <1>6, <2>1 DEF Asking, About
<1> HIDE DEF l
<1>7. PICK k \in Asking : About(k) /\ k.at \in {"vote", "idle"} /\ W!Set(c, k)
  BY <1>4, <1>6, NoPollTypes DEF W!Idle
<1>8. /\ PollTypes' /\ PollLocks'
      /\ call'[c] = k /\ \A d \in W!Callers \ {c} : call'[d] = call[d]
  BY <1>4, <1>5, <1>7, GoesOn
<1>9. \A d \in W!Callers : ~Changing(d)'
  BY <1>1, <1>7, <1>8 DEF Changing, PollInv, PollLocks
<1> QED
  BY <1>8, <1>9 DEF PollInv, ChangesCopy

LEMMA RaiseKeeps == ASSUME PollInv, NEW c \in W!Callers, W!Raise(c) PROVE PollInv'
  BY NoPollTypes, GoesOnReading DEF W!Raise, W!Idle

LEMMA RestartPollsKeeps == ASSUME PollInv, NEW p \in W!Procs, W!Restart(p) PROVE PollInv'
<1>1. [mtime |-> 0, polls |-> W!NoPolls] \in Store
  BY NoPollTypes DEF Store
<1>2. cache' = [cache EXCEPT ![p] = [mtime |-> 0, polls |-> W!NoPolls]] /\ UNCHANGED <<day, file>>
  BY DEF W!Restart
<1>3. call' = [c \in W!Callers |-> IF Proc[c] = p THEN W!Idle ELSE call[c]]
  BY DEF W!Restart
<1>4. PollTypes'
  BY <1>1, <1>2, <1>3, NoPollTypes DEF PollInv, PollTypes
<1>5. \A c \in W!Callers : /\ W!Holds(c)' => W!Holds(c)
                           /\ Changing(c)' => Changing(c) /\ Proc[c] # p /\ call'[c] = call[c]
  BY <1>3 DEF W!Holds, Changing, W!Idle
<1>6. PollLocks'
  BY <1>5 DEF PollInv, PollLocks
<1>7. ChangesCopy'
  BY <1>2, <1>5 DEF PollInv, PollTypes, ChangesCopy, W!Procs
<1> QED
  BY <1>4, <1>6, <1>7 DEF PollInv

LEMMA PollsKept == ASSUME PollInv, [W!Next]_W!vars PROVE PollInv'
<1>1. CASE UNCHANGED W!vars
  BY <1>1 DEF W!vars, PollInv, PollTypes, PollLocks, ChangesCopy, Changing, W!Holds
<1>2. CASE W!NextDay
  <2>1. day' \in FirstDay..LastDay
    BY <1>2, PollEvents DEF W!NextDay, PollInv, PollTypes
  <2> QED
    BY <1>2, <2>1 DEF W!NextDay, PollInv, PollTypes, PollLocks, ChangesCopy, Changing, W!Holds
<1> QED
  BY <1>1, <1>2, AskKeeps, FetchKeeps, DecideKeeps, GenerateKeeps, EnterKeeps, SavePollsKeeps, RaiseKeeps,
     RestartPollsKeeps DEF W!Next

\* Only a save changes the file.
LEMMA VotesStay == ASSUME PollInv, [W!Next]_W!vars PROVE W!VoteKept
<1>1. CASE file' = file
  BY <1>1 DEF W!VoteKept
<1>2. ASSUME NEW c \in W!Callers, W!Save(c)
      PROVE  W!VoteKept
  <2> DEFINE polls == IF call[c].at = "voting" THEN W!Counted(call[c].polls, call[c]) ELSE W!Ensured(call[c].polls, call[c])
  <2>1. Changing(c) /\ file'.polls = polls /\ Proc[c] \in W!Procs
    BY <1>2 DEF W!Save, Changing, W!Procs
  <2>2. \A id \in W!Ids, u \in Voters :
            call[c].polls[id].voters[u] # "none" /\ polls[id].voters[u] = "none" => polls[id].event # call[c].polls[id].event
    BY <2>1, SavedTypes
  <2> HIDE DEF polls
  <2>3. cache[Proc[c]].mtime = file.mtime /\ call[c].polls = cache[Proc[c]].polls
    BY <2>1 DEF PollInv, ChangesCopy
  <2>4. CASE W!Misled(Proc[c])
    BY <2>1, <2>4 DEF W!VoteKept
  <2>5. CASE ~W!Misled(Proc[c])
    <3>1. call[c].polls = file.polls
      BY <2>3, <2>5 DEF W!Misled
    <3> QED
      BY <2>1, <2>2, <3>1 DEF W!VoteKept
  <2> QED
    BY <2>4, <2>5
<1> QED
  BY <1>1, <1>2 DEF W!Next, W!vars, W!NextDay, W!Restart, W!Ask, W!Fetch, W!Decide, W!Generate, W!Enter, W!Raise

\* No write loses a vote on a poll it keeps, however many requests, workers and
\* processes there are, but for a process that was misled about the file.
THEOREM VotesHold == ChannelsSpec => VotesAreKept
<1> DEFINE Inv == part = "polls" => PollInv
<1>1. ChannelsInit => Inv
  <2>1. ChannelsInit /\ part = "polls" => W!Init
    BY DEF ChannelsInit, PartInit
  <2>2. ASSUME W!Init PROVE PollInv
    <3>1. [mtime |-> 0, polls |-> W!NoPolls] \in Store
      BY NoPollTypes DEF Store
    <3>2. PollTypes
      BY <2>2, <3>1, NoPollTypes, PollEvents DEF W!Init, PollTypes
    <3>3. \A c \in W!Callers : ~W!Holds(c) /\ ~Changing(c)
      BY <2>2 DEF W!Init, W!Idle, W!Holds, Changing
    <3> QED
      BY <3>2, <3>3 DEF PollInv, PollLocks, ChangesCopy
  <2> QED
    BY <2>1, <2>2
<1>2. Inv /\ [ChannelsNext]_all => Inv'
  BY PartStays, PollStep, PollsKept
<1>3. Inv /\ [ChannelsNext]_all => [part = "polls" => W!VoteKept]_all
  BY PollStep, VotesStay
<1> QED
  BY <1>1, <1>2, <1>3, PTL DEF ChannelsSpec, VotesAreKept

-----------------------------------------------------------------------------
(* The file of the news.                                                     *)

LEMMA NewsStep ==
    ASSUME [ChannelsNext]_all, part = "news"
    PROVE  [C!Next]_C!vars
  BY DEF ChannelsNext, all, RoomsMove, PushMoves, TelegramMoves, FeedMoves, NewsMoves, BooksMove, HistoryMoves,
         PollsMove, CommunityMoves, LinksMove, Shared, newsVars, C!vars

\* No entry is of the future.
Entry == {e \in [ts : Int, checked : Int, stories : BOOLEAN] : e.ts <= clock}
Entries == [Locales -> Entry]

\* A task has what to write when it writes.
Task(x) ==
    /\ {"pc", "at", "snapshot"} \subseteq DOMAIN x
    /\ x.at \in Int /\ x.at <= clock
    /\ x.pc = "persist" => x.snapshot \in Entries
NewsInv ==
    /\ clock \in Int /\ clock >= 0
    /\ file \in Entries
    /\ memory \in [C!Procs -> Entries]
    /\ task = [t \in C!Tasks |-> task[t]]
    /\ \A t \in C!Tasks : Task(task[t])

LEMMA ColdEntry == NewsInv => C!Cold \in Entry /\ Task(C!NoTask)
  BY DEF NewsInv, Entry, C!Cold, C!NoTask, Task

LEMMA LeastNatural ==
    ASSUME NEW S, S \subseteq Nat, S # {}
    PROVE  \E n \in S : \A m \in S : n <= m
<1>1. PICK n \in S : \A m \in S : ~(<<m, n>> \in OpToRel(<, Nat))
  <2> HIDE DEF OpToRel, IsWellFoundedOn
  <2> QED
    BY NatLessThanWellFounded, WFMin
<1>2. ASSUME NEW m \in S PROVE n <= m
  <2>1. m \in Nat /\ n \in Nat
    OBVIOUS
  <2>2. ~(<<m, n>> \in OpToRel(<, Nat))
    BY <1>1
  <2>3. ~(m < n)
    BY <2>1, <2>2 DEF OpToRel
  <2> QED
    BY <2>1, <2>3
<1> QED
  BY <1>2

\* There is a latest entry, since none is of the future.
LEMMA AlternateEntry ==
    ASSUME NewsInv, NEW entries \in Entries, NEW l
    PROVE  C!Alternate(entries, l) \in Entry
<1> DEFINE others == {m \in Locales \ {l} : entries[m] # C!Cold}
           age == {clock - entries[m].ts : m \in others}
<1>1. CASE others = {}
  BY <1>1, ColdEntry DEF C!Alternate
<1>2. CASE others # {}
  <2>1. ASSUME NEW m \in others PROVE entries[m] \in Entry /\ entries[m].ts \in Int /\ clock - entries[m].ts \in Nat
    <3>1. entries[m] \in Entry
      BY DEF Entries
    <3>2. entries[m].ts \in Int /\ entries[m].ts <= clock /\ clock \in Int
      BY <3>1 DEF Entry, NewsInv
    <3> QED
      BY <3>1, <3>2
  <2>2. age \subseteq Nat
    BY <2>1
  <2>3. age # {}
    BY <1>2
  <2>4. PICK n \in age : \A m \in age : n <= m
    <3> HIDE DEF age
    <3> QED
      BY <2>2, <2>3, LeastNatural
  <2>5. PICK m \in others : n = clock - entries[m].ts
    OBVIOUS
  <2>6. ASSUME NEW k \in others PROVE entries[k].ts <= entries[m].ts
    <3>1. clock - entries[k].ts \in age
      OBVIOUS
    <3>2. clock - entries[m].ts <= clock - entries[k].ts
      BY <2>4, <2>5, <3>1
    <3>3. clock \in Int /\ entries[k].ts \in Int /\ entries[m].ts \in Int
      BY <2>1 DEF NewsInv
    <3> QED
      BY <3>2, <3>3
  <2>7. C!Alternate(entries, l) = entries[CHOOSE m1 \in others : \A k \in others : entries[k].ts <= entries[m1].ts]
    BY <1>2 DEF C!Alternate
  <2>8. (CHOOSE m1 \in others : \A k \in others : entries[k].ts <= entries[m1].ts) \in others
    <3> HIDE DEF others
    <3> QED
      BY <2>6
  <2> QED
    BY <2>1, <2>7, <2>8
<1> QED
  BY <1>1, <1>2

LEMMA MergedEntries ==
    ASSUME NEW a \in Entries, NEW b \in Entries
    PROVE  C!Merged(a, b) \in Entries
  BY DEF C!Merged, Entries

\* What a process finds in its memory, or puts there.
LEMMA LoadedEntries ==
    ASSUME NewsInv, NEW p \in C!Procs, NEW l
    PROVE  /\ C!Loaded(p) \in Entries
           /\ C!Translated(C!Loaded(p), l) \in Entries
<1>1. memory[p] \in Entries /\ file \in Entries
  BY DEF NewsInv
<1>2. C!Loaded(p) \in Entries
  BY <1>1, MergedEntries DEF C!Loaded
<1> QED
  BY <1>2, AlternateEntry DEF C!Translated, Entries

LEMMA KeptEntries ==
    ASSUME NewsInv, NEW entries \in Entries, NEW l, NEW t
    PROVE  C!Kept(entries, l, t) \in Entries
  BY AlternateEntry DEF C!Kept, Entries

\* What a task does with its locale, and leaves behind.
LEMMA DoneTasks ==
    ASSUME NewsInv, NEW t \in C!Tasks, NEW warm, C!Done(t, warm)
    PROVE  task' = [u \in C!Tasks |-> task'[u]] /\ \A u \in C!Tasks : Task(task'[u])
<1> DEFINE x == [pc |-> IF Len(task[t].queue) = 1 THEN "end" ELSE "check", queue |-> Tail(task[t].queue),
                 warmed |-> task[t].warmed \/ warm, at |-> 0, snapshot |-> <<>>]
<1>1. task' = [task EXCEPT ![t] = x]
  BY DEF C!Done
<1>2. Task(x)
  BY DEF NewsInv, Task
<1> HIDE DEF x
<1> QED
  BY <1>1, <1>2 DEF NewsInv

LEMMA SetTasks ==
    ASSUME NewsInv, NEW t \in C!Tasks, C!ProcOf(t) \in C!Procs,
           NEW e, C!Locale(t) \in Locales => e \in Entry, C!Set(t, e)
    PROVE  /\ task' = [u \in C!Tasks |-> task'[u]] /\ \A u \in C!Tasks : Task(task'[u])
           /\ memory' \in [C!Procs -> Entries]
<1> DEFINE entries == [memory[C!ProcOf(t)] EXCEPT ![C!Locale(t)] = e]
<1>1. entries \in Entries
  BY DEF NewsInv, Entries
<1>2. memory' = [memory EXCEPT ![C!ProcOf(t)] = entries]
      /\ task' = [task EXCEPT ![t].pc = "persist", ![t].snapshot = entries]
  BY DEF C!Set
<1> HIDE DEF entries
<1>3. memory' \in [C!Procs -> Entries]
  BY <1>1, <1>2 DEF NewsInv
<1>4. task' = [u \in C!Tasks |-> task'[u]] /\ \A u \in C!Tasks \ {t} : task'[u] = task[u]
  <2>1. \E x : task' = [task EXCEPT ![t] = x]
    BY <1>2
  <2> QED
    BY <2>1 DEF NewsInv
<1>5. Task(task'[t])
  <2>1. task'[t] = [task[t] EXCEPT !.pc = "persist", !.snapshot = entries]
    BY <1>2 DEF NewsInv
  <2>2. DOMAIN task'[t] = DOMAIN task[t] /\ task'[t].at = task[t].at /\ task'[t].snapshot = entries
    BY <2>1 DEF NewsInv, Task
  <2> QED
    BY <1>1, <2>2 DEF NewsInv, Task
<1> QED
  BY <1>3, <1>4, <1>5 DEF NewsInv

LEMMA NewsInit == C!Init => NewsInv
<1> SUFFICES ASSUME C!Init PROVE NewsInv
  OBVIOUS
<1>1. C!Cold \in Entry
  BY DEF C!Init, C!Cold, Entry
<1>2. file \in Entries /\ memory \in [C!Procs -> Entries]
  BY <1>1 DEF C!Init, Entries
<1> QED
  BY <1>2 DEF C!Init, NewsInv, Task, C!NoTask

LEMMA NewsKept ==
    ASSUME NewsInv, C!Next
    PROVE  NewsInv'
<1> USE DEF C!Procs
<1>0. \A t \in C!Tasks : C!ProcOf(t) \in C!Procs
  BY DEF C!ProcOf
<1>1. CASE C!Tick
  <2>1. \A e \in Entry : e \in Entry'
    BY <1>1 DEF C!Tick, NewsInv, Entry
  <2>2. \A f \in Entries : f \in Entries'
    BY <2>1 DEF Entries
  <2>3. \A x : Task(x) => Task(x)'
    BY <1>1, <2>2 DEF C!Tick, NewsInv, Task
  <2> QED
    BY <1>1, <2>2, <2>3 DEF C!Tick, NewsInv
<1>2. ASSUME clock' = clock, file' \in Entries, memory' \in [C!Procs -> Entries],
             task' = [u \in C!Tasks |-> task'[u]], \A u \in C!Tasks : Task(task'[u])
      PROVE NewsInv'
  BY <1>2 DEF NewsInv, Entries, Entry, Task
<1>3. CASE C!Round
  <2> DEFINE x == [C!NoTask EXCEPT !.pc = "check", !.queue = IF requests[C!Default] > 0 THEN C!Asked ELSE Append(C!Asked, C!Default)]
  <2>1. task' = [task EXCEPT !["worker"] = x] /\ clock' = clock /\ file' = file /\ memory' = memory
    BY <1>3 DEF C!Round
  <2>2. Task(x)
    BY DEF NewsInv, C!NoTask, Task
  <2> HIDE DEF x
  <2> QED
    BY <1>2, <2>1, <2>2 DEF NewsInv
<1>4. ASSUME NEW l \in Locales, C!Ask(l) PROVE NewsInv'
  <2>1. C!Translated(C!Loaded("api"), l) \in Entries
    BY LoadedEntries
  <2>2. memory' \in [C!Procs -> Entries]
    BY <1>4, <2>1 DEF C!Ask, C!Load, NewsInv
  <2> DEFINE x == [C!NoTask EXCEPT !.pc = "check", !.queue = <<l>>]
  <2>3. (task' = [task EXCEPT ![l] = x] \/ task' = task) /\ clock' = clock /\ file' = file
    BY <1>4 DEF C!Ask
  <2>4. Task(x)
    BY DEF NewsInv, C!NoTask, Task
  <2> HIDE DEF x
  <2> QED
    BY <1>2, <2>2, <2>3, <2>4 DEF NewsInv
<1>5. ASSUME NEW t \in C!Tasks, C!Enough(t) PROVE NewsInv'
  <2>1. C!Translated(C!Loaded(C!ProcOf(t)), C!Locale(t)) \in Entries
    BY <1>0, LoadedEntries
  <2>2. memory' \in [C!Procs -> Entries]
    <3> DEFINE entries == C!Translated(C!Loaded(C!ProcOf(t)), C!Locale(t))
               kept == C!Kept(entries, C!Locale(t), clock)
    <3>1. kept \in Entries
      BY <2>1, KeptEntries
    <3>2. memory' = [memory EXCEPT ![C!ProcOf(t)] = kept] \/ memory' = memory
      BY <1>5 DEF C!Enough, C!Load
    <3> HIDE DEF kept
    <3> QED
      BY <3>1, <3>2 DEF NewsInv
  <2>3. C!Done(t, TRUE) \/ C!Done(t, FALSE)
    BY <1>5 DEF C!Enough
  <2>4. clock' = clock /\ file' = file
    BY <1>5 DEF C!Enough
  <2> QED
    BY <1>2, <2>2, <2>3, <2>4, DoneTasks DEF NewsInv
<1>6. ASSUME NEW t \in C!Tasks, C!Want(t) PROVE NewsInv'
  <2>1. C!Translated(C!Loaded(C!ProcOf(t)), C!Locale(t)) \in Entries
    BY <1>0, LoadedEntries
  <2>2. memory' \in [C!Procs -> Entries]
    BY <1>0, <1>6, <2>1 DEF C!Want, C!Load, NewsInv
  <2> QED
    <3> DEFINE x == [task[t] EXCEPT !.pc = "wait", !.at = clock]
    <3>1. task' = [task EXCEPT ![t].pc = "wait", ![t].at = clock] /\ clock' = clock /\ file' = file
      BY <1>6 DEF C!Want
    <3>2. task' = [task EXCEPT ![t] = x]
      BY <3>1 DEF NewsInv
    <3>3. Task(x)
      BY DEF NewsInv, Task
    <3> HIDE DEF x
    <3> QED
      BY <1>2, <2>2, <3>1, <3>2, <3>3 DEF NewsInv
<1>7. ASSUME NEW t \in C!Tasks, C!Enter(t) PROVE NewsInv'
  <2>1. clock' = clock /\ file' = file
    BY <1>7 DEF C!Enter
  <2>2. CASE C!Served(memory[C!ProcOf(t)], C!Locale(t), task[t].at)
    <3>1. C!Kept(memory[C!ProcOf(t)], C!Locale(t), task[t].at) \in Entries
      BY <1>0, KeptEntries DEF NewsInv
    <3>2. memory' \in [C!Procs -> Entries] /\ C!Done(t, TRUE)
      BY <1>0, <1>7, <2>2, <3>1 DEF C!Enter, NewsInv
    <3> QED
      BY <1>2, <2>1, <3>2, DoneTasks DEF NewsInv
  <2>3. CASE ~C!Served(memory[C!ProcOf(t)], C!Locale(t), task[t].at)
    BY <1>2, <1>7, <2>1, <2>3 DEF C!Enter, NewsInv, Task
  <2> QED
    BY <2>2, <2>3
<1>8. ASSUME NEW t \in C!Tasks, C!Answer(t) \/ C!Empty(t) PROVE NewsInv'
  <2>1. task[t].at \in Int /\ task[t].at <= clock
    BY DEF NewsInv, Task
  <2>2. \A b \in BOOLEAN : [ts |-> task[t].at, checked |-> task[t].at, stories |-> b] \in Entry
    BY <2>1 DEF Entry
  <2>3. PICK e \in Entry : C!Set(t, e)
    BY <1>8, <2>2 DEF C!Answer, C!Empty
  <2>4. clock' = clock /\ file' = file
    BY <1>8 DEF C!Answer, C!Empty
  <2> QED
    BY <1>0, <1>2, <2>3, <2>4, SetTasks DEF NewsInv
<1>9. ASSUME NEW t \in C!Tasks, C!AnswerEmpty(t) PROVE NewsInv'
  <2> DEFINE entries == memory[C!ProcOf(t)]
             old == C!Old(entries, C!Locale(t))
  <2>1. clock' = clock /\ file' = file
    BY <1>9 DEF C!AnswerEmpty
  <2>2. CASE old.stories
    <3>1. entries \in Entries
      BY <1>0 DEF NewsInv
    <3>2. C!Locale(t) \in Locales => old \in Entry
      BY <3>1, AlternateEntry DEF C!Old, Entries
    <3>3. C!Locale(t) \in Locales => [old EXCEPT !.checked = task[t].at] \in Entry
      BY <3>2 DEF Entry, NewsInv, Task
    <3>4. C!Set(t, [old EXCEPT !.checked = task[t].at])
      BY <1>9, <2>2 DEF C!AnswerEmpty
    <3> QED
      BY <1>0, <1>2, <2>1, <3>3, <3>4, SetTasks DEF NewsInv
  <2>3. CASE ~old.stories
    BY <1>2, <1>9, <2>1, <2>3 DEF C!AnswerEmpty, NewsInv, Task
  <2> QED
    BY <2>2, <2>3
<1>10. ASSUME NEW t \in C!Tasks, C!Persist(t) PROVE NewsInv'
  <2>1. clock' = clock /\ (C!Done(t, TRUE) \/ C!Done(t, FALSE))
    BY <1>10 DEF C!Persist, C!After
  <2>2. task[t].snapshot \in Entries /\ file \in Entries /\ memory[C!ProcOf(t)] \in Entries
    BY <1>0, <1>10 DEF C!Persist, C!At, NewsInv, Task
  <2>3. C!Written(task[t].snapshot, file) \in Entries
    BY <2>2, MergedEntries DEF C!Written
  <2>4. file' = C!Written(task[t].snapshot, file)
        /\ memory' = [memory EXCEPT ![C!ProcOf(t)] = C!Merged(C!Written(task[t].snapshot, file), @)]
    BY <1>10 DEF C!Persist
  <2>5. memory' \in [C!Procs -> Entries]
    BY <1>0, <2>2, <2>3, <2>4, MergedEntries DEF NewsInv
  <2> QED
    BY <1>2, <2>1, <2>3, <2>4, <2>5, DoneTasks
<1>11. ASSUME NEW t \in C!Tasks, C!PersistFails(t) PROVE NewsInv'
  <2>1. clock' = clock /\ file' = file /\ memory' = memory /\ (C!Done(t, TRUE) \/ C!Done(t, FALSE))
    BY <1>11 DEF C!PersistFails, C!After
  <2> QED
    BY <1>2, <2>1, DoneTasks DEF NewsInv
<1>12. ASSUME NEW t \in C!Tasks, C!End(t) PROVE NewsInv'
  <2>1. task' = [task EXCEPT ![t] = C!NoTask] /\ clock' = clock /\ file' = file /\ memory' = memory
    BY <1>12 DEF C!End
  <2>2. Task(C!NoTask)
    BY ColdEntry
  <2> QED
    BY <1>2, <2>1, <2>2 DEF NewsInv
<1>13. ASSUME NEW p \in C!Procs, C!Write(p) PROVE NewsInv'
  BY <1>2, <1>13 DEF C!Write, NewsInv
<1>14. ASSUME NEW p \in C!Procs, C!Crash(p) PROVE NewsInv'
  <2>1. [l \in Locales |-> C!Cold] \in Entries
    BY ColdEntry DEF Entries
  <2>2. memory' \in [C!Procs -> Entries]
    BY <1>14, <2>1 DEF C!Crash, NewsInv
  <2>3. Task(C!NoTask)
    BY ColdEntry
  <2>4. task' = [u \in C!Tasks |-> task'[u]] /\ \A u \in C!Tasks : Task(task'[u])
    BY <1>14, <2>3 DEF C!Crash, NewsInv
  <2> QED
    BY <1>2, <1>14, <2>2, <2>4 DEF C!Crash, NewsInv
<1> QED
  BY <1>1, <1>3, <1>4, <1>5, <1>6, <1>7, <1>8, <1>9, <1>10, <1>11, <1>12, <1>13, <1>14 DEF C!Next, C!Warming

NewsInvariant == part = "news" => NewsInv

LEMMA FileIsTyped == ChannelsSpec => []NewsInvariant
<1>1. ChannelsInit => NewsInvariant
  BY NewsInit DEF ChannelsInit, PartInit, NewsInvariant
<1>2. NewsInvariant /\ [ChannelsNext]_all => NewsInvariant'
  <2> SUFFICES ASSUME NewsInvariant, [ChannelsNext]_all, part' = "news" PROVE NewsInv'
    BY DEF NewsInvariant
  <2>1. part = "news" /\ NewsInv
    BY PartStays DEF NewsInvariant
  <2>2. CASE C!Next
    BY <2>1, <2>2, NewsKept
  <2>3. CASE UNCHANGED C!vars
    BY <2>1, <2>3 DEF C!vars, NewsInv, Entries, Entry, Task
  <2> QED
    BY <2>1, <2>2, <2>3, NewsStep
<1> QED
  BY <1>1, <1>2, PTL DEF ChannelsSpec

\* The file the two processes share never goes back: whichever of them writes it
\* late, and whatever it still had in memory, every locale keeps its newest entry
\* (_persist_news_cache).
THEOREM FileHolds == ChannelsSpec => FileMovesForward
<1>1. NewsInvariant /\ [ChannelsNext]_all => [part = "news" => C!MovesForward]_all
  <2> SUFFICES ASSUME NewsInvariant, [ChannelsNext]_all, part = "news", NEW l \in Locales
               PROVE  ~C!Newer(file[l], file'[l])
    BY DEF C!MovesForward
  <2>1. file \in Entries /\ file[l].ts \in Int /\ file[l].checked \in Int
    BY DEF NewsInvariant, NewsInv, Entries, Entry
  <2>2. ~C!Newer(file[l], file[l])
    BY <2>1 DEF C!Newer
  <2>3. CASE file' = file
    BY <2>2, <2>3
  <2>4. ASSUME NEW t \in C!Tasks, C!Persist(t) PROVE ~C!Newer(file[l], file'[l])
    <3>1. file' = C!Merged(task[t].snapshot, file)
      BY <2>4 DEF C!Persist, C!Written
    <3> QED
      BY <2>2, <3>1 DEF C!Merged
  <2>5. file' = file \/ \E t \in C!Tasks : C!Persist(t)
    <3>1. CASE C!Tick
      BY <3>1 DEF C!Tick
    <3>6. CASE C!Round
      BY <3>6 DEF C!Round
    <3>7. CASE \E l1 \in Locales : C!Ask(l1)
      BY <3>7 DEF C!Ask
    <3>8. CASE \E p \in C!Procs : C!Write(p) \/ C!Crash(p)
      BY <3>8 DEF C!Write, C!Crash
    <3>2. ASSUME NEW t \in C!Tasks, C!Warming(t) PROVE file' = file \/ C!Persist(t)
      <4>1. C!Enough(t) \/ C!Want(t) \/ C!Enter(t) \/ C!Answer(t) => file' = file
        BY DEF C!Enough, C!Want, C!Enter, C!Answer
      <4>2. C!AnswerEmpty(t) \/ C!Empty(t) \/ C!PersistFails(t) \/ C!End(t) => file' = file
        BY DEF C!AnswerEmpty, C!Empty, C!PersistFails, C!End
      <4> QED
        BY <3>2, <4>1, <4>2 DEF C!Warming
    <3>3. C!Next \/ UNCHANGED C!vars
      BY NewsStep
    <3>4. CASE UNCHANGED C!vars
      BY <3>4 DEF C!vars
    <3>5. CASE C!Next
      BY <3>1, <3>2, <3>5, <3>6, <3>7, <3>8 DEF C!Next
    <3> QED
      BY <3>3, <3>4, <3>5
  <2> QED
    BY <2>3, <2>4, <2>5
<1> QED
  BY <1>1, FileIsTyped, PTL DEF ChannelsSpec, FileMovesForward

-----------------------------------------------------------------------------
(* The accounts: links with chats, and promotions.                           *)

Rows == [user : Users, until : Nat, used : BOOLEAN]

\* A transaction that is begun has a type; the promise of Begin.
LEMMA BegunTypes ==
    ASSUME NEW c \in Clients, NEW t \in Transaction, TypeOK, Begin(c, t)
    PROVE  TypeOK'
  BY DEF Begin, TypeOK

\* Ending a transaction keeps the others.
LEMMA EndedTypes ==
    ASSUME NEW c \in Clients, tx \in [Clients -> Transaction], End(c)
    PROVE  tx' \in [Clients -> Transaction]
  BY DEF End, Transaction

LEMMA IssueTypes ==
    ASSUME LinkConstants, TypeOK, NEW c \in Clients, IssueToken(c)
    PROVE  TypeOK'
<1> DEFINE s == [i \in DOMAIN token |-> IF i \in tx[c].open THEN [token[i] EXCEPT !.used = TRUE] ELSE token[i]]
<1> DEFINE row == [user |-> tx[c].user, until |-> now + TokenLife, used |-> FALSE]
<1>1. token \in Seq(Rows)
  BY DEF TypeOK, Rows
<1>2. Len(token) \in Nat /\ DOMAIN token = 1..Len(token) /\ \A i \in 1..Len(token) : token[i] \in Rows
  BY <1>1
<1>3. \A i \in 1..Len(token) : s[i] \in Rows
  BY <1>2 DEF Rows
<1>4. s \in Seq(Rows)
  BY <1>2, <1>3
<1>5. tx[c] \in Transaction /\ tx[c].op = "issue"
  BY DEF TypeOK, IssueToken
<1>6. tx[c].user \in Users
  BY <1>5 DEF Transaction, Idle
<1>7. row \in Rows
  BY <1>6 DEF LinkConstants, TypeOK, Rows
<1>8. token' = Append(s, row)
  BY DEF IssueToken
<1>9. token' \in Seq(Rows)
  BY <1>4, <1>7, <1>8
<1>10. tx' \in [Clients -> Transaction]
  BY EndedTypes DEF IssueToken, TypeOK
<1> QED
  BY <1>9, <1>10 DEF TypeOK, IssueToken, Rows

LEMMA LinkTypes ==
    ASSUME TypeOK, NEW c \in Clients, Link(c)
    PROVE  TypeOK'
<1> DEFINE s == [i \in DOMAIN token |-> IF i = tx[c].token THEN [token[i] EXCEPT !.used = TRUE] ELSE token[i]]
<1>1. token \in Seq(Rows)
  BY DEF TypeOK, Rows
<1>2. Len(token) \in Nat /\ DOMAIN token = 1..Len(token) /\ \A i \in 1..Len(token) : token[i] \in Rows
  BY <1>1
<1>3. \A i \in 1..Len(token) : s[i] \in Rows
  BY <1>2 DEF Rows
<1>4. token' \in Seq(Rows)
  BY <1>2, <1>3 DEF Link
<1>5. tx[c] \in Transaction /\ tx[c].op = "link"
  BY DEF TypeOK, Link
<1>6. tx[c].user \in Users /\ tx[c].chat \in Chats
  BY <1>5 DEF Transaction, Idle
<1>7. telegram' \in [Users -> Chats \cup {NoChat}]
  BY <1>6 DEF Link, TypeOK
<1>8. tx' \in [Clients -> Transaction]
  BY EndedTypes DEF Link, TypeOK
<1> QED
  BY <1>4, <1>7, <1>8 DEF TypeOK, Link, Rows

LEMMA GrantTypes ==
    ASSUME TypeOK, NEW c \in Clients, Grant(c)
    PROVE  TypeOK'
<1>1. tx[c] \in Transaction /\ tx[c].op = "redeem"
  BY DEF TypeOK, Grant
<1>2. tx[c].user \in Users /\ tx[c].promo \in Promos /\ tx[c].uses \in Nat
  BY <1>1 DEF Transaction, Idle
<1>3. uses' \in [Promos -> Nat] /\ redeemed' \subseteq Promos \X Users
  BY <1>2 DEF Grant, TypeOK
<1>4. tx' \in [Clients -> Transaction]
  BY EndedTypes DEF Grant, TypeOK
<1> QED
  BY <1>3, <1>4 DEF TypeOK, Grant

\* Every step keeps the types.
LEMMA StepTypes ==
    ASSUME LinkConstants, TypeOK, [Next]_vars
    PROVE  TypeOK'
<1>1. CASE UNCHANGED vars
  BY <1>1 DEF vars, TypeOK
<1>2. CASE Tick
  BY <1>2 DEF Tick, TypeOK
<1>3. ASSUME NEW c \in Clients, IssueToken(c)
      PROVE  TypeOK'
  BY <1>3, IssueTypes
<1>4. ASSUME NEW c \in Clients, Link(c)
      PROVE  TypeOK'
  BY <1>4, LinkTypes
<1>5. ASSUME NEW c \in Clients, Grant(c)
      PROVE  TypeOK'
  BY <1>5, GrantTypes
<1>6. ASSUME NEW c \in Clients, Fail(c)
      PROVE  TypeOK'
  BY <1>6, EndedTypes DEF Fail, TypeOK
<1>7. ASSUME NEW c \in Clients, NEW u \in Users, RequestToken(c, u)
      PROVE  TypeOK'
  <2>1. Open(u) \subseteq Nat
    BY DEF Open, TypeOK
  <2>2. [op |-> "issue", user |-> u, open |-> Open(u)] \in Transaction
    BY <2>1 DEF Transaction
  <2> QED
    BY <1>7, <2>2, BegunTypes DEF RequestToken
<1>8. ASSUME NEW c \in Clients, NEW u \in Users, NEW chat \in Chats, LinkDirectly(c, u, chat)
      PROVE  TypeOK'
  <2>1. Linking(u, chat, 0) \in Transaction
    BY DEF Linking, Transaction, TypeOK
  <2> QED
    BY <1>8, <2>1, BegunTypes DEF LinkDirectly
<1>9. ASSUME NEW c \in Clients, NEW i \in DOMAIN token, NEW chat \in Chats, HandBack(c, i, chat)
      PROVE  TypeOK'
  <2>0. token \in Seq(Rows)
    BY DEF TypeOK, Rows
  <2>3. DOMAIN token = 1..Len(token) /\ Len(token) \in Nat
    BY <2>0
  <2>4. i \in Nat /\ token[i] \in Rows
    BY <2>0, <2>3
  <2>1. token[i].user \in Users
    BY <2>4 DEF Rows
  <2>2. Linking(token[i].user, chat, i) \in Transaction
    BY <2>1, <2>4 DEF Linking, Transaction, TypeOK
  <2> QED
    BY <1>9, <2>2, BegunTypes DEF HandBack
<1>10. ASSUME NEW c \in Clients, NEW u \in Users, NEW k \in Promos, Redeem(c, u, k)
       PROVE  TypeOK'
  <2>1. uses[k] + 1 \in Nat
    BY DEF TypeOK
  <2>2. [op |-> "redeem", user |-> u, promo |-> k, uses |-> uses[k] + 1] \in Transaction
    BY <2>1 DEF Transaction
  <2> QED
    BY <1>10, <2>2, BegunTypes DEF Redeem
<1> QED
  BY <1>1, <1>2, <1>3, <1>4, <1>5, <1>6, <1>7, <1>8, <1>9, <1>10 DEF Next

\* The tables and the transactions keep their types.
THEOREM LinkTypesKept == LinkConstants => (Spec => []TypeOK)
<1> SUFFICES ASSUME LinkConstants
             PROVE  Spec => []TypeOK
  OBVIOUS
<1>1. Init => TypeOK
  BY DEF Init, TypeOK, Transaction
<1>2. TypeOK /\ [Next]_vars => TypeOK'
  BY StepTypes
<1> QED
  BY <1>1, <1>2, PTL DEF Spec

-----------------------------------------------------------------------------
\* No interleaving of links, direct or by token, gives a chat two accounts: the
\* unique column refuses what the look before it had missed.
THEOREM ChatsStayApart == LinkConstants => (Spec => []OneAccountPerChat)
<1> SUFFICES ASSUME LinkConstants
             PROVE  Spec => []OneAccountPerChat
  OBVIOUS
<1>1. Init => OneAccountPerChat
  BY DEF Init, OneAccountPerChat
<1>2. TypeOK /\ OneAccountPerChat /\ [Next]_vars => OneAccountPerChat'
  <2> SUFFICES ASSUME TypeOK, OneAccountPerChat, [Next]_vars
               PROVE  OneAccountPerChat'
    OBVIOUS
  <2>1. ASSUME NEW c \in Clients, Link(c), Writes(c)
        PROVE  OneAccountPerChat'
    <3>1. Others(tx[c].user, tx[c].chat) = {}
      BY <2>1 DEF Link, Taken
    <3>2. telegram' = [telegram EXCEPT ![tx[c].user] = tx[c].chat]
      BY <2>1 DEF Link
    <3> QED
      BY <3>1, <3>2 DEF OneAccountPerChat, Others, TypeOK
  <2>2. CASE UNCHANGED telegram
    BY <2>2 DEF OneAccountPerChat
  <2> QED
    BY <2>1, <2>2 DEF Next, vars, Tick, IssueToken, Link, Grant, Fail, RequestToken, LinkDirectly, HandBack, Redeem, Begin
<1>3. Spec => []TypeOK
  BY LinkTypesKept
<1> QED
  BY <1>1, <1>2, <1>3, PTL DEF Spec
-----------------------------------------------------------------------------
\* Who holds the row of a promotion has read its counter, and nobody else holds it.
Holds(c, k) == tx[c].op = "redeem" /\ tx[c].promo = k
PromoInv ==
    /\ PromoUsesAreCounted
    /\ \A c \in Clients, k \in Promos : Holds(c, k) =>
          /\ tx[c].uses = uses[k] + 1
          /\ MaxUses[k] > 0 => uses[k] < MaxUses[k]
          /\ \A d \in Clients : Holds(d, k) => d = c

\* A redemption more is one redeemer more.
LEMMA OneRedeemerMore ==
    ASSUME LinkConstants, NEW k \in Promos, NEW u \in Users, <<k, u>> \notin redeemed,
           redeemed' = redeemed \cup {<<k, u>>}
    PROVE  /\ Cardinality(Redeemers(k)') = Cardinality(Redeemers(k)) + 1
           /\ \A j \in Promos : j # k => Redeemers(j)' = Redeemers(j)
<1>1. Redeemers(k) \subseteq Users /\ u \notin Redeemers(k)
  BY DEF Redeemers
<1>2. IsFiniteSet(Redeemers(k))
  BY <1>1, FS_Subset DEF LinkConstants
<1>3. Redeemers(k)' = Redeemers(k) \cup {u}
  BY DEF Redeemers
<1>4. \A j \in Promos : j # k => Redeemers(j)' = Redeemers(j)
  BY DEF Redeemers
<1> QED
  BY <1>1, <1>2, <1>3, <1>4, FS_AddElement

\* The counter of a promotion tells its redemptions and stays within its limit,
\* for any number of accounts and of requests at once.
THEOREM PromosAlwaysCounted == LinkConstants => (Spec => []PromoUsesAreCounted)
<1> SUFFICES ASSUME LinkConstants
             PROVE  Spec => []PromoUsesAreCounted
  OBVIOUS
<1>1. Init => PromoInv
  <2> SUFFICES ASSUME Init PROVE PromoInv
    OBVIOUS
  <2>1. \A k \in Promos : Redeemers(k) = {}
    BY DEF Init, Redeemers
  <2>3. \A k \in Promos : uses[k] = 0 /\ MaxUses[k] \in Nat
    BY DEF Init, LinkConstants
  <2>4. Cardinality({}) = 0
    BY FS_EmptySet
  <2>2. PromoUsesAreCounted
    BY <2>1, <2>3, <2>4 DEF PromoUsesAreCounted
  <2> QED
    BY <2>2 DEF Init, PromoInv, Holds, Idle
<1>2. TypeOK /\ PromoInv /\ [Next]_vars => PromoInv'
  <2> SUFFICES ASSUME TypeOK, PromoInv, [Next]_vars
               PROVE  PromoInv'
    OBVIOUS
  <2>1. ASSUME NEW c \in Clients, Grant(c)
        PROVE  PromoInv'
    <3>1. tx[c] \in Transaction /\ tx[c].op = "redeem"
      BY <2>1 DEF TypeOK, Grant
    <3>a. tx[c].user \in Users /\ tx[c].promo \in Promos
      BY <3>1 DEF Transaction, Idle
    <3>b. PICK k \in Promos, u \in Users : k = tx[c].promo /\ u = tx[c].user
      BY <3>a
    <3>2. Holds(c, k)
      BY <3>1, <3>b DEF Holds
    <3>3. uses[k] \in Nat /\ tx[c].uses = uses[k] + 1 /\ (MaxUses[k] > 0 => uses[k] < MaxUses[k])
          /\ MaxUses[k] \in Nat
      BY <3>2 DEF PromoInv, TypeOK, LinkConstants
    <3>4. uses' = [uses EXCEPT ![k] = uses[k] + 1]
      BY <2>1, <3>3, <3>b DEF Grant
    <3>5. /\ Cardinality(Redeemers(k)') = Cardinality(Redeemers(k)) + 1
          /\ \A j \in Promos : j # k => Redeemers(j)' = Redeemers(j)
      BY <2>1, <3>b, OneRedeemerMore DEF Grant
    <3>6. PromoUsesAreCounted'
      <4>1. \A j \in Promos : uses[j] = Cardinality(Redeemers(j)) /\ (MaxUses[j] > 0 => uses[j] <= MaxUses[j])
        BY DEF PromoInv, PromoUsesAreCounted
      <4>2. \A j \in Promos : uses'[j] = IF j = k THEN uses[k] + 1 ELSE uses[j]
        BY <3>4 DEF TypeOK
      <4>3. ASSUME NEW j \in Promos
            PROVE  uses'[j] = Cardinality(Redeemers(j)') /\ (MaxUses[j] > 0 => uses'[j] <= MaxUses[j])
        <5>1. CASE j = k
          BY <3>3, <3>5, <4>1, <4>2, <5>1
        <5>2. CASE j # k
          BY <3>5, <4>1, <4>2, <5>2
        <5> QED
          BY <5>1, <5>2
      <4> QED
        BY <4>3 DEF PromoUsesAreCounted
    <3>7. tx' = [tx EXCEPT ![c] = Idle]
      BY <2>1 DEF Grant, End
    <3>8. ASSUME NEW d \in Clients, NEW j \in Promos, Holds(d, j)'
          PROVE  d # c /\ Holds(d, j) /\ tx'[d] = tx[d] /\ j # k
      <4>1. d # c
        BY <3>7, <3>8 DEF Holds, Idle, TypeOK
      <4>2. tx'[d] = tx[d]
        BY <3>7, <4>1 DEF TypeOK
      <4>3. Holds(d, j)
        BY <3>8, <4>2 DEF Holds
      <4> QED
        BY <3>2, <4>1, <4>2, <4>3 DEF PromoInv
    <3>9. \A j \in Promos : j # k => uses'[j] = uses[j]
      BY <3>4 DEF TypeOK
    <3> QED
      BY <3>6, <3>8, <3>9 DEF PromoInv
  <2>2. ASSUME NEW c \in Clients, NEW u \in Users, NEW k \in Promos, Redeem(c, u, k)
        PROVE  PromoInv'
    <3>1. \A d \in Clients : ~Holds(d, k)
      BY <2>2 DEF Redeem, RowFree, Holds
    <3>2. tx' = [tx EXCEPT ![c] = [op |-> "redeem", user |-> u, promo |-> k, uses |-> uses[k] + 1]]
          /\ UNCHANGED <<uses, redeemed>>
      BY <2>2 DEF Redeem, Begin
    <3>3. MaxUses[k] > 0 => uses[k] < MaxUses[k]
      BY <2>2 DEF Redeem, LinkConstants
    <3>4. \A d \in Clients, j \in Promos :
              Holds(d, j)' <=> IF d = c THEN j = k ELSE Holds(d, j)
      BY <3>2 DEF Holds, TypeOK
    <3>5. tx'[c].uses = uses[k] + 1 /\ \A d \in Clients : d # c => tx'[d] = tx[d]
      BY <3>2 DEF TypeOK
    <3>6. PromoUsesAreCounted'
      BY <3>2 DEF PromoInv, PromoUsesAreCounted, Redeemers
    <3> QED
      BY <3>1, <3>2, <3>3, <3>4, <3>5, <3>6 DEF PromoInv
  <2>3. ASSUME UNCHANGED <<uses, redeemed>>,
               \A d \in Clients : tx'[d] = tx[d] \/ tx'[d].op # "redeem"
        PROVE  PromoInv'
    <3>1. PromoUsesAreCounted'
      BY <2>3 DEF PromoInv, PromoUsesAreCounted, Redeemers
    <3>2. \A d \in Clients, j \in Promos : Holds(d, j)' => Holds(d, j) /\ tx'[d] = tx[d]
      BY <2>3 DEF Holds
    <3> QED
      BY <2>3, <3>1, <3>2 DEF PromoInv
  <2>4. ASSUME NEW c \in Clients, \/ IssueToken(c) \/ Link(c) \/ Fail(c)
        PROVE  PromoInv'
    <3>1. tx' = [tx EXCEPT ![c] = Idle] /\ UNCHANGED <<uses, redeemed>>
      BY <2>4 DEF IssueToken, Link, Fail, End
    <3> QED
      BY <2>3, <3>1 DEF TypeOK, Idle
  <2>5. ASSUME NEW c \in Clients, NEW t, Begin(c, t), t.op # "redeem"
        PROVE  PromoInv'
    BY <2>3, <2>5 DEF Begin, TypeOK
  <2>6. ASSUME NEW c \in Clients, NEW u \in Users,
               RequestToken(c, u) \/ \E chat \in Chats : LinkDirectly(c, u, chat)
        PROVE  PromoInv'
    BY <2>5, <2>6 DEF RequestToken, LinkDirectly, Linking
  <2>7. ASSUME NEW c \in Clients, NEW i \in DOMAIN token, NEW chat \in Chats, HandBack(c, i, chat)
        PROVE  PromoInv'
    BY <2>5, <2>7 DEF HandBack, Linking
  <2>8. CASE Tick \/ UNCHANGED vars
    BY <2>3, <2>8 DEF Tick, vars
  <2> QED
    BY <2>1, <2>2, <2>4, <2>6, <2>7, <2>8 DEF Next
<1>3. PromoInv => PromoUsesAreCounted
  BY DEF PromoInv
<1>4. Spec => []TypeOK
  BY LinkTypesKept
<1> QED
  BY <1>1, <1>2, <1>3, <1>4, PTL DEF Spec

---------------------------------------------------------------------------
(* Induction.  The provers have none; that every set of numbers has a least  *)
(* one is a fact of the library.                                             *)

LEMMA NatSets ==
    ASSUME NEW S \in SUBSET Nat, 0 \in S, \A n \in S : n + 1 \in S
    PROVE  Nat \subseteq S
<1> DEFINE missed == Nat \ S
<1> SUFFICES ASSUME missed # {} PROVE FALSE
  OBVIOUS
<1>1. \E m \in missed : \A n \in missed : ~(<<n, m>> \in OpToRel(<, Nat))
  <2> HIDE DEF missed
  <2>1. missed \subseteq Nat
    BY DEF missed
  <2> QED
    BY <2>1, WFMin, NatLessThanWellFounded
<1>2. PICK m \in missed : \A n \in missed : ~(n < m)
  BY <1>1 DEF OpToRel
<1>3. m # 0 /\ m - 1 \in Nat
  OBVIOUS
<1>4. m - 1 \in S
  BY <1>2, <1>3
<1> QED
  BY <1>4

LEMMA LeastOne ==
    ASSUME NEW S \in SUBSET Nat, S # {}
    PROVE  \E m \in S : \A n \in S : m <= n
<1>1. \E m \in S : \A n \in S : ~(<<n, m>> \in OpToRel(<, Nat))
  BY WFMin, NatLessThanWellFounded
<1>2. PICK m \in S : \A n \in S : ~(n < m)
  BY <1>1 DEF OpToRel
<1> QED
  BY <1>2

LEMMA GreatestOne ==
    ASSUME NEW n \in Nat, NEW S \in SUBSET (1..n), S # {}
    PROVE  \E m \in S : \A i \in S : i <= m
<1> DEFINE D == {n - i : i \in S}
<1>1. D \in SUBSET Nat /\ D # {}
  <2>1. \A i \in S : n - i \in Nat
    OBVIOUS
  <2> QED
    BY <2>1
<1>2. PICK d \in D : \A e \in D : d <= e
  <2> HIDE DEF D
  <2> QED
    BY <1>1, LeastOne
<1>3. PICK m \in S : d = n - m
  OBVIOUS
<1>4. ASSUME NEW i \in S PROVE i <= m
  <2>1. n - i \in D /\ i \in Nat /\ m \in Nat
    OBVIOUS
  <2> HIDE DEF D
  <2>2. n - m <= n - i
    BY <1>2, <1>3, <2>1
  <2> QED
    BY <2>1, <2>2
<1> QED
  BY <1>4

---------------------------------------------------------------------------
(* Moderation.  The pass over a list, and the posts it decides.              *)

\* What the pass knows once it has met the last n items of a list.
PassGood(list, hiding, acc, n, r) ==
    /\ \A p : p \in r.pending <=> /\ p \in acc.pending
                                  /\ \A i \in 1..Len(list) : i > Len(list) - n => list[i].post # p
    /\ \A p : p \in r.hidden <=>
           \/ p \in acc.hidden
           \/ /\ p \in acc.pending
              /\ \E i \in 1..Len(list) : /\ i > Len(list) - n /\ list[i].post = p /\ i \in hiding
                                         /\ \A j \in 1..Len(list) : j > i => list[j].post # p

PassStep(list, hiding, acc, n, before) ==
    IF n = 0 THEN acc ELSE Q!Met(before, list[Len(list) - n + 1], Len(list) - n + 1 \in hiding)

CanPass(list, hiding, acc) == \E f : f = [n \in 0..Len(list) |-> PassStep(list, hiding, acc, n, f[n - 1])]

LEMMA PassUpTo == ASSUME NEW list, Len(list) \in Nat, NEW hiding, NEW acc PROVE CanPass(list, hiding, acc)
<1> DEFINE Step(n, before) == PassStep(list, hiding, acc, n, before)
           Made(m) == \E f : f = [n \in 0..m |-> Step(n, f[n - 1])]
           S == {m \in Nat : Made(m)}
<1>a. \A x, y : Step(0, x) = Step(0, y)
  BY DEF PassStep
<1> HIDE DEF Step
<1>1. 0 \in S
  <2> DEFINE f == [n \in 0..0 |-> Step(n, 0)]
  <2>1. \A n \in 0..0 : Step(n, f[n - 1]) = Step(n, 0)
    BY <1>a
  <2>2. f = [n \in 0..0 |-> Step(n, f[n - 1])]
    BY <2>1
  <2>3. Made(0)
    BY <2>2, Zenon
  <2> HIDE DEF Made
  <2> QED
    BY <2>3
<1>2. ASSUME NEW m \in S PROVE m + 1 \in S
  <2>1. m \in Nat
    OBVIOUS
  <2>2. PICK f : f = [n \in 0..m |-> Step(n, f[n - 1])]
    OBVIOUS
  <2> DEFINE g == [n \in 0..m + 1 |-> IF n = m + 1 THEN Step(m + 1, f[m]) ELSE f[n]]
  <2>3. \A n \in 0..m + 1 : g[n] = IF n = m + 1 THEN Step(m + 1, f[m]) ELSE f[n]
    OBVIOUS
  <2>4. g = [n \in 0..m + 1 |-> g[n]]
    OBVIOUS
  <2> HIDE DEF g
  <2>5. ASSUME NEW n \in 0..m + 1 PROVE g[n] = Step(n, g[n - 1])
    <3>1. CASE n = m + 1
      <4>1. g[n] = Step(m + 1, f[m]) /\ g[n - 1] = f[m]
        BY <2>1, <2>3, <3>1
      <4> QED
        BY <3>1, <4>1
    <3>2. CASE n # m + 1 /\ n # 0
      <4>1. n \in 0..m /\ n - 1 \in 0..m /\ n - 1 \in 0..m + 1 /\ n - 1 # m + 1
        BY <2>1, <3>2
      <4>2. g[n] = f[n] /\ g[n - 1] = f[n - 1]
        BY <2>3, <3>2, <4>1
      <4>3. f[n] = Step(n, f[n - 1])
        BY <2>2, <4>1
      <4> QED
        BY <4>2, <4>3
    <3>3. CASE n # m + 1 /\ n = 0
      <4>1. n \in 0..m
        BY <2>1, <3>3
      <4>2. g[n] = f[n] /\ f[n] = Step(n, f[n - 1])
        BY <2>2, <2>3, <3>3, <4>1
      <4> QED
        BY <1>a, <3>3, <4>2
    <3> QED
      BY <3>1, <3>2, <3>3
  <2>6. g = [n \in 0..m + 1 |-> Step(n, g[n - 1])]
    BY <2>4, <2>5
  <2>7. Made(m + 1)
    BY <2>6, Zenon
  <2> HIDE DEF Made
  <2> QED
    BY <2>1, <2>7
<1>3. S \in SUBSET Nat
  OBVIOUS
<1> HIDE DEF S
<1>4. Nat \subseteq S
  BY <1>1, <1>2, <1>3, NatSets
<1>5. Made(Len(list))
  BY <1>4 DEF S
<1> QED
  BY <1>5 DEF Step, CanPass

LEMMA PassMeets ==
    ASSUME NEW list, Len(list) \in Nat, NEW hiding, NEW acc, NEW n \in 1..Len(list), NEW before,
           PassGood(list, hiding, acc, n - 1, before)
    PROVE  PassGood(list, hiding, acc, n, PassStep(list, hiding, acc, n, before))
<1> DEFINE k == Len(list) - n + 1
           item == list[k]
           r == Q!Met(before, item, k \in hiding)
<1>1. k \in 1..Len(list) /\ \A i \in 1..Len(list) : i > Len(list) - n <=> i = k \/ i > Len(list) - (n - 1)
  OBVIOUS
<1>2. PassStep(list, hiding, acc, n, before) = r
  BY DEF PassStep
<1>3. \A i \in 1..Len(list) : i > Len(list) - (n - 1) <=> i > k
  OBVIOUS
<1>4. \A p : p \in r.pending <=> p \in before.pending /\ p # item.post
  BY DEF Q!Met
<1>5. \A p : p \in r.hidden <=> p \in before.hidden \/ (p = item.post /\ p \in before.pending /\ k \in hiding)
  BY DEF Q!Met
<1> HIDE DEF k, r
<1>6. \A p : p \in before.pending <=> p \in acc.pending /\ \A i \in 1..Len(list) : i > k => list[i].post # p
  BY <1>3 DEF PassGood
<1>7. \A p : p \in before.hidden <=>
           \/ p \in acc.hidden
           \/ /\ p \in acc.pending
              /\ \E i \in 1..Len(list) : /\ i > k /\ list[i].post = p /\ i \in hiding
                                         /\ \A j \in 1..Len(list) : j > i => list[j].post # p
  BY <1>3 DEF PassGood
<1>8. ASSUME NEW p
      PROVE  p \in r.pending <=> p \in acc.pending /\ \A i \in 1..Len(list) : i > Len(list) - n => list[i].post # p
  BY <1>1, <1>3, <1>4, <1>6
<1>9. ASSUME NEW p
      PROVE  p \in r.hidden <=>
               \/ p \in acc.hidden
               \/ /\ p \in acc.pending
                  /\ \E i \in 1..Len(list) : /\ i > Len(list) - n /\ list[i].post = p /\ i \in hiding
                                             /\ \A j \in 1..Len(list) : j > i => list[j].post # p
  BY <1>1, <1>3, <1>5, <1>6, <1>7
<1> QED
  BY <1>2, <1>8, <1>9 DEF PassGood

LEMMA PassedIs ==
    ASSUME NEW list, Len(list) \in Nat, NEW hiding, NEW acc
    PROVE  PassGood(list, hiding, acc, Len(list), Q!Passed(list, hiding, acc))
<1> DEFINE after == CHOOSE f : f = [n \in 0..Len(list) |-> PassStep(list, hiding, acc, n, f[n - 1])]
           S == {n \in Nat : n <= Len(list) => PassGood(list, hiding, acc, n, after[n])}
<1>1. Q!Passed(list, hiding, acc) = after[Len(list)]
  BY DEF Q!Passed, PassStep
<1>2. after = [n \in 0..Len(list) |-> PassStep(list, hiding, acc, n, after[n - 1])]
  <2>1. \E f : f = [n \in 0..Len(list) |-> PassStep(list, hiding, acc, n, f[n - 1])]
    <3>1. CanPass(list, hiding, acc)
      BY PassUpTo
    <3> QED
      BY <3>1, Zenon DEF CanPass
  <2> QED
    BY <2>1, Zenon
<1> HIDE DEF after
<1>3. \A n \in 0..Len(list) : after[n] = PassStep(list, hiding, acc, n, after[n - 1])
  BY <1>2
<1>4. 0 \in S
  <2>1. after[0] = acc
    BY <1>3 DEF PassStep
  <2>2. PassGood(list, hiding, acc, 0, acc)
    BY DEF PassGood
  <2> QED
    BY <2>1, <2>2
<1>5. ASSUME NEW n \in S PROVE n + 1 \in S
  <2> SUFFICES ASSUME n + 1 <= Len(list) PROVE PassGood(list, hiding, acc, n + 1, after[n + 1])
    OBVIOUS
  <2>1. n \in Nat /\ n + 1 \in 1..Len(list) /\ (n + 1) - 1 = n /\ n + 1 \in 0..Len(list)
    OBVIOUS
  <2>2. PassGood(list, hiding, acc, n, after[n])
    BY <2>1
  <2>3. after[n + 1] = PassStep(list, hiding, acc, n + 1, after[n])
    BY <1>3, <2>1
  <2>4. PassGood(list, hiding, acc, n + 1, PassStep(list, hiding, acc, n + 1, after[n]))
    BY <2>1, <2>2, PassMeets
  <2> QED
    BY <2>3, <2>4
<1>6. S \in SUBSET Nat
  OBVIOUS
<1> HIDE DEF S
<1>7. Len(list) \in S
  BY <1>4, <1>5, <1>6, NatSets
<1> QED
  BY <1>1, <1>7 DEF S

\* The last place of a post in a list decides what the list says of it.
LEMMA LatestIs ==
    ASSUME NEW list, Len(list) \in Nat, DOMAIN list = 1..Len(list), NEW p, Q!Has(list, p)
    PROVE  \E i \in 1..Len(list) : /\ list[i].post = p /\ Q!Latest(list, p) = list[i]
                                   /\ \A j \in 1..Len(list) : j > i => list[j].post # p
<1> DEFINE found == {i \in DOMAIN list : list[i].post = p}
           last == CHOOSE i \in found : \A j \in found : j <= i
<1>1. found \in SUBSET (1..Len(list)) /\ found # {}
  BY DEF Q!Has
<1>2. Q!Latest(list, p) = list[last]
  BY DEF Q!Latest
<1>3. last \in found /\ \A j \in found : j <= last
  <2> HIDE DEF found
  <2>1. \E i \in found : \A j \in found : j <= i
    BY <1>1, GreatestOne
  <2> QED
    BY <2>1
<1> HIDE DEF last
<1> QED
  BY <1>1, <1>2, <1>3

Shaped(list) == Len(list) \in Nat /\ DOMAIN list = 1..Len(list)
Hiding(list, p, hiding) ==
    \E i \in 1..Len(list) : /\ list[i].post = p /\ i \in hiding
                            /\ \A j \in 1..Len(list) : j > i => list[j].post # p

\* A pass takes the posts of the list out, and hides those the list hides.
LEMMA PassDecides ==
    ASSUME NEW list, Shaped(list), NEW hiding, NEW acc
    PROVE  LET r == Q!Passed(list, hiding, acc) IN
           /\ \A p : p \in r.pending <=> p \in acc.pending /\ ~Q!Has(list, p)
           /\ \A p : p \in r.hidden <=> p \in acc.hidden \/ (p \in acc.pending /\ Hiding(list, p, hiding))
<1> DEFINE r == Q!Passed(list, hiding, acc)
<1>1. PassGood(list, hiding, acc, Len(list), r)
  BY PassedIs DEF Shaped
<1> HIDE DEF r
<1>2. \A i \in 1..Len(list) : i > Len(list) - Len(list)
  BY DEF Shaped
<1>3. \A p : p \in r.pending <=> p \in acc.pending /\ ~Q!Has(list, p)
  BY <1>1, <1>2 DEF PassGood, Q!Has, Shaped
<1>4. \A p : p \in r.hidden <=> p \in acc.hidden \/ (p \in acc.pending /\ Hiding(list, p, hiding))
  BY <1>1, <1>2 DEF PassGood, Hiding
<1> QED
  BY <1>3, <1>4 DEF r

Both == Shaped(mod.queue) /\ Shaped(mod.reviewed)

\* What one pass finds hidden for a set of posts is what is_post_hidden says of each.
LEMMA HiddenAmongIs ==
    ASSUME Both, NEW ids
    PROVE  \A p \in ids : p \in Q!HiddenAmong(ids) <=> Q!Hidden(p)
<1> DEFINE hidesR == {i \in DOMAIN mod.reviewed : mod.reviewed[i].action \in Q!Hides}
           hidesQ == {i \in DOMAIN mod.queue : mod.queue[i].hidden}
           start == [pending |-> ids, hidden |-> {}]
           a == Q!Passed(mod.reviewed, hidesR, start)
           b == Q!Passed(mod.queue, hidesQ, a)
<1>1. Q!HiddenAmong(ids) = b.hidden
  BY DEF Q!HiddenAmong, Q!Queue, Q!Reviews
<1>2. /\ \A p : p \in a.pending <=> p \in start.pending /\ ~Q!Has(mod.reviewed, p)
      /\ \A p : p \in a.hidden <=> p \in start.hidden \/ (p \in start.pending /\ Hiding(mod.reviewed, p, hidesR))
  <2> HIDE DEF start, hidesR
  <2> QED
    BY PassDecides DEF Both
<1>3. start.pending = ids /\ start.hidden = {}
  OBVIOUS
<1>4. /\ \A p : p \in b.hidden <=> p \in a.hidden \/ (p \in a.pending /\ Hiding(mod.queue, p, hidesQ))
  <2> HIDE DEF a, hidesQ
  <2> QED
    BY PassDecides DEF Both
<1> HIDE DEF start, a, b
<1> SUFFICES ASSUME NEW p \in ids PROVE p \in Q!HiddenAmong(ids) <=> Q!Hidden(p)
  OBVIOUS
<1>5. CASE Q!Has(mod.reviewed, p)
  <2>1. PICK i \in 1..Len(mod.reviewed) :
            /\ mod.reviewed[i].post = p /\ Q!Latest(mod.reviewed, p) = mod.reviewed[i]
            /\ \A j \in 1..Len(mod.reviewed) : j > i => mod.reviewed[j].post # p
    BY <1>5, LatestIs DEF Both, Shaped
  <2>2. Hiding(mod.reviewed, p, hidesR) <=> mod.reviewed[i].action \in Q!Hides
    BY <2>1 DEF Hiding, Both, Shaped
  <2>3. Q!Hidden(p) <=> mod.reviewed[i].action \in Q!Hides
    BY <1>5, <2>1 DEF Q!Hidden
  <2> HIDE DEF hidesR, hidesQ
  <2> QED
    BY <1>1, <1>2, <1>3, <1>4, <1>5, <2>2, <2>3
<1>6. CASE ~Q!Has(mod.reviewed, p) /\ Q!Has(mod.queue, p)
  <2>1. PICK i \in 1..Len(mod.queue) :
            /\ mod.queue[i].post = p /\ Q!Latest(mod.queue, p) = mod.queue[i]
            /\ \A j \in 1..Len(mod.queue) : j > i => mod.queue[j].post # p
    BY <1>6, LatestIs DEF Both, Shaped
  <2>2. Hiding(mod.queue, p, hidesQ) <=> mod.queue[i].hidden
    BY <2>1 DEF Hiding, Both, Shaped
  <2>3. Q!Hidden(p) <=> mod.queue[i].hidden
    BY <1>6, <2>1 DEF Q!Hidden
  <2>4. ~Hiding(mod.reviewed, p, hidesR)
    BY <1>6 DEF Hiding, Q!Has, Both, Shaped
  <2> HIDE DEF hidesR, hidesQ
  <2> QED
    BY <1>1, <1>2, <1>3, <1>4, <1>6, <2>2, <2>3, <2>4
<1>7. CASE ~Q!Has(mod.reviewed, p) /\ ~Q!Has(mod.queue, p)
  <2>1. ~Q!Hidden(p)
    BY <1>7 DEF Q!Hidden
  <2>2. ~Hiding(mod.reviewed, p, hidesR) /\ ~Hiding(mod.queue, p, hidesQ)
    BY <1>7 DEF Hiding, Q!Has, Both, Shaped
  <2> HIDE DEF hidesR, hidesQ
  <2> QED
    BY <1>1, <1>2, <1>3, <1>4, <1>7, <2>1, <2>2
<1> QED
  BY <1>5, <1>6, <1>7

LEMMA FeedAndPage == Both => Q!FeedAgreesWithPage
<1> SUFFICES ASSUME Both, NEW u \in Members
             PROVE  Q!Feed(u) = {p \in DOMAIN posts : Q!Page(p) /\ posts[p].author \notin mod.blocked[u]}
  BY DEF Q!FeedAgreesWithPage
<1> DEFINE rows == {p \in DOMAIN posts : posts[p].live /\ posts[p].author \notin mod.blocked[u]}
<1>1. \A p \in rows : p \in Q!HiddenAmong(rows) <=> Q!Hidden(p)
  <2> HIDE DEF rows
  <2> QED
    BY HiddenAmongIs
<1>2. Q!Feed(u) = rows \ Q!HiddenAmong(rows)
  BY DEF Q!Feed
<1>3. ASSUME NEW p PROVE p \in Q!Feed(u) <=> p \in DOMAIN posts /\ Q!Page(p) /\ posts[p].author \notin mod.blocked[u]
  BY <1>1, <1>2 DEF Q!Page, Q!Live
<1> QED
  BY <1>3

---------------------------------------------------------------------------
(* The two lists stay lists whatever is done.                                *)

IsList(list) == \E E : list \in Seq(E)

LEMMA ListShape == ASSUME NEW list, IsList(list) PROVE Shaped(list)
<1>1. PICK E : list \in Seq(E)
  BY DEF IsList
<1> QED
  BY <1>1 DEF Shaped

LEMMA CommunityCardinality == ASSUME NEW S PROVE Q!Cardinality(S) = Cardinality(S)
BY Zenon DEF Q!Cardinality, Cardinality

LEMMA WithoutIs == ASSUME NEW list, IsList(list), NEW p PROVE IsList(Q!Without(list, p))
<1> DEFINE others == {i \in DOMAIN list : list[i].post # p}
           n == Cardinality(others)
           left(k) == list[Q!Nth(others, k)]
           E == {left(k) : k \in 1..n}
<1>1. n \in Nat
  <2>1. Len(list) \in Nat /\ DOMAIN list = 1..Len(list)
    BY ListShape DEF Shaped
  <2>2. others \subseteq 1..Len(list)
    BY <2>1
  <2>3. IsFiniteSet(1..Len(list))
    BY <2>1, FS_Interval
  <2> HIDE DEF others
  <2>4. IsFiniteSet(others)
    BY <2>2, <2>3, FS_Subset
  <2> QED
    BY <2>4, FS_CardinalityType
<1>2. Q!Without(list, p) = [k \in 1..n |-> left(k)]
  BY CommunityCardinality DEF Q!Without
<1> HIDE DEF n, left
<1>3. [k \in 1..n |-> left(k)] \in [1..n -> E]
  OBVIOUS
<1> HIDE DEF E
<1>4. [k \in 1..n |-> left(k)] \in Seq(E)
  BY <1>1, <1>3
<1> QED
  BY <1>2, <1>4 DEF IsList

LEMMA AppendIs == ASSUME NEW list, IsList(list), NEW x PROVE IsList(Append(list, x))
<1>1. PICK E : list \in Seq(E)
  BY DEF IsList
<1>2. list \in Seq(E \cup {x})
  BY <1>1
<1>3. Append(list, x) \in Seq(E \cup {x})
  BY <1>2
<1> QED
  BY <1>3 DEF IsList

LEMMA KeptIs == ASSUME NEW list, IsList(list) PROVE IsList(Q!Kept(list))
<1>1. PICK E : list \in Seq(E)
  BY DEF IsList
<1>2. CASE Len(list) > MaxReviewed
  <2>1. Len(list) \in Nat /\ MaxReviewed \in Nat /\ Len(list) - MaxReviewed + 1 \in 1..Len(list) + 1
    BY <1>1, <1>2, ReviewsKept
  <2>2. SubSeq(list, Len(list) - MaxReviewed + 1, Len(list)) \in Seq(E)
    BY <1>1, <2>1
  <2> QED
    BY <1>2, <2>2 DEF Q!Kept, IsList
<1>3. CASE ~(Len(list) > MaxReviewed)
  BY <1>3 DEF Q!Kept
<1> QED
  BY <1>2, <1>3

ModGood(m) == {"queue", "reviewed", "rate", "score", "blocked", "reports"} \subseteq DOMAIN m /\ IsList(m.queue) /\ IsList(m.reviewed)
CommunityInv == part = "community" => ModGood(mod)

LEMMA ScoredKeeps == ASSUME NEW m, ModGood(m), NEW u, NEW delta, NEW which PROVE ModGood(Q!Scored(m, u, delta, which))
<1> DEFINE r == Q!Scored(m, u, delta, which)
<1>1. r.queue = m.queue /\ r.reviewed = m.reviewed /\ DOMAIN r = DOMAIN m
  BY DEF Q!Scored, ModGood
<1> HIDE DEF r
<1>2. ModGood(r)
  BY <1>1 DEF ModGood
<1> QED
  BY <1>2 DEF r

LEMMA ReportedKeeps == ASSUME NEW m, ModGood(m), NEW p, NEW target PROVE ModGood(Q!Reported(m, p, target))
<1> DEFINE reports == Append(m.reports, p)
           item == [post |-> p, hidden |-> Q!Cardinality({i \in DOMAIN reports : reports[i] = p}) >= Threshold, target |-> target]
           r == [m EXCEPT !.reports = reports, !.queue = Append(Q!Without(@, p), item)]
<1>1. Q!Reported(m, p, target) = Q!Scored(r, target, -10, "reports")
  BY DEF Q!Reported
<1> HIDE DEF reports, item
<1>2. r.queue = Append(Q!Without(m.queue, p), item) /\ r.reviewed = m.reviewed /\ DOMAIN r = DOMAIN m
  BY DEF ModGood
<1> HIDE DEF r
<1>3. IsList(r.queue)
  BY <1>2, WithoutIs, AppendIs DEF ModGood
<1>4. ModGood(r)
  BY <1>2, <1>3 DEF ModGood
<1> QED
  BY <1>1, <1>4, ScoredKeeps

LEMMA ReviewedKeeps == ASSUME NEW m, ModGood(m), NEW p, NEW action PROVE ModGood(Q!Reviewed(m, p, action))
<1> DEFINE target == IF Q!Has(m.queue, p) THEN Q!Latest(m.queue, p).target ELSE Q!NoOne
           item == [post |-> p, action |-> action]
           r == [m EXCEPT !.queue = Q!Without(@, p), !.reviewed = Q!Kept(Append(@, item))]
<1>1. Q!Reviewed(m, p, action) = IF Q!Lower(action) \in Q!Hides THEN Q!Scored(r, target, -15, "removed") ELSE r
  BY DEF Q!Reviewed
<1> HIDE DEF target, item
<1>2. r.queue = Q!Without(m.queue, p) /\ r.reviewed = Q!Kept(Append(m.reviewed, item)) /\ DOMAIN r = DOMAIN m
  BY DEF ModGood
<1> HIDE DEF r
<1>3. IsList(r.queue)
  BY <1>2, WithoutIs DEF ModGood
<1>4. IsList(r.reviewed)
  BY <1>2, AppendIs, KeptIs DEF ModGood
<1>5. ModGood(r)
  BY <1>2, <1>3, <1>4 DEF ModGood
<1> QED
  BY <1>1, <1>5, ScoredKeeps

LEMMA PublishKeeps == ASSUME NEW c, ModGood(mod), Q!Publish(c) PROVE ModGood(mod')
<1>1. CASE Q!MayPublish(call[c])
  <2>1. mod' = [mod EXCEPT !.rate[call[c].user] = Append(Q!Recent(call[c].user, call[c].now), call[c].now)]
    BY <1>1 DEF Q!Publish
  <2>2. mod'.queue = mod.queue /\ mod'.reviewed = mod.reviewed /\ DOMAIN mod' = DOMAIN mod
    BY <2>1 DEF ModGood
  <2> QED
    BY <2>2 DEF ModGood
<1>2. CASE ~Q!MayPublish(call[c])
  BY <1>2 DEF Q!Publish
<1> QED
  BY <1>1, <1>2

LEMMA BlockKeeps == ASSUME NEW c, NEW u, NEW v, ModGood(mod), Q!Block(c, u, v) PROVE ModGood(mod')
<1>1. mod' = [mod EXCEPT !.blocked[u] = @ \cup {v}]
  BY DEF Q!Block
<1>2. mod'.queue = mod.queue /\ mod'.reviewed = mod.reviewed /\ DOMAIN mod' = DOMAIN mod
  BY <1>1 DEF ModGood
<1> QED
  BY <1>2 DEF ModGood

\* The actions of callers that only touch the database, or nothing.
Aside(c) ==
    \/ \E u \in Members : Q!AskPost(c, u)
    \/ \E u \in Members, p \in Q!Ids : Q!AskReply(c, u, p) \/ Q!AskDelete(c, u, p) \/ Q!Like(c, u, p) \/ Q!Unrepost(c, u, p)
    \/ \E p \in Q!Ids : Q!AskReport(c, p) \/ Q!AskReview(c, p)
    \/ Q!InsertPost(c) \/ Q!InsertReply(c) \/ Q!Delete(c) \/ Q!Fail(c)

LEMMA ModKeeps == ASSUME ModGood(mod), Q!Next \/ UNCHANGED mod PROVE ModGood(mod')
<1>1. CASE Q!Tick
  BY <1>1 DEF Q!Tick
<1>2. ASSUME NEW c \in Posters, Aside(c) PROVE ModGood(mod')
  <2>1. UNCHANGED mod
    BY <1>2 DEF Aside, Q!AskPost, Q!AskReply, Q!AskDelete, Q!Like, Q!Unrepost, Q!AskReport, Q!AskReview, Q!Asked,
                Q!InsertPost, Q!InsertReply, Q!Delete, Q!Fail
  <2> QED
    BY <2>1
<1>3. ASSUME NEW c \in Posters, NEW u \in Members, NEW v \in Members, Q!Block(c, u, v) PROVE ModGood(mod')
  BY <1>3, BlockKeeps
<1>4. ASSUME NEW c \in Posters, Q!Publish(c) PROVE ModGood(mod')
  BY <1>4, PublishKeeps
<1>5. ASSUME NEW c \in Posters, Q!Approve(c) PROVE ModGood(mod')
  BY <1>5, ScoredKeeps DEF Q!Approve
<1>6. ASSUME NEW c \in Posters, Q!Removed(c) PROVE ModGood(mod')
  BY <1>6, ScoredKeeps DEF Q!Removed
<1>7. ASSUME NEW c \in Posters, Q!Report(c) PROVE ModGood(mod')
  BY <1>7, ReportedKeeps DEF Q!Report
<1>8. ASSUME NEW c \in Posters, Q!Review(c) PROVE ModGood(mod')
  BY <1>8, ReviewedKeeps DEF Q!Review
<1>9. CASE UNCHANGED mod
  BY <1>9
<1> QED
  BY <1>1, <1>2, <1>3, <1>4, <1>5, <1>6, <1>7, <1>8, <1>9 DEF Q!Next, Aside

LEMMA CommunityStart == ChannelsInit => CommunityInv
<1> SUFFICES ASSUME ChannelsInit, part = "community" PROVE ModGood(mod)
  BY DEF CommunityInv
<1>1. mod = Q!NoMod
  BY DEF ChannelsInit, PartInit, Q!Init
<1>2. /\ {"queue", "reviewed", "rate", "score", "blocked", "reports"} \subseteq DOMAIN Q!NoMod
      /\ Q!NoMod.queue = <<>> /\ Q!NoMod.reviewed = <<>>
  BY DEF Q!NoMod
<1>3. IsList(<<>>)
  <2>1. <<>> \in Seq({})
    OBVIOUS
  <2> QED
    BY <2>1 DEF IsList
<1> QED
  BY <1>1, <1>2, <1>3 DEF ModGood

LEMMA CommunityStep == [ChannelsNext]_all => part' = part /\ (part = "community" => Q!Next \/ UNCHANGED mod)
<1>1. CASE UNCHANGED all
  BY <1>1 DEF all, communityVars
<1>2. CASE CommunityMoves
  BY <1>2 DEF CommunityMoves
<1>3. CASE RoomsMove
  BY <1>3 DEF RoomsMove
<1>4. CASE PushMoves
  BY <1>4 DEF PushMoves
<1>5. CASE TelegramMoves
  BY <1>5 DEF TelegramMoves
<1>6. CASE NewsMoves
  BY <1>6 DEF NewsMoves
<1>7. CASE BooksMove
  BY <1>7 DEF BooksMove
<1>8. CASE HistoryMoves
  BY <1>8 DEF HistoryMoves
<1>9. CASE PollsMove
  BY <1>9 DEF PollsMove
<1>10. CASE FeedMoves
  BY <1>10 DEF FeedMoves
<1>11. CASE LinksMove
  BY <1>11 DEF LinksMove
<1> QED
  BY <1>1, <1>2, <1>3, <1>4, <1>5, <1>6, <1>7, <1>8, <1>9, <1>10, <1>11 DEF ChannelsNext

CommunityAgrees == part = "community" => Q!FeedAgreesWithPage
CommunityStands == part = "community" => (Q!FeedAgreesWithPage)' /\ Q!ReviewStands

\* Whatever order reports, reviews and deletions come in, the feed hides the posts
\* whose page is hidden, and no report undoes a review (get_hidden_post_ids,
\* is_post_hidden, report, review_report).
THEOREM ModerationHolds == ChannelsSpec => ModerationStands
<1>1. ChannelsInit => CommunityInv
  BY CommunityStart
<1>2. CommunityInv /\ [ChannelsNext]_all => CommunityInv'
  <2> SUFFICES ASSUME CommunityInv, [ChannelsNext]_all, part' = "community" PROVE ModGood(mod')
    BY DEF CommunityInv
  <2>1. part = "community" /\ (Q!Next \/ UNCHANGED mod)
    BY CommunityStep
  <2> QED
    BY <2>1, ModKeeps DEF CommunityInv
<1>3. CommunityInv => CommunityAgrees
  BY FeedAndPage, ListShape DEF CommunityInv, CommunityAgrees, ModGood, Both
<1>4. CommunityAgrees' /\ [ChannelsNext]_all => CommunityStands
  <2> SUFFICES ASSUME CommunityAgrees', [ChannelsNext]_all, part = "community"
               PROVE  (Q!FeedAgreesWithPage)' /\ Q!ReviewStands
    BY DEF CommunityStands
  <2>1. part' = "community"
    BY CommunityStep
  <2>2. (Q!FeedAgreesWithPage)'
    BY <2>1 DEF CommunityAgrees
  <2>3. Q!ReviewStands
    BY DEF Q!ReviewStands, Q!Hidden
  <2> QED
    BY <2>2, <2>3
<1>5. ChannelsSpec => [][CommunityStands]_all
  BY <1>1, <1>2, <1>3, <1>4, PTL DEF ChannelsSpec
<1>6. [][CommunityStands]_all <=> ModerationStands
  BY PTL DEF CommunityStands, ModerationStands
<1> QED
  BY <1>5, <1>6, PTL

=============================================================================
