---------------------------- MODULE TelegramAlerts ----------------------------
(***************************************************************************)
(* Alerts to the Telegram channel (app/telegram/telegram_alert_engine.py): *)
(* what may be sent, the fingerprints and cooldowns that keep an alert     *)
(* from being sent twice, and a transport that may repeat a request.       *)
(***************************************************************************)
EXTENDS Integers, FiniteSets, Sequences, SequencesExt

CONSTANTS
    Senders,            \* threads that dispatch
    Signals,            \* the rows of a snapshot
    Cooldown, MaxBatch,
    Retries,            \* how often the session repeats a request
    MaxTime, MaxCalls   \* bounds: ticks of the clock, batches

VARIABLES
    now, calls,
    fingerprints,  \* the time an alert was reserved or sent, 0: not
    cooldowns,     \* until when an equivalent alert rests
    sender,        \* what each thread has still to send
    overdue,       \* alerts of which a request outlasted their cooldown
    arrived,       \* when the last message of an alert that the channel received was sent
    twice          \* an alert was received twice within its cooldown
vars == <<now, calls, fingerprints, cooldowns, sender, overdue, arrived, twice>>

---------------------------------------------------------------------------
(* build_telegram_alert                                                      *)

Levels == <<"critical", "high", "medium">>

\* classify_telegram_alert
Level(s) ==
    IF /\ s.final = "confirmed" /\ s.priority = "critical" /\ s.conviction = "very high"
       /\ s.operational = "READY" /\ s.audit = "APPROVED" THEN "critical"
    ELSE IF s.final = "confirmed" /\ s.priority = "high" /\ s.conviction = "high" THEN "high"
    ELSE IF s.final = "forming" /\ s.priority = "medium" /\ s.conviction = "moderate" THEN "medium"
    ELSE "none"

\* _blocking_reason, the kill switches, and the access to the channel, which has
\* to be on the row.
Blocked(s) ==
    \/ s.switched \/ ~s.ready \/ s.operational = "BLOCKED" \/ s.audit = "BLOCKED"
    \/ s.noTradeNow \/ s.final = "no trade" \/ ~s.access
Prepared(s) == ~Blocked(s) /\ Level(s) # "none"

\* telegram_alert_fingerprint and _cooldown_key: the reason tells two alerts
\* apart, but they are equivalent.
Fingerprint(s) == <<s.ticker, s.final, s.priority, s.conviction, s.operational, s.audit, s.reason>>
Equivalent(s) == <<s.ticker, s.final, Level(s)>>

Alerts == {s \in Signals : Prepared(s)}
Fingerprints == {Fingerprint(s) : s \in Alerts}
Keys == {Equivalent(s) : s \in Alerts}

Idle == [pc |-> "idle", batch |-> <<>>, at |-> 0]

Init ==
    /\ now = 1 /\ calls = 0
    /\ fingerprints = [f \in Fingerprints |-> 0]
    /\ cooldowns = [k \in Keys |-> 0]
    /\ sender = [p \in Senders |-> Idle] /\ overdue = {}
    /\ arrived = cooldowns /\ twice = FALSE

---------------------------------------------------------------------------
(* send_bulk_alert, _dispatch_prepared_alert                                 *)

Rank(s) == CHOOSE i \in DOMAIN Levels : Levels[i] = Level(s)

\* In the order of their level, the best first; the rest of the batch is discarded.
Batches(rows) ==
    {SubSeq(b, 1, IF Len(b) < MaxBatch THEN Len(b) ELSE MaxBatch) :
        b \in {q \in SetToAllKPermutations(rows) :
                  Len(q) = Cardinality(rows) /\ \A i, j \in DOMAIN q : i < j => Rank(q[i]) <= Rank(q[j])}}

Call(p) ==
    /\ sender[p].pc = "idle" /\ calls < MaxCalls /\ calls' = calls + 1
    /\ \E rows \in SUBSET Signals : \E b \in Batches({s \in rows : Prepared(s)}) :
           sender' = [sender EXCEPT ![p] = [pc |-> "next", batch |-> b, at |-> 0]]
    /\ UNCHANGED <<now, fingerprints, cooldowns, overdue, arrived, twice>>

Current(p) == Head(sender[p].batch)
Done(p) == sender' = [sender EXCEPT ![p] = [pc |-> IF Len(@.batch) = 1 THEN "idle" ELSE "next", batch |-> Tail(@.batch), at |-> 0]]

\* Mutant: the fingerprint of an alert that is being sent is not taken.
Unreserved(f) == fingerprints

\* An alert is reserved before the lock is given up.
Reserved(f) == [fingerprints EXCEPT ![f] = now]

Repeats(s) == fingerprints[Fingerprint(s)] # 0 /\ now - fingerprints[Fingerprint(s)] < Cooldown
Rests(s) == cooldowns[Equivalent(s)] > now

PassOver(p) ==
    /\ sender[p].pc = "next" /\ sender[p].batch # <<>> /\ (Repeats(Current(p)) \/ Rests(Current(p)))
    /\ Done(p)
    /\ UNCHANGED <<now, calls, fingerprints, cooldowns, overdue, arrived, twice>>

Posting(p) == sender[p].pc = "post"
Posted == {Fingerprint(Current(p)) : p \in {q \in Senders : Posting(q)}}

\* Nobody sends the alert: how long its requests took does not matter any more.
Reserve(p) ==
    /\ sender[p].pc = "next" /\ sender[p].batch # <<>> /\ ~Repeats(Current(p)) /\ ~Rests(Current(p))
    /\ fingerprints' = Reserved(Fingerprint(Current(p)))
    /\ sender' = [sender EXCEPT ![p].pc = "post", ![p].at = now]
    /\ overdue' = overdue \ ({Fingerprint(Current(p))} \ Posted)
    /\ UNCHANGED <<now, calls, cooldowns, arrived, twice>>

\* Nothing to send.
Return(p) ==
    /\ sender[p].pc = "next" /\ sender[p].batch = <<>>
    /\ sender' = [sender EXCEPT ![p] = Idle]
    /\ UNCHANGED <<now, calls, fingerprints, cooldowns, overdue, arrived, twice>>

\* n copies of the message arrive.
Arrives(p, n) ==
    LET k == Equivalent(Current(p)) IN
    /\ arrived' = IF n = 0 THEN arrived ELSE [arrived EXCEPT ![k] = sender[p].at]
    /\ twice' = (twice \/ n > 1 \/ (n = 1 /\ arrived[k] # 0 /\ sender[p].at - arrived[k] < Cooldown))

\* The channel answered: earlier tries may have arrived unanswered.
Sent(p) ==
    /\ sender[p].pc = "post"
    /\ \E n \in 1..Retries + 1 : Arrives(p, n)
    /\ fingerprints' = [fingerprints EXCEPT ![Fingerprint(Current(p))] = sender[p].at]
    /\ cooldowns' = [cooldowns EXCEPT ![Equivalent(Current(p))] = sender[p].at + Cooldown]
    /\ Done(p)
    /\ UNCHANGED <<now, calls, overdue>>

\* A read that times out is ambiguous, and its alert stays reserved.  A session
\* that repeats requests raises it only after its last try, as a failed connection.
Unknown(p) ==
    /\ sender[p].pc = "post" /\ Retries = 0
    /\ \E n \in 0..1 : Arrives(p, n)
    /\ Done(p)
    /\ UNCHANGED <<now, calls, fingerprints, cooldowns, overdue>>

Failed(p) ==
    /\ sender[p].pc = "post"
    /\ \E n \in IF Retries = 0 THEN {0} ELSE 0..Retries + 1 : Arrives(p, n)
    /\ LET f == Fingerprint(Current(p)) IN
           fingerprints' = [fingerprints EXCEPT ![f] = IF @ = sender[p].at THEN 0 ELSE @]
    /\ Done(p)
    /\ UNCHANGED <<now, calls, cooldowns, overdue>>

\* A request may take any time: its tries have time-outs, but the session waits
\* between them as long as an answer 429 asks for.
Overdue == {Fingerprint(Current(p)) : p \in {q \in Senders : Posting(q) /\ now + 1 - sender[q].at >= Cooldown}}
Tick ==
    /\ now < MaxTime /\ now' = now + 1
    /\ overdue' = overdue \cup Overdue
    /\ UNCHANGED <<calls, fingerprints, cooldowns, sender, arrived, twice>>

Next == Tick \/ \E p \in Senders : Call(p) \/ PassOver(p) \/ Reserve(p) \/ Return(p) \/ Sent(p) \/ Unknown(p) \/ Failed(p)

Spec == Init /\ [][Next]_vars

---------------------------------------------------------------------------
\* While two threads send the same alert, a request of it has outlasted the
\* cooldown: the first reserves it before it gives up the lock
\* (_dispatch_prepared_alert).
OneSenderPerAlert ==
    \A p, q \in Senders : p # q /\ Posting(p) /\ Posting(q) /\ Fingerprint(Current(p)) = Fingerprint(Current(q))
        => Fingerprint(Current(p)) \in overdue

\* A message that may have arrived is not sent again within the cooldown
\* (_send_alert_transport).  The code does not keep it: the session repeats it.
NotSentTwice == ~twice
=============================================================================
