----------------------------- MODULE QuoteCache -----------------------------
(***************************************************************************)
(* Quotes: one JSON file, in every process a copy in memory, and threads   *)
(* that refresh a chunk of symbols at the provider                         *)
(* (app/market/market_data_loader.py, app/system/quote_warmup.py).  The    *)
(* public routes answer from memory and then from the file                 *)
(* (app/services/public_market_data_service.py).                           *)
(***************************************************************************)
EXTENDS Integers, FiniteSets

CONSTANTS
    Symbols,    \* symbols of the refreshed universe
    Reference,  \* of a mini future, the symbol whose quote stands in for it
    Procs,      \* processes
    Warmers,    \* threads that refresh quotes
    Proc,       \* the process of each thread
    Chunks,     \* the chunks of symbols each thread refreshes
    Ttl, Cooldown, Fresh, Retention,  \* the ages the code compares with
    MaxTime,    \* bound: ticks of the clock
    MaxRuns     \* bound: refreshes of each thread

ASSUME QuoteAssumption ==
    /\ IsFiniteSet(Symbols)
    /\ Reference \in [Symbols -> Symbols \cup {"none"}] /\ "none" \notin Symbols
    /\ Proc \in [Warmers -> Procs] /\ Chunks \in [Warmers -> SUBSET SUBSET Symbols]
    /\ Ttl \in Nat /\ Cooldown \in Nat /\ Fresh \in Nat /\ Retention \in Nat
    /\ MaxTime \in Nat \ {0} /\ MaxRuns \in Nat

VARIABLES
    now,     \* the clock
    file,    \* the JSON file, its modification time counted in writes
    mem,     \* per process: the cached quotes and what it knows of the file
    failed,  \* per process and symbol: when the provider failed last (0: never, or forgotten)
    rested,  \* per process and symbol: until when the warm-up leaves a symbol alone
    job      \* per thread: where it is in its refresh
vars == <<now, file, mem, failed, rested, job>>

---------------------------------------------------------------------------
(***************************************************************************)
(* A cached quote: when it was cached (ts, 0: there is none), when the     *)
(* provider observed it (obs), and what its payload says of itself: marked *)
(* stale, standing in for another contract, with a volume.                 *)
(***************************************************************************)
NoQuote == [ts |-> 0, obs |-> 0, stale |-> FALSE, ref |-> FALSE, dirty |-> FALSE]
Quote == [ts : 0..MaxTime, obs : 0..MaxTime, stale : BOOLEAN, ref : BOOLEAN, dirty : BOOLEAN]
NoQuotes == [s \in Symbols |-> NoQuote]

FreshMemory == [quotes |-> NoQuotes, mtime |-> 0, all |-> FALSE]
IdleJob == [pc |-> "idle", todo |-> {}, batch |-> {}, multi |-> FALSE, got |-> {}, asked |-> 0,
            sym |-> "none", pay |-> NoQuote, alone |-> FALSE, changed |-> FALSE,
            resolved |-> FALSE, chunk |-> {}, copy |-> NoQuotes, runs |-> 0]

Rest(t) == [IdleJob EXCEPT !.runs = job[t].runs]

Init ==
    /\ now = 1
    /\ file = [quotes |-> NoQuotes, mtime |-> 0]
    /\ mem = [p \in Procs |-> FreshMemory]
    /\ failed = [p \in Procs |-> [s \in Symbols |-> 0]]
    /\ rested = [p \in Procs |-> [s \in Symbols |-> 0]]
    /\ job = [t \in Warmers |-> IdleJob]

Known(q) == q.ts > 0
Old(q) == now - q.ts > Ttl
Cooling(p, s) == failed[p][s] > 0 /\ now - failed[p][s] < Cooldown
Resting(p, s) == Cooling(p, s) \/ rested[p][s] > now

---------------------------------------------------------------------------
(* Reading the cache.                                                        *)

\* Mutant: a newer modification time is enough to take the quote of the file.
DiskWinsAlways(held, disk, stale) == Known(disk) /\ (stale \/ ~Old(disk))

\* A quote of the file replaces the one in memory when memory has none, or has
\* an older one that it does not still have to write.
DiskWins(held, disk, stale) ==
    /\ Known(disk) /\ (stale \/ ~Old(disk))
    /\ ~Known(held) \/ (~held.dirty /\ held.ts < disk.ts)

MustLoad(m, stale, force) == force \/ file.mtime > m.mtime \/ (stale /\ ~m.all)

Loaded(m, stale, force) ==
    IF MustLoad(m, stale, force)
    THEN [quotes |-> [s \in Symbols |->
                          IF DiskWins(m.quotes[s], file.quotes[s], stale)
                          THEN [file.quotes[s] EXCEPT !.dirty = FALSE] ELSE m.quotes[s]],
          mtime |-> file.mtime, all |-> m.all \/ stale]
    ELSE [m EXCEPT !.all = @ \/ stale]

\* What a reader gets of a cached quote: an old one says that it is stale, and
\* only a reader that allows it gets it.
Shown(q, stale) ==
    IF ~Known(q) \/ (Old(q) /\ ~stale) THEN NoQuote ELSE [q EXCEPT !.stale = @ \/ Old(q)]

\* Memory after a read: when nothing is known the file is read again; a public
\* read does so too when what is known is too old for it.
ReadFor(m, s, stale) == Loaded(Loaded(m, stale, FALSE), stale, ~Known(Loaded(m, stale, FALSE).quotes[s]))
PublicRead(m, s, stale) ==
    Loaded(Loaded(m, stale, FALSE), stale, ~Known(Shown(Loaded(m, stale, FALSE).quotes[s], stale)))

CachedPayload(m, s, stale) == Shown(ReadFor(m, s, stale).quotes[s], stale)

\* The file itself, read by a public route: what it says of its age replaces
\* what the payload says; a stand-in is no answer.
Direct(s, stale) ==
    LET q == file.quotes[s] IN
    IF ~Known(q) \/ q.ref \/ now - q.ts > Retention \/ (now - q.ts > Fresh /\ ~stale)
    THEN NoQuote ELSE [q EXCEPT !.stale = now - q.ts > Fresh]

\* A public route answers from memory, and where memory has nothing, from the file.
PublicAnswer(p, s, stale) ==
    LET q == Shown(PublicRead(mem[p], s, stale).quotes[s], stale) IN
    IF Known(q) /\ ~q.ref THEN q ELSE Direct(s, stale)

---------------------------------------------------------------------------
SetJob(t, f) == job' = [job EXCEPT ![t] = f]
SetMem(t, m) == mem' = [mem EXCEPT ![Proc[t]] = m]
M(t) == mem[Proc[t]]
Failing(p, S) == failed' = [failed EXCEPT ![p] = [s \in Symbols |-> IF s \in S THEN now ELSE @[s]]]
Forgetting(p, s) == failed' = [failed EXCEPT ![p][s] = 0]

Tick == now < MaxTime /\ now' = now + 1 /\ UNCHANGED <<file, mem, failed, rested, job>>

\* A request of a public route only loads.
Serve(p, s, stale) ==
    /\ mem' = [mem EXCEPT ![p] = PublicRead(@, s, stale)]
    /\ UNCHANGED <<now, file, failed, rested, job>>

\* A process restarts with nothing in memory; its threads start again.
Restart(p) ==
    /\ mem' = [mem EXCEPT ![p] = FreshMemory]
    /\ failed' = [failed EXCEPT ![p] = [s \in Symbols |-> 0]]
    /\ rested' = [rested EXCEPT ![p] = [s \in Symbols |-> 0]]
    /\ job' = [t \in Warmers |-> IF Proc[t] = p THEN Rest(t) ELSE job[t]]
    /\ UNCHANGED <<now, file>>

---------------------------------------------------------------------------
(* A refresh: get_price_snapshots of one chunk, called by warm_quotes_once.  *)

Put(m, s, q, dirty) == [m EXCEPT !.quotes[s] = [q EXCEPT !.ts = now, !.dirty = dirty]]

\* The quote that stands in for a mini future: its reference's, when not old.
StandIn(m, s) ==
    IF Reference[s] = "none" THEN NoQuote
    ELSE [CachedPayload(m, Reference[s], FALSE) EXCEPT !.ref = TRUE]

\* The chunk is skipped when all of it rests.  A mini future whose reference is
\* known gets its quote before the batch.  Neither it nor the symbols that cool
\* down are in the batch, but they stay in the list that is settled after it.
Begin(t, S) ==
    /\ job[t].pc = "idle" /\ job[t].runs < MaxRuns /\ \E s \in S : ~Resting(Proc[t], s)
    /\ \E m \in {Loaded(M(t), FALSE, FALSE)}, cool \in {{s \in S : Cooling(Proc[t], s)}} :
       \E given \in {{s \in S \ cool : Known(StandIn(m, s))}} :
        /\ SetMem(t, [m EXCEPT !.quotes = [s \in Symbols |->
                          IF s \in given THEN [StandIn(m, s) EXCEPT !.ts = now, !.dirty = TRUE] ELSE @[s]]])
        /\ failed' = [failed EXCEPT ![Proc[t]] = [s \in Symbols |-> IF s \in given THEN 0 ELSE @[s]]]
        /\ SetJob(t, [IdleJob EXCEPT !.pc = "ask", !.runs = job[t].runs + 1, !.todo = S, !.chunk = S, !.batch = S \ (cool \cup given),
                                     !.multi = Cardinality(S \ (cool \cup given)) > 1,
                                     !.changed = given # {}, !.resolved = given \cup cool # {}])
    /\ UNCHANGED <<now, file, rested>>

\* batch_download: the provider answers for some of the symbols; when it
\* answers for none, all of them fail.
Ask(t) ==
    /\ job[t].pc = "ask"
    /\ \E got \in SUBSET job[t].batch :
        /\ SetJob(t, [job[t] EXCEPT !.pc = "settle", !.got = got, !.asked = now])
        /\ IF got = {} THEN Failing(Proc[t], job[t].batch) ELSE UNCHANGED failed
    /\ UNCHANGED <<now, file, mem, rested>>

Observed(at) == [NoQuote EXCEPT !.ts = at, !.obs = at]
Held(t, s, pay, alone) ==
    SetJob(t, [job[t] EXCEPT !.pc = "hold", !.sym = s, !.pay = pay, !.alone = alone, !.todo = @ \ {s}])

\* The batch has the symbol.
TakeAnswer(t, s) ==
    /\ job[t].pc = "settle" /\ s \in job[t].todo \cap job[t].got
    /\ Held(t, s, Observed(job[t].asked), FALSE)
    /\ UNCHANGED <<now, file, mem, failed, rested>>

Missing(t, s) == job[t].pc = "settle" /\ s \in job[t].todo \ job[t].got
AsksAlone(t, s) == ~Cooling(Proc[t], s) /\ (job[t].multi => ~Known(CachedPayload(M(t), s, TRUE)))

\* The batch has not: of a larger batch, the cached quote however old is taken
\* first; a symbol that cools down is not asked for again.
TakeCached(t, s) ==
    /\ Missing(t, s) /\ ~AsksAlone(t, s)
    /\ SetMem(t, ReadFor(M(t), s, TRUE))
    /\ Held(t, s, CachedPayload(M(t), s, TRUE), FALSE)
    /\ UNCHANGED <<now, file, failed, rested>>

\* ... and one that does not is asked for alone (fast_info; get_price_snapshot),
\* a mini future through its reference.
TakeAlone(t, s) ==
    /\ Missing(t, s) /\ AsksAlone(t, s)
    /\ \E m \in {ReadFor(M(t), s, TRUE)}, alone \in {~job[t].multi} :
        \/ /\ alone /\ Known(StandIn(m, s))
           /\ SetMem(t, m) /\ Held(t, s, StandIn(m, s), TRUE) /\ Forgetting(Proc[t], s)
        \/ /\ ~(alone /\ Known(StandIn(m, s)))
           /\ SetMem(t, m) /\ Held(t, s, Observed(now), alone) /\ Forgetting(Proc[t], s)
        \/ /\ alone /\ Reference[s] # "none" /\ ~Known(StandIn(m, s))
           /\ SetMem(t, Put(m, Reference[s], Observed(now), FALSE))
           /\ Held(t, s, [Observed(now) EXCEPT !.ref = TRUE], TRUE) /\ Forgetting(Proc[t], s)
        \/ /\ ~(alone /\ Known(StandIn(m, s)))
           /\ SetMem(t, m) /\ Held(t, s, CachedPayload(m, s, TRUE), FALSE) /\ Failing(Proc[t], {s})
    /\ UNCHANGED <<now, file, rested>>

\* Mutant: a quote taken from the cache is not counted as a change.
ChangesOnlyIfNew(t) == job[t].changed \/ (Known(job[t].pay) /\ job[t].pay.obs = job[t].asked)

\* cache_changed: every quote put into memory has to be written.
Changes(t) == job[t].changed \/ Known(job[t].pay)

\* _cache_price_payload: whatever was taken is cached as of now and the
\* provider's failure is forgotten.  Alone, it is also written at once.
Cache(t) ==
    /\ job[t].pc = "hold"
    /\ \E q \in {job[t].pay}, s \in {job[t].sym} :
        /\ SetMem(t, IF Known(q) THEN Put(M(t), s, q, ~job[t].alone) ELSE M(t))
        /\ IF Known(q) THEN Forgetting(Proc[t], s) ELSE Failing(Proc[t], {s})
        /\ SetJob(t, [job[t] EXCEPT !.pc = IF job[t].alone THEN "write" ELSE "settle",
                                    !.changed = Changes(t), !.resolved = @ \/ Known(q)])
    /\ UNCHANGED <<now, file, rested>>

\* A chunk without an answer rests.
Settled(t) ==
    /\ job[t].pc = "settle" /\ job[t].todo = {}
    /\ SetJob(t, IF job[t].changed THEN [job[t] EXCEPT !.pc = "write"] ELSE Rest(t))
    /\ rested' = IF job[t].resolved THEN rested
                 ELSE [rested EXCEPT ![Proc[t]] =
                          [s \in Symbols |-> IF s \in job[t].chunk THEN now + Fresh ELSE @[s]]]
    /\ UNCHANGED <<now, file, mem, failed>>

---------------------------------------------------------------------------
(* _persist_price_cache, one thread of a process at a time.                  *)

Persisting(p) == \E t \in Warmers : Proc[t] = p /\ job[t].pc \in {"copied", "replaced"}

\* What is in memory over what is in the file.
Copy(t) ==
    /\ job[t].pc = "write" /\ ~Persisting(Proc[t])
    /\ SetJob(t, [job[t] EXCEPT !.pc = "copied",
           !.copy = [s \in Symbols |-> IF Known(M(t).quotes[s]) THEN [M(t).quotes[s] EXCEPT !.dirty = FALSE]
                                       ELSE file.quotes[s]]])
    /\ UNCHANGED <<now, file, mem, failed, rested>>

Replace(t) ==
    /\ job[t].pc = "copied"
    /\ file' = [quotes |-> job[t].copy, mtime |-> file.mtime + 1]
    /\ SetJob(t, [job[t] EXCEPT !.pc = "replaced", !.copy = NoQuotes])
    /\ UNCHANGED <<now, mem, failed, rested>>

\* All quotes in memory count as written, and the file as read.  After a quote
\* written alone, the refresh caches it once more and goes on.
Clear(t) ==
    /\ job[t].pc = "replaced"
    /\ SetMem(t, [M(t) EXCEPT !.mtime = file.mtime,
                              !.quotes = [s \in Symbols |-> [@[s] EXCEPT !.dirty = FALSE]]])
    /\ SetJob(t, IF job[t].alone THEN [job[t] EXCEPT !.pc = "hold", !.alone = FALSE] ELSE Rest(t))
    /\ UNCHANGED <<now, file, failed, rested>>

Settle(t) == \E s \in Symbols : TakeAnswer(t, s) \/ TakeCached(t, s) \/ TakeAlone(t, s)
Refresh(t) ==
    \/ \E S \in Chunks[t] : Begin(t, S)
    \/ Ask(t) \/ Settle(t) \/ Cache(t) \/ Settled(t) \/ Copy(t) \/ Replace(t) \/ Clear(t)

Next ==
    \/ Tick
    \/ \E p \in Procs : Restart(p) \/ (\E s \in Symbols, stale \in BOOLEAN : Serve(p, s, stale))
    \/ \E t \in Warmers : Refresh(t)

Spec == Init /\ [][Next]_vars

---------------------------------------------------------------------------
\* No reload, write or refresh of any thread puts a quote in the place of one
\* that the same process cached later (_load_price_cache_once, _cache_price_payload).
QuotesMoveForward ==
    [][\A p \in Procs, s \in Symbols :
          mem'[p].quotes[s].ts >= mem[p].quotes[s].ts \/ mem'[p] = FreshMemory]_vars

\* Where one process refreshes, at rest the file holds every quote of its memory,
\* whichever of its threads' writes overlapped (_persist_price_cache).
RestLosesNoQuote ==
    \A p \in Procs :
        (\A t \in Warmers : Proc[t] = p /\ job[t].pc = "idle")
            => \A s \in Symbols : file.quotes[s].ts >= mem[p].quotes[s].ts

\* An answer that does not say it is stale was observed within the fresh age.
FreshAnswerIsRecent ==
    \A p \in Procs, s \in Symbols, stale \in BOOLEAN :
        LET q == PublicAnswer(p, s, stale) IN
        Known(q) /\ ~q.stale => now - q.obs <= Fresh
===========================================================================
