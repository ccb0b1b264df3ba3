----------------------------- MODULE BatchCache -----------------------------
(***************************************************************************)
(* The intraday bars of many symbols downloaded in one call and kept for a *)
(* minute (app/cache/market_data_cache.py): one payload per process, which *)
(* a payload for other symbols replaces as a whole.                        *)
(***************************************************************************)
EXTENDS Integers, FiniteSets

CONSTANTS
    Symbols,   \* provider symbols that are neither invalid nor blocked
    Callers,   \* threads that ask for data
    Limit,     \* MAX_CACHE_SYMBOLS
    Ttl,       \* CACHE_TTL
    Cooldown,  \* PROVIDER_FAILURE_COOLDOWN_SECONDS
    MaxTime    \* bound on the clock

BatchConstants ==
    /\ Limit \in Nat \ {0} /\ Ttl \in Nat \ {0} /\ Cooldown \in Nat /\ MaxTime \in Nat

VARIABLES
    now,
    cache,   \* the payload, the symbols it is taken to cover, and its time
    rest,    \* _provider_cooldown_until
    caller   \* per thread: where it is, its key and clock, and its last answer
vars == <<now, cache, rest, caller>>

\* A payload holds columns of some symbols, named in it only if "multi".
Nothing == [symbols |-> {}, multi |-> FALSE]
Empty == [data |-> Nothing, key |-> {}, at |-> 0]
NoAnswer == [from |-> "nobody", data |-> {}, at |-> 0]
Idle == [pc |-> "idle", key |-> {}, since |-> 0, answer |-> NoAnswer]

Init == now = 0 /\ cache = Empty /\ rest = 0 /\ caller = [c \in Callers |-> Idle]

Set(c, f) == caller' = [caller EXCEPT ![c] = f]

---------------------------------------------------------------------------
\* _extract_subset: an unnamed payload is given only to who asks for one symbol.
Subset(data, key) ==
    IF data.multi THEN data.symbols \cap key
    ELSE IF Cardinality(key) = 1 THEN data.symbols ELSE {}

\* _cache_satisfies
Satisfies(key, t) == cache.data # Nothing /\ t - cache.at < Ttl /\ key \subseteq cache.key

\* Mutant: a partial answer of the provider covers all that was asked for.
PresentAsked(data, key) == key

\* _available_symbols: what the payload tells it holds.
Present(data, key) ==
    IF data.multi THEN data.symbols \cap key
    ELSE IF Cardinality(key) = 1 THEN key ELSE {}

\* _store_cache_locked: the first symbols up to the limit, in the payload's order.
Stored(data, key, t) ==
    LET present == Present(data, key)
    IN  IF present = {} THEN {cache}
        ELSE IF Cardinality(present) <= Limit THEN {[data |-> data, key |-> present, at |-> t]}
        ELSE {[data |-> [data EXCEPT !.symbols = Subset(data, first)], key |-> first, at |-> t] :
                 first \in {s \in SUBSET present : Cardinality(s) = Limit}}

---------------------------------------------------------------------------
\* What leaves a critical section: an answer with the time of its data.
Answered(c, from, data, at) ==
    Set(c, [caller[c] EXCEPT !.pc = "idle", !.answer = [from |-> from, data |-> data, at |-> at]])
FromCache(c) == Answered(c, "cache", Subset(cache.data, caller[c].key), cache.at)

Tick == now < MaxTime /\ now' = now + 1 /\ UNCHANGED <<cache, rest, caller>>

\* get_market_data: the clock is read before the lock is asked for.
Ask(c) ==
    /\ caller[c].pc = "idle"
    /\ \E key \in (SUBSET Symbols) \ {{}} : Set(c, [pc |-> "asked", key |-> key, since |-> now, answer |-> NoAnswer])
    /\ UNCHANGED <<now, cache, rest>>

Look(c) ==
    /\ caller[c].pc = "asked"
    /\ IF Satisfies(caller[c].key, caller[c].since) THEN FromCache(c)
       ELSE Set(c, [caller[c] EXCEPT !.pc = "waiting"])
    /\ UNCHANGED <<now, cache, rest>>

\* _refresh_lock; the cache may have been filled while the thread waited.  A call
\* made for an HTTP request may not download; which calls are is left open.
Refreshing(c) == caller[c].pc = "download"
Enter(c) ==
    /\ caller[c].pc = "waiting" /\ \A d \in Callers : ~Refreshing(d)
    /\ IF Satisfies(caller[c].key, now) THEN FromCache(c)
       ELSE \/ Answered(c, "nobody", {}, 0)
            \/ now >= rest /\ Set(c, [caller[c] EXCEPT !.pc = "download", !.since = now])
    /\ UNCHANGED <<now, cache, rest>>

\* The answer is taken from the whole payload.
Deliver(c) ==
    /\ Refreshing(c)
    /\ \E symbols \in (SUBSET caller[c].key) \ {{}}, multi \in BOOLEAN :
          LET data == [symbols |-> symbols, multi |-> multi]
          IN  /\ cache' \in Stored(data, caller[c].key, caller[c].since)
              /\ Answered(c, "provider", Subset(data, caller[c].key), caller[c].since)
    /\ UNCHANGED <<now, rest>>

\* Nothing, or an error, after which the provider rests.  The cache is asked
\* again with the clock from before the download.
Fail(c) ==
    /\ Refreshing(c)
    /\ rest' = IF now + Cooldown > rest THEN now + Cooldown ELSE rest
    /\ IF Satisfies(caller[c].key, caller[c].since) THEN FromCache(c) ELSE Answered(c, "nobody", {}, 0)
    /\ UNCHANGED <<now, cache>>

\* MarketDataCacheCompatibility.clear
Clear == cache' = Empty /\ rest' = 0 /\ UNCHANGED <<now, caller>>

Next ==
    \/ \E c \in Callers : Ask(c) \/ Look(c) \/ Enter(c) \/ Deliver(c) \/ Fail(c)
    \/ Tick \/ Clear

Spec == Init /\ [][Next]_vars

---------------------------------------------------------------------------
Payload == [symbols : SUBSET Symbols, multi : BOOLEAN]
TypeOK ==
    /\ now \in Nat /\ rest \in Nat
    /\ cache \in [data : Payload, key : SUBSET Symbols, at : Nat]
    /\ caller \in [Callers -> [pc : {"idle", "asked", "waiting", "download"}, key : SUBSET Symbols, since : Nat,
                               answer : [from : {"cache", "provider", "nobody"}, data : SUBSET Symbols, at : Nat]]]

\* An answer from the cache holds every symbol that was asked for, whatever
\* partial, capped or unnamed payloads were stored (_store_cache_locked), and its
\* data was asked for less than the time to live before the caller looked at the
\* clock; one thread downloads at a time.
AnswersAreWhole ==
    /\ \A c, d \in Callers : Refreshing(c) /\ Refreshing(d) => c = d
    /\ \A c \in Callers : caller[c].answer.from = "cache" =>
          caller[c].key \subseteq caller[c].answer.data /\ caller[c].since - caller[c].answer.at < Ttl
============================================================================
