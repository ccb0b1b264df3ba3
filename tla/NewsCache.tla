------------------------------- MODULE NewsCache -------------------------------
(***************************************************************************)
(* The news of one ticker in the memory of two processes and in the file   *)
(* they share (app/services/news_service.py), and what refreshes them: the *)
(* requests of pages, each served by a thread of the API's process, and    *)
(* the worker's rounds (app/system/news_warmup.py).  An entry is kept per  *)
(* locale; that of another locale is translated.                           *)
(***************************************************************************)
EXTENDS Integers, FiniteSets, Sequences, SequencesExt, FiniteSetsExt

CONSTANTS
    Locales,
    TTL, Interval, Pause,  \* of an entry, between rounds, after an empty answer
    MaxTime, MaxCalls, MaxAsks, MaxCrashes  \* bounds: ticks of the clock, calls, pages, restarts

VARIABLES
    now, calls, asks, crashes,
    file, version,  \* the entries in the file, and how often it was written
    memory, seen,   \* per process: its entries, and the version it has read
    requests,       \* per locale: when it was last asked for, 0: not
    edit,           \* per process: a change of the request file before it is written
    pause,          \* per process: until when the ticker rests
    round,          \* the last round of the worker
    task,           \* what is being warmed
    early           \* the provider was called again within the time to live
vars == <<now, calls, asks, crashes, file, version, memory, seen, requests, edit, pause, round, task, early>>

Procs == {"api", "worker"}
Tasks == Locales \cup {"worker"}  \* a thread per locale that pages asked for, and the worker
ProcOf(t) == IF t = "worker" THEN "worker" ELSE "api"

Cold == [ts |-> 0, checked |-> 0, stories |-> FALSE]
NoTask == [pc |-> "idle", queue |-> <<>>, warmed |-> FALSE, at |-> 0, snapshot |-> <<>>]
NoEdit == [l \in Locales |-> -1]

Init ==
    /\ now = 1 /\ calls = 0 /\ asks = 0 /\ crashes = 0 /\ version = 0
    /\ file = [l \in Locales |-> Cold] /\ memory = [p \in Procs |-> file]
    /\ seen = [p \in Procs |-> 0] /\ round = 1 - Interval
    /\ requests = [l \in Locales |-> 0] /\ edit = [p \in Procs |-> NoEdit]
    /\ pause = [p \in Procs |-> 0]
    /\ task = [t \in Tasks |-> NoTask]
    /\ early = FALSE

---------------------------------------------------------------------------
(* Entries                                                                   *)

Newer(a, b) == a.ts > b.ts \/ (a.ts = b.ts /\ a.checked > b.checked)

\* _merge_news_cache_records: the newer entry of each locale.
Merged(existing, incoming) == [l \in Locales |-> IF Newer(incoming[l], existing[l]) THEN incoming[l] ELSE existing[l]]

\* _load_news_cache_once
Loaded(p) == IF seen[p] = version THEN memory[p] ELSE Merged(memory[p], file)
Load(p, entries) == memory' = [memory EXCEPT ![p] = entries] /\ seen' = [seen EXCEPT ![p] = version]

Fresh(e, t) == e.stories /\ t - e.ts < TTL

\* _latest_news_cache_entry_locked: the latest entry of another locale.
Alternate(entries, l) ==
    LET others == {m \in Locales \ {l} : entries[m] # Cold}
    IN IF others = {} THEN Cold ELSE entries[CHOOSE m \in others : \A k \in others : entries[k].ts <= entries[m].ts]

\* A reader without an entry takes that of another locale.
Translated(entries, l) == IF entries[l] = Cold THEN [entries EXCEPT ![l] = Alternate(entries, l)] ELSE entries

\* get_symbol_news: what is fresh at time t, in this locale or in another.
Served(entries, l, t) == Fresh(entries[l], t) \/ Fresh(Alternate(entries, l), t)
Kept(entries, l, t) == IF Fresh(entries[l], t) THEN entries ELSE [entries EXCEPT ![l] = Alternate(entries, l)]

---------------------------------------------------------------------------
(* The request file.  The lock of an edit is one of its process.             *)

Unlocked(p) == edit[p] = NoEdit
Edit(p, changed) == edit' = [edit EXCEPT ![p] = changed]

\* _drop_warmed_requests: those of every locale.
Drop(p) == Unlocked(p) /\ Edit(p, [l \in Locales |-> 0])

Write(p) ==
    /\ ~Unlocked(p)
    /\ requests' = edit[p] /\ edit' = [edit EXCEPT ![p] = NoEdit]
    /\ UNCHANGED <<now, calls, asks, crashes, file, version, memory, seen, pause, round, task, early>>

Idle(t) == task[t].pc = "idle"

\* build_public_news_payload, request_news_warmup: a page whose entry is old, or
\* holds fewer stories than it shows, asks for news; a thread warms them.
Ask(l) ==
    /\ Unlocked("api") /\ asks < MaxAsks /\ asks' = asks + 1
    /\ \E entries \in {Translated(Loaded("api"), l)} : Load("api", entries)
    /\ Edit("api", [requests EXCEPT ![l] = now])
    /\ task' = IF Idle(l) /\ pause["api"] <= now THEN [task EXCEPT ![l] = [NoTask EXCEPT !.pc = "check", !.queue = <<l>>]] ELSE task
    /\ UNCHANGED <<now, calls, crashes, file, version, requests, pause, round, early>>

\* warm_news_once: what was asked for, the latest first, then the default locale.
Default == CHOOSE l \in Locales : TRUE
Asked == SetToSortSeq({l \in Locales : requests[l] > 0}, LAMBDA l, m : requests[l] > requests[m])
Round ==
    /\ Idle("worker") /\ Unlocked("worker") /\ now - round >= Interval
    /\ task' = [task EXCEPT !["worker"] = [NoTask EXCEPT !.pc = "check",
           !.queue = IF requests[Default] > 0 THEN Asked ELSE Append(Asked, Default)]]
    /\ round' = now
    /\ UNCHANGED <<now, calls, asks, crashes, file, version, memory, seen, requests, edit, pause, early>>

---------------------------------------------------------------------------
(* Warming                                                                   *)

At(t, pc) == task[t].pc = pc
Locale(t) == Head(task[t].queue)

\* One locale is done; a thread has no other.
Done(t, warm) ==
    task' = [task EXCEPT ![t] = [pc |-> IF Len(@.queue) = 1 THEN "end" ELSE "check", queue |-> Tail(@.queue),
                                 warmed |-> @.warmed \/ warm, at |-> 0, snapshot |-> <<>>]]

\* Fresh news need no call, and the worker leaves a resting ticker alone.
Enough(t) ==
    /\ At(t, "check")
    /\ \E entries \in {Translated(Loaded(ProcOf(t)), Locale(t))} :
           /\ \/ Served(entries, Locale(t), now) /\ Load(ProcOf(t), Kept(entries, Locale(t), now)) /\ Done(t, TRUE)
              \/ t = "worker" /\ pause["worker"] > now /\ UNCHANGED <<memory, seen>> /\ Done(t, FALSE)
    /\ UNCHANGED <<now, calls, asks, crashes, file, version, requests, edit, pause, round, early>>

\* The time of the call is taken before the lock of the ticker.
Want(t) ==
    /\ At(t, "check") /\ ~(t = "worker" /\ pause["worker"] > now)
    /\ \E entries \in {Translated(Loaded(ProcOf(t)), Locale(t))} : ~Served(entries, Locale(t), now) /\ Load(ProcOf(t), entries)
    /\ task' = [task EXCEPT ![t].pc = "wait", ![t].at = now]
    /\ UNCHANGED <<now, calls, asks, crashes, file, version, requests, edit, pause, round, early>>

\* The lock of the ticker, one in each process.
Alone(t) == \A u \in Tasks \ {t} : ProcOf(u) = ProcOf(t) => task[u].pc \notin {"call", "empty", "persist"}

Enter(t) ==
    /\ At(t, "wait") /\ Alone(t)
    /\ IF Served(memory[ProcOf(t)], Locale(t), task[t].at)
       THEN /\ memory' = [memory EXCEPT ![ProcOf(t)] = Kept(@, Locale(t), task[t].at)]
            /\ Done(t, TRUE)
            /\ UNCHANGED <<calls, early>>
       ELSE /\ calls < MaxCalls /\ calls' = calls + 1
            /\ task' = [task EXCEPT ![t].pc = "call"]
            /\ \E e \in {memory[ProcOf(t)][Locale(t)]} : early' = (early \/ (e # Cold /\ now - e.checked < TTL))
            /\ UNCHANGED memory
    /\ UNCHANGED <<now, asks, crashes, file, version, seen, requests, edit, pause, round>>

\* _set_news_cache_entry_locked, and _persist_news_cache copies what is to be written.
Set(t, e) ==
    \E entries \in {[memory[ProcOf(t)] EXCEPT ![Locale(t)] = e]} :
        /\ memory' = [memory EXCEPT ![ProcOf(t)] = entries]
        /\ task' = [task EXCEPT ![t].pc = "persist", ![t].snapshot = entries]

Answer(t) ==
    /\ At(t, "call")
    /\ Set(t, [ts |-> task[t].at, checked |-> task[t].at, stories |-> TRUE])
    /\ UNCHANGED <<now, calls, asks, crashes, file, version, seen, requests, edit, pause, round, early>>

\* Stories the ticker has, in this locale or else in another.
Old(entries, l) == IF entries[l].stories THEN entries[l] ELSE Alternate(entries, l)

\* No story: the old ones stay, and keep their time.
AnswerEmpty(t) ==
    /\ At(t, "call")
    /\ LET old == Old(memory[ProcOf(t)], Locale(t)) IN
           \/ old.stories /\ Set(t, [old EXCEPT !.checked = task[t].at])
           \/ ~old.stories /\ task' = [task EXCEPT ![t].pc = "empty"] /\ UNCHANGED memory
    /\ UNCHANGED <<now, calls, asks, crashes, file, version, seen, requests, edit, pause, round, early>>

\* The lock of the cache was given up meanwhile.
Empty(t) ==
    /\ At(t, "empty")
    /\ Set(t, [ts |-> task[t].at, checked |-> task[t].at, stories |-> FALSE])
    /\ UNCHANGED <<now, calls, asks, crashes, file, version, seen, requests, edit, pause, round, early>>

\* Mutant: what is in the file is overwritten.
Overwritten(snapshot, onDisk) == snapshot

\* _persist_news_cache: under the lock of the file.
Written(snapshot, onDisk) == Merged(snapshot, onDisk)

After(t) ==
    IF task[t].snapshot[Locale(t)].stories THEN Done(t, TRUE) /\ UNCHANGED pause
    ELSE Done(t, FALSE) /\ pause' = [pause EXCEPT ![ProcOf(t)] = now + Pause]

Persist(t) ==
    /\ At(t, "persist")
    /\ \E entries \in {Written(task[t].snapshot, file)} :
           /\ file' = entries /\ version' = version + 1
           /\ memory' = [memory EXCEPT ![ProcOf(t)] = Merged(entries, @)]
           /\ seen' = [seen EXCEPT ![ProcOf(t)] = version + 1]
    /\ After(t)
    /\ UNCHANGED <<now, calls, asks, crashes, requests, edit, round, early>>

\* The lock of the file was not obtained in time, or the disk is full.
PersistFails(t) ==
    /\ At(t, "persist") /\ After(t)
    /\ UNCHANGED <<now, calls, asks, crashes, file, version, memory, seen, requests, edit, round, early>>

End(t) ==
    /\ At(t, "end")
    /\ IF task[t].warmed THEN Drop(ProcOf(t)) ELSE UNCHANGED edit
    /\ task' = [task EXCEPT ![t] = NoTask]
    /\ UNCHANGED <<now, calls, asks, crashes, file, version, memory, seen, requests, pause, round, early>>

Tick == now < MaxTime /\ now' = now + 1 /\ UNCHANGED <<calls, asks, crashes, file, version, memory, seen, requests, edit, pause, round, task, early>>

\* A restart: the memory, the pause and what was being warmed are gone.
Crash(p) ==
    /\ crashes < MaxCrashes /\ crashes' = crashes + 1
    /\ memory' = [memory EXCEPT ![p] = [l \in Locales |-> Cold]] /\ seen' = [seen EXCEPT ![p] = -1]
    /\ edit' = [edit EXCEPT ![p] = NoEdit] /\ pause' = [pause EXCEPT ![p] = 0]
    /\ task' = [t \in Tasks |-> IF ProcOf(t) = p THEN NoTask ELSE task[t]]
    /\ round' = IF p = "worker" THEN 1 - Interval ELSE round
    /\ UNCHANGED <<now, calls, asks, file, version, requests, early>>

Warming(t) == Enough(t) \/ Want(t) \/ Enter(t) \/ Answer(t) \/ AnswerEmpty(t) \/ Empty(t) \/ Persist(t) \/ PersistFails(t) \/ End(t)

Next ==
    \/ Tick \/ Round
    \/ \E l \in Locales : Ask(l)
    \/ \E t \in Tasks : Warming(t)
    \/ \E p \in Procs : Write(p) \/ Crash(p)

Spec == Init /\ [][Next]_vars

---------------------------------------------------------------------------
\* What the processes share never goes back: whoever writes the file late, and
\* whatever it had in memory, every locale keeps its newest entry
\* (_persist_news_cache).
MovesForward == \A l \in Locales : ~Newer(file[l], file'[l])
FileMovesForward == [][MovesForward]_vars

\* A process calls the provider at most once in the time to live of an entry
\* (get_symbol_news).  The code does not keep it.
OneCallPerTTL == ~early

\* An answer without stories never takes the place of stories (get_symbol_news).  The code
\* does not keep it.
StoriesStay == [][\A l \in Locales : file[l].stories => file'[l].stories]_vars
================================================================================
