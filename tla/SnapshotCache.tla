--------------------------- MODULE SnapshotCache ---------------------------
(***************************************************************************)
(* The market snapshot: one JSON file in the runtime directory, and in     *)
(* every process a copy in memory (app/cache/snapshot_cache.py).  The      *)
(* threads of a process build snapshots (generate_market_snapshot), add    *)
(* the AI tools to the published one (ai_worker), or only read.            *)
(***************************************************************************)
EXTENDS Integers, FiniteSets

CONSTANTS
    Engines,   \* threads that run generate_market_snapshot
    Helpers,   \* threads that run the AI worker's cycle
    Readers,   \* request threads that only read
    Proc,      \* the process of each thread
    MaxTime,   \* bound: readings of the clock
    MaxWrites  \* bound: writes of the file

Threads == Engines \cup Helpers \cup Readers
Procs == {Proc[t] : t \in Threads}

ASSUME SnapshotAssumption ==
    /\ MaxTime \in Nat \ {0} /\ MaxWrites \in Nat
    /\ Engines \cap Helpers = {} /\ Readers \cap (Engines \cup Helpers) = {}
    /\ DOMAIN Proc = Threads

VARIABLES
    now,     \* the clock, which no two readings find at the same time
    file,    \* the JSON file, its modification time counted in writes
    mem,     \* per process: payload, last good payload and bookkeeping
    thread   \* per thread: where it is in its call, and its locals
vars == <<now, file, mem, thread>>

---------------------------------------------------------------------------
(***************************************************************************)
(* A payload is its generation (generated_at), its source, the generation  *)
(* whose rows its AI tools were derived from (0: it has none), whether a   *)
(* helper kept its own tools since these rows yielded none, and the time   *)
(* of its publication (updated_at, 0: never published).                    *)
(***************************************************************************)
Sources == {"live", "fallback", "empty"}
Payload == [gen : 0..MaxTime, src : Sources, tools : 0..MaxTime, kept : BOOLEAN, upd : 0..MaxTime]

EmptyPayload == [gen |-> 0, src |-> "empty", tools |-> 0, kept |-> FALSE, upd |-> 0]

HasRows(p) == p.src # "empty"

\* What _payload_signature hashes: everything but the publication time (rows
\* and data_status repeat the generation).
Signature(p) == <<p.gen, p.src, p.tools>>
NoSignature == <<>>

\* Mutant: any snapshot with rows is taken for a good one.
PromotableRows(p) == HasRows(p)

Promotable(p) == p.src = "live"

File == [pay : Payload, ts : 0..MaxTime, good : Payload, goodTs : 0..MaxTime,
         mtime : 0..MaxWrites]
NoFile == [pay |-> EmptyPayload, ts |-> 0, good |-> EmptyPayload, goodTs |-> 0, mtime |-> 0]

FreshMemory ==
    [pay |-> EmptyPayload, ts |-> 0, good |-> EmptyPayload, goodTs |-> 0,
     mtime |-> 0, written |-> FALSE, diskSig |-> NoSignature]

IdleThread == [pc |-> "idle", goal |-> "serve", pay |-> EmptyPayload, t |-> 0, raw |-> NoFile]

Init ==
    /\ now = 1
    /\ file = NoFile
    /\ mem = [p \in Procs |-> FreshMemory]
    /\ thread = [t \in Threads |-> IdleThread]

M(t) == mem[Proc[t]]
ClockRead == now < MaxTime /\ now' = now + 1
SetThread(t, f) == thread' = [thread EXCEPT ![t] = f]
SetMem(t, m) == mem' = [mem EXCEPT ![Proc[t]] = m]

---------------------------------------------------------------------------
(* Reading: every read first takes over a newer file.                      *)

\* The file is read when its modification time moved, or nothing was loaded.
NeedsReload(t) == file.mtime > M(t).mtime

\* get, get_last_good: look at the file, outside the lock.
Look(t, goal) ==
    /\ SetThread(t, [thread[t] EXCEPT
                        !.pc = IF NeedsReload(t) THEN "read" ELSE "got",
                        !.goal = goal,
                        !.raw = IF NeedsReload(t) THEN file ELSE NoFile])
    /\ UNCHANGED <<now, file, mem>>

\* The payload in the file replaces the one in memory when it was written
\* after the one in memory was generated, or the memory is empty.
Accepts(m, raw) == raw.ts > (IF m.pay.gen > 0 THEN m.pay.gen ELSE m.ts) \/ m.ts = 0

\* Mutant: the modification time is read when the content is merged.
MtimeAtMerge(raw) == file.mtime

\* read_json_file_consistent returns the time of the file it has read.
LoadedMtime(raw) == raw.mtime

Merged(m, raw) ==
    LET pay == IF Accepts(m, raw) THEN raw.pay ELSE m.pay
        ts == IF Accepts(m, raw) THEN raw.ts ELSE m.ts
        better == raw.goodTs > m.goodTs
    IN [pay |-> pay, ts |-> ts,
        good |-> IF better THEN raw.good ELSE m.good,
        goodTs |-> IF better THEN raw.goodTs ELSE m.goodTs,
        mtime |-> LoadedMtime(raw), written |-> TRUE, diskSig |-> Signature(pay)]

\* Under the lock: take over what was read from the file.
Merge(t) ==
    /\ thread[t].pc = "read"
    /\ SetMem(t, Merged(M(t), thread[t].raw))
    /\ SetThread(t, [thread[t] EXCEPT !.pc = "got", !.raw = NoFile])
    /\ UNCHANGED <<now, file>>

---------------------------------------------------------------------------
(* Producing.                                                              *)

\* The tools of rows: build_ai_payload_bundle may yield none for them, or fail.
Yield(src, gen) == IF src = "empty" THEN {0} ELSE {0, gen}

\* build_snapshot_payload: rows get a new generation and tools of their own.
Built(src) == {[EmptyPayload EXCEPT !.gen = now, !.src = src, !.tools = n] : n \in Yield(src, now)}

\* generate_market_snapshot with signals, or with what the engine found.
Generate(t) ==
    /\ thread[t].pc = "idle" /\ t \in Engines \cup Helpers
    /\ \E pay \in Built("live") :
          SetThread(t, [thread[t] EXCEPT !.pc = "built", !.goal = "generated", !.pay = pay])
    /\ ClockRead
    /\ UNCHANGED <<file, mem>>

\* Without signals, or after an exception: the last good rows, marked stale.
GenerateFallback(t) ==
    thread[t].pc = "idle" /\ t \in Engines \cup Helpers /\ Look(t, "fallback")

\* _snapshot_self_heal without signals: the published snapshot, and the last good
\* one when the published one is empty or has become old.
Healed(m) == IF HasRows(m.good) THEN {m.good} \cup {p \in {m.pay} : HasRows(p)} ELSE {m.pay}

\* What a helper without signals holds of it: with tools built from the rows, or as
\* it is where it has no rows.
Held(pay) ==
    IF HasRows(pay) THEN {[pay EXCEPT !.tools = n, !.kept = FALSE] : n \in Yield(pay.src, pay.gen)}
    ELSE {pay}

\* The AI worker without signals works on what the self heal left it.
CycleBegin(t) == thread[t].pc = "idle" /\ t \in Helpers /\ Look(t, "hold")

\* ... and looks again before it publishes.
CycleAgain(t) == thread[t].pc = "held" /\ Look(t, "base")

Serve(t) == thread[t].pc = "idle" /\ t \in Readers /\ Look(t, "serve")

\* _published_snapshot_if_newer
Base(held, current) == IF current.upd > held.upd THEN current ELSE held

\* Mutant: the tools of the held snapshot on whatever was found.
ShippedAsHeld(held, base) == {[base EXCEPT !.tools = held.tools, !.kept = held.kept]}

\* The tools of the held snapshot; on another generation those of its own rows, and
\* the held ones where these yield none (_rederive_ai_tools(base) or ai_tools).
Shipped(held, base) ==
    IF base.gen = held.gen THEN {[base EXCEPT !.tools = held.tools, !.kept = held.kept]}
    ELSE {IF n # 0 THEN [base EXCEPT !.tools = n, !.kept = FALSE]
          ELSE [base EXCEPT !.tools = held.tools, !.kept = TRUE] : n \in Yield(base.src, base.gen)}

\* Under the lock: what the caller came for.
Take(t) ==
    /\ thread[t].pc = "got"
    /\ LET l == thread[t]
           cur == M(t).pay
       IN \/ /\ l.goal = "serve"
             /\ SetThread(t, IdleThread)
             /\ UNCHANGED now
          \/ /\ l.goal = "fallback"
             /\ ClockRead
             /\ \E pay \in Built(IF HasRows(M(t).good) THEN "fallback" ELSE "empty") :
                    SetThread(t, [l EXCEPT !.pc = "built", !.goal = "generated", !.pay = pay])
          \/ /\ l.goal = "hold"
             /\ \E found \in Healed(M(t)) : \E held \in Held(found) :
                    SetThread(t, IF held.tools # 0 THEN [l EXCEPT !.pc = "held", !.pay = held]
                                 ELSE IdleThread)
             /\ UNCHANGED now
          \/ /\ l.goal = "base"
             /\ \E pay \in Shipped(l.pay, Base(l.pay, cur)) :
                    SetThread(t, [l EXCEPT !.pc = "built", !.goal = "shipped", !.pay = pay])
             /\ UNCHANGED now
    /\ UNCHANGED <<file, mem>>

---------------------------------------------------------------------------
(* Publishing: update().                                                   *)

\* The time of publication is read before the locks are taken.
Stamp(t) ==
    /\ thread[t].pc = "built"
    /\ SetThread(t, [thread[t] EXCEPT !.pc = "stamped", !.t = now,
                                      !.pay = [@ EXCEPT !.upd = now]])
    /\ ClockRead
    /\ UNCHANGED <<file, mem>>

\* _disk_write_lock is held from the publication in memory to the end of the write.
DiskLockFree(t) ==
    \A o \in Threads : Proc[o] = Proc[t] => thread[o].pc \notin {"writing", "wrote"}

IsStaleGeneration(t) ==
    /\ M(t).pay.gen > 0
    /\ thread[t].pay.gen > 0 /\ thread[t].pay.gen < M(t).pay.gen

\* A helper that generated a snapshot with tools goes on with it as the one it
\* holds: the copy it was returned, which has no publication time.
Finished(t) ==
    IF t \in Helpers /\ thread[t].goal = "generated" /\ thread[t].pay.tools # 0
    THEN [thread[t] EXCEPT !.pc = "held", !.pay = [@ EXCEPT !.upd = 0], !.t = 0]
    ELSE IdleThread

Refuse(t) ==
    /\ thread[t].pc = "stamped" /\ DiskLockFree(t) /\ IsStaleGeneration(t)
    /\ SetThread(t, Finished(t))
    /\ UNCHANGED <<now, file, mem>>

\* The memory after the publication; its bookkeeping of the file is not touched.
Published(m, pay, t) ==
    LET keep == ~HasRows(pay) /\ Promotable(m.pay)
    IN [m EXCEPT !.pay = pay, !.ts = t,
                 !.good = IF Promotable(pay) THEN pay ELSE IF keep THEN m.pay ELSE @,
                 !.goodTs = IF Promotable(pay) THEN t
                            ELSE IF keep /\ m.ts > 0 THEN m.ts ELSE @]

\* Unchanged content is written again only after the minimum interval.
Publish(t) ==
    LET l == thread[t]
        m == Published(M(t), l.pay, l.t)
        same == m.written /\ m.diskSig = Signature(l.pay)
    IN
    /\ l.pc = "stamped" /\ DiskLockFree(t) /\ ~IsStaleGeneration(t)
    /\ SetMem(t, m)
    /\ \/ /\ file.mtime < MaxWrites
          /\ SetThread(t, [l EXCEPT !.pc = "writing",
                  !.raw = [pay |-> m.pay, ts |-> m.ts, good |-> m.good, goodTs |-> m.goodTs,
                           mtime |-> 0]])
       \/ same /\ SetThread(t, Finished(t))
    /\ UNCHANGED <<now, file>>

\* write_json_file_atomic: a private temporary file replaces the old one at
\* once, or nothing happens.
WriteDisk(t) ==
    /\ thread[t].pc = "writing" /\ file.mtime < MaxWrites
    /\ file' = [thread[t].raw EXCEPT !.mtime = file.mtime + 1]
    /\ SetThread(t, [thread[t] EXCEPT !.pc = "wrote"])
    /\ UNCHANGED <<now, mem>>

WriteFails(t) ==
    /\ thread[t].pc = "writing"
    /\ SetThread(t, Finished(t))
    /\ UNCHANGED <<now, file, mem>>

\* The bookkeeping is kept only when the memory is still what was written; the
\* modification time is read back from the file, whoever wrote it.
Bookkeep(t) ==
    LET l == thread[t]
        unmoved == Signature(M(t).pay) = Signature(l.pay) /\ M(t).ts = l.t
    IN
    /\ l.pc = "wrote"
    /\ IF unmoved
       THEN SetMem(t, [M(t) EXCEPT !.mtime = file.mtime, !.written = TRUE,
                                   !.diskSig = Signature(l.pay)])
       ELSE UNCHANGED mem
    /\ SetThread(t, Finished(t))
    /\ UNCHANGED <<now, file>>

---------------------------------------------------------------------------
(* A process dies and starts again: its memory and its calls are gone.     *)
Restart(p) ==
    /\ mem' = [mem EXCEPT ![p] = FreshMemory]
    /\ thread' = [t \in Threads |-> IF Proc[t] = p THEN IdleThread ELSE thread[t]]
    /\ UNCHANGED <<now, file>>

Read(t) == Serve(t) \/ Merge(t) \/ Take(t)
Update(t) == Stamp(t) \/ Refuse(t) \/ Publish(t) \/ WriteDisk(t) \/ WriteFails(t) \/ Bookkeep(t)
Produce(t) == Generate(t) \/ GenerateFallback(t) \/ CycleBegin(t) \/ CycleAgain(t)

Next ==
    \/ \E t \in Threads : Read(t) \/ Update(t) \/ Produce(t)
    \/ \E p \in Procs : Restart(p)

Spec == Init /\ [][Next]_vars

(***************************************************************************)
(* Requests keep coming and a call that began ends; nothing is assumed of  *)
(* the producers' schedule, the clock, or the process' life.               *)
(***************************************************************************)
FairSpec ==
    /\ Spec
    /\ \A t \in Readers : WF_vars(Read(t))
    /\ \A t \in Engines \cup Helpers : WF_vars(Merge(t) \/ Take(t) \/ CycleAgain(t) \/ Update(t))

---------------------------------------------------------------------------
Memory == [pay : Payload, ts : 0..MaxTime, good : Payload, goodTs : 0..MaxTime,
           mtime : 0..MaxWrites, written : BOOLEAN,
           diskSig : {NoSignature} \cup (0..MaxTime) \X Sources \X (0..MaxTime)]
Thread == [pc : {"idle", "read", "got", "held", "built", "stamped", "writing", "wrote"},
           goal : {"serve", "fallback", "hold", "base", "generated", "shipped"},
           pay : Payload, t : 0..MaxTime, raw : File]

\* The clock, the file, every memory and every call in progress keep their types.
TypeOK ==
    /\ now \in 1..MaxTime /\ file \in File
    /\ mem \in [Procs -> Memory]
    /\ thread \in [Threads -> Thread]

(***************************************************************************)
(* Whatever is published, lost, restarted or loaded, in memory and in the  *)
(* file: the last good snapshot is never one of the degraded ones          *)
(* (_is_promotable_last_good).                                             *)
(***************************************************************************)
LastGoodIsGood ==
    \A m \in {mem[p] : p \in Procs} \cup {file} : m.good.src \in {"live", "empty"}
                                                /\ (m.good.src = "live" => m.good.gen > 0)

(***************************************************************************)
(* A served snapshot shows AI tools of another generation beside its rows  *)
(* only where a helper rebuilt them and these rows yielded none ("Shipping *)
(* onto a different generation would present prices and scores that        *)
(* generation never had", ai_worker.py).                                   *)
(***************************************************************************)
ToolsBelongToRows ==
    \A m \in {mem[p] : p \in Procs} \cup {file} :
        \A pay \in {m.pay, m.good} : ~pay.kept => pay.tools \in {0, pay.gen}

(***************************************************************************)
(* Once the producers rest, a process that only reads serves what the file *)
(* holds: no write is missed for good, however reads and writes overlap.   *)
(***************************************************************************)
ReadingProcs == {p \in Procs : \A t \in Threads : Proc[t] = p => t \in Readers}
Rest == \A t \in Engines \cup Helpers : thread[t].pc = "idle"
ReadersCatchUp ==
    <>[]Rest /\ <>[][\A p \in Procs : ~Restart(p)]_vars
        => \A p \in ReadingProcs : <>[](mem[p].pay = file.pay)

(***************************************************************************)
(* What the comment in _is_stale_generation says: neither loading nor      *)
(* publishing moves the snapshot of a process backwards.  The code does    *)
(* not keep it: a load compares the time of the write in the file with the *)
(* time of the generation in memory.                                       *)
(***************************************************************************)
NeverBackwards ==
    [][\A p \in Procs : mem'[p].pay.gen >= mem[p].pay.gen \/ Restart(p)]_vars
=============================================================================
