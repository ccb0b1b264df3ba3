---------------------------- MODULE SignalCache ----------------------------
(***************************************************************************)
(* The signals of the last engine cycle (app/cache/signal_cache_layer.py): *)
(* one JSON file in the runtime directory and a copy in the memory of each *)
(* process, which the engine replaces and everybody else reads.            *)
(*                                                                         *)
(* Memory is changed under one lock and the file under another, and a load *)
(* reads the file under neither.                                           *)
(***************************************************************************)
EXTENDS Integers, FiniteSets

CONSTANTS
    Engines,    \* threads that publish signals (run_engine)
    Clients,    \* threads that read them
    Keepers,    \* threads that clear them
    Proc,       \* the process of each thread
    MaxBatches, \* bound on the batches published
    MaxClears,  \* bound on the clears of a process between two restarts
    MaxWrites   \* bound: no clear begins once the file was written so often

Users == Engines \cup Clients \cup Keepers
Processes == {Proc[t] : t \in Users}

SignalConstants ==
    /\ DOMAIN Proc = Users /\ MaxBatches \in Nat /\ MaxClears \in Nat /\ MaxWrites \in Nat
    /\ Engines \cap Clients = {} /\ Keepers \cap (Engines \cup Clients) = {}

VARIABLES
    now,     \* the clock, which tells every batch from the others
    file,    \* the file: its batch, and its modification time counted in writes
    mem,     \* per process: batch, modification time it has seen, clears
    thread   \* per thread: where it is in its call
vars == <<now, file, mem, thread>>

\* A batch is the time of its update; 0 is none.
File == [batch : Nat, mtime : Nat]
NoFile == [batch |-> 0, mtime |-> 0]
FreshMemory == [batch |-> 0, mtime |-> 0, epoch |-> 0]
Idle == [pc |-> "idle", batch |-> 0, epoch |-> 0, raw |-> NoFile]

Init ==
    /\ now = 0 /\ file = NoFile
    /\ mem = [p \in Processes |-> FreshMemory]
    /\ thread = [t \in Users |-> Idle]

M(t) == mem[Proc[t]]
SetMem(t, m) == mem' = [mem EXCEPT ![Proc[t]] = m]
Set(t, f) == thread' = [thread EXCEPT ![t] = f]
At(t, pc) == thread[t].pc = pc

\* _disk_write_lock
DiskFree(t) == \A u \in Users : Proc[u] = Proc[t] => thread[u].pc \notin {"write", "stat", "clear", "forget"}

---------------------------------------------------------------------------
(* update: signals that are empty leave everything as it is.               *)

Stamp(t) ==
    /\ At(t, "idle") /\ now < MaxBatches /\ now' = now + 1
    /\ Set(t, [Idle EXCEPT !.pc = "publish", !.batch = now'])
    /\ UNCHANGED <<file, mem>>

Publish(t) ==
    /\ At(t, "publish")
    /\ SetMem(t, [M(t) EXCEPT !.batch = thread[t].batch])
    /\ Set(t, [thread[t] EXCEPT !.pc = "copy", !.epoch = M(t).epoch])
    /\ UNCHANGED <<now, file>>

\* _write_to_disk: not if the memory holds another batch by now.
Copy(t) ==
    /\ At(t, "copy") /\ DiskFree(t)
    /\ Set(t, IF M(t).batch = thread[t].batch /\ M(t).epoch = thread[t].epoch
              THEN [thread[t] EXCEPT !.pc = "write"] ELSE Idle)
    /\ UNCHANGED <<now, file, mem>>

Replaced(batch) == [batch |-> batch, mtime |-> file.mtime + 1]

Write(t) ==
    /\ At(t, "write")
    /\ file' = Replaced(thread[t].batch)
    /\ Set(t, [thread[t] EXCEPT !.pc = "stat"])
    /\ UNCHANGED <<now, mem>>

\* Mutant: whatever the memory holds by now is taken for what was written.
StatAlways(m, batch) == [m EXCEPT !.mtime = file.mtime]

\* The file is known only if the memory still holds what was written to it.
Stat(m, batch) == IF m.batch = batch THEN [m EXCEPT !.mtime = file.mtime] ELSE m

Finish(t) ==
    /\ At(t, "stat")
    /\ SetMem(t, Stat(M(t), thread[t].batch)) /\ Set(t, Idle)
    /\ UNCHANGED <<now, file>>

---------------------------------------------------------------------------
(* get, get_top, age, size                                                 *)

\* A file that is already known is not read, and the memory is served.
Look(t) ==
    /\ At(t, "idle") /\ file.mtime > M(t).mtime
    /\ Set(t, [Idle EXCEPT !.pc = "read"])
    /\ UNCHANGED <<now, file, mem>>

\* read_json_file_consistent: content and modification time belong together.
Read(t) ==
    /\ At(t, "read")
    /\ Set(t, [thread[t] EXCEPT !.pc = "install", !.raw = file])
    /\ UNCHANGED <<now, file, mem>>

Install(t) ==
    /\ At(t, "install")
    /\ SetMem(t, [M(t) EXCEPT !.batch = thread[t].raw.batch, !.mtime = thread[t].raw.mtime])
    /\ Set(t, Idle)
    /\ UNCHANGED <<now, file>>

---------------------------------------------------------------------------
(* clear                                                                   *)

Clear(t) ==
    /\ At(t, "idle") /\ DiskFree(t) /\ M(t).epoch < MaxClears /\ file.mtime < MaxWrites
    /\ SetMem(t, [M(t) EXCEPT !.batch = 0, !.epoch = @ + 1])
    /\ Set(t, [Idle EXCEPT !.pc = "clear"])
    /\ UNCHANGED <<now, file>>

\* The write may fail, and the old file then counts as known.
ClearFile(t) ==
    /\ At(t, "clear")
    /\ file' = Replaced(0) \/ UNCHANGED file
    /\ Set(t, [thread[t] EXCEPT !.pc = "forget"])
    /\ UNCHANGED <<now, mem>>

Forget(t) ==
    /\ At(t, "forget")
    /\ SetMem(t, [M(t) EXCEPT !.mtime = file.mtime]) /\ Set(t, Idle)
    /\ UNCHANGED <<now, file>>

---------------------------------------------------------------------------
\* A directory, a read or a write that fails is logged and the call ends; what
\* was published stays in memory.
Fail(t) ==
    /\ thread[t].pc \in {"copy", "write", "stat", "read"} /\ Set(t, Idle)
    /\ UNCHANGED <<now, file, mem>>

Restart(p) ==
    /\ mem' = [mem EXCEPT ![p] = FreshMemory]
    /\ thread' = [t \in Users |-> IF Proc[t] = p THEN Idle ELSE thread[t]]
    /\ UNCHANGED <<now, file>>

Next ==
    \/ \E t \in Engines : Stamp(t) \/ Publish(t) \/ Copy(t) \/ Write(t) \/ Finish(t)
    \/ \E t \in Clients : Look(t) \/ Read(t) \/ Install(t)
    \/ \E t \in Keepers : Clear(t) \/ ClearFile(t) \/ Forget(t)
    \/ \E t \in Users : Fail(t)
    \/ \E p \in Processes : Restart(p)

Spec == Init /\ [][Next]_vars

---------------------------------------------------------------------------
TypeOK ==
    /\ now \in 0..MaxBatches /\ file \in File
    /\ mem \in [Processes -> [batch : 0..MaxBatches, mtime : Nat, epoch : 0..MaxClears]]
    /\ thread \in [Users -> [pc : {"idle", "publish", "copy", "write", "stat", "read", "install", "clear", "forget"},
                               batch : 0..MaxBatches, epoch : 0..MaxClears, raw : File]]

\* Where one engine publishes, a process that has not cleared the signals never
\* takes the file for known and serves older ones than it holds, whatever loads,
\* writes and clears overlapped: it would serve them until the next cycle
\* (_write_to_disk, _load_from_disk_if_needed).
KnownIsServed ==
    \A p \in Processes : mem[p].epoch = 0 /\ mem[p].mtime = file.mtime => mem[p].batch >= file.batch

\* A process never goes back to older signals.  The code does not keep it: a load
\* that read the file before an update installs it afterwards, and the update
\* finds another batch in memory and is not written.
NeverOlder ==
    [][\A p \in Processes : mem'[p].epoch = mem[p].epoch => mem'[p].batch = 0 \/ mem'[p].batch >= mem[p].batch]_vars
===========================================================================
