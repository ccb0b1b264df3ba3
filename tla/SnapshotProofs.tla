--------------------------- MODULE SnapshotProofs ---------------------------
(***************************************************************************)
(* Theorems about SnapshotCache: types, the last good snapshot, and the    *)
(* tools that belong to their rows.                                        *)
(***************************************************************************)
EXTENDS MCPages, TLAPS

LEMMA ProcType == \A t \in Threads : Proc[t] \in Procs
BY DEF Procs

LEMMA EmptyTypes ==
    EmptyPayload \in Payload /\ NoFile \in File /\ FreshMemory \in Memory /\ IdleThread \in Thread
<1>1. EmptyPayload \in Payload
  BY SnapshotAssumption DEF EmptyPayload, Payload, Sources
<1>2. NoFile \in File
  BY <1>1, SnapshotAssumption DEF NoFile, File
<1>3. FreshMemory \in Memory
  BY <1>1, SnapshotAssumption DEF FreshMemory, Memory
<1> QED
  BY <1>1, <1>2, <1>3, SnapshotAssumption DEF IdleThread, Thread

LEMMA MemoryTypes ==
    ASSUME TypeOK, NEW t \in Threads
    PROVE  /\ M(t) \in Memory /\ thread[t] \in Thread
           /\ \A f \in Thread : SetThread(t, f) => thread' \in [Threads -> Thread]
           /\ \A m \in Memory : SetMem(t, m) => mem' \in [Procs -> Memory]
BY ProcType DEF TypeOK, M, SetThread, SetMem

LEMMA SignatureType ==
    ASSUME NEW p \in Payload
    PROVE  Signature(p) \in {NoSignature} \cup (0..MaxTime) \X Sources \X (0..MaxTime)
BY DEF Payload, Signature

LEMMA MergedType ==
    ASSUME NEW m \in Memory, NEW raw \in File
    PROVE  Merged(m, raw) \in Memory
<1> DEFINE pay == IF Accepts(m, raw) THEN raw.pay ELSE m.pay
<1>1. pay \in Payload
  BY DEF Memory, File
<1>2. Signature(pay) \in {NoSignature} \cup (0..MaxTime) \X Sources \X (0..MaxTime)
  BY <1>1, SignatureType
<1> HIDE DEF pay
<1>3. (IF Accepts(m, raw) THEN raw.ts ELSE m.ts) \in 0..MaxTime
  BY DEF Memory, File
<1> QED
  BY <1>1, <1>2, <1>3 DEF Merged, Memory, File, LoadedMtime, pay

LEMMA PublishedType ==
    ASSUME NEW m \in Memory, NEW p \in Payload, NEW n \in 0..MaxTime
    PROVE  Published(m, p, n) \in Memory
<1> DEFINE keep == ~HasRows(p) /\ Promotable(m.pay)
           g == IF Promotable(p) THEN p ELSE IF keep THEN m.pay ELSE m.good
           gt == IF Promotable(p) THEN n ELSE IF keep /\ m.ts > 0 THEN m.ts ELSE m.goodTs
<1>1. g \in Payload /\ gt \in 0..MaxTime
  BY DEF Memory
<1>2. Published(m, p, n) = [m EXCEPT !.pay = p, !.ts = n, !.good = g, !.goodTs = gt]
  BY DEF Published, Memory
<1> HIDE DEF g, gt
<1> QED
  BY <1>1, <1>2 DEF Memory

LEMMA FinishedType ==
    ASSUME TypeOK, NEW t \in Threads
    PROVE  Finished(t) \in Thread
<1> DEFINE p == [thread[t].pay EXCEPT !.upd = 0]
           f == [thread[t] EXCEPT !.pc = "held", !.pay = p, !.t = 0]
<1>1. thread[t] \in Thread /\ thread[t].pay \in Payload
  BY MemoryTypes DEF Thread
<1>0. 0 \in 0..MaxTime
  BY SnapshotAssumption
<1>2. p \in Payload
  BY <1>0, <1>1 DEF Payload
<1>3. Finished(t) = f \/ Finished(t) = IdleThread
  BY DEF Finished
<1> HIDE DEF p
<1>4. f \in Thread
  BY <1>0, <1>1, <1>2 DEF Thread
<1> HIDE DEF f
<1> QED
  BY <1>3, <1>4, EmptyTypes

\* What a payload built, held or shipped has of the one it comes from.
LEMMA BuiltType ==
    ASSUME TypeOK, NEW src \in Sources, NEW p \in Built(src)
    PROVE  p \in Payload /\ p.src = src /\ p.gen = now /\ p.tools \in {0, p.gen}
<1>1. PICK n \in Yield(src, now) : p = [EmptyPayload EXCEPT !.gen = now, !.src = src, !.tools = n]
  BY DEF Built
<1>2. p = [gen |-> now, src |-> src, tools |-> n, kept |-> FALSE, upd |-> 0]
  BY <1>1 DEF EmptyPayload
<1>3. n \in {0, now} /\ now \in 0..MaxTime
  BY SnapshotAssumption DEF Yield, TypeOK
<1> QED
  BY <1>2, <1>3, SnapshotAssumption DEF Payload

LEMMA HeldType ==
    ASSUME SnapshotAssumption, NEW pay \in Payload, NEW p \in Held(pay)
    PROVE  p \in Payload /\ p.src = pay.src /\ p.gen = pay.gen /\ (p = pay \/ p.tools \in {0, p.gen})
<1>1. CASE HasRows(pay)
  <2>1. PICK n \in Yield(pay.src, pay.gen) : p = [pay EXCEPT !.tools = n, !.kept = FALSE]
    BY <1>1 DEF Held
  <2>2. n \in {0, pay.gen} /\ n \in 0..MaxTime
    BY SnapshotAssumption DEF Yield, Payload
  <2> QED
    BY <2>1, <2>2 DEF Payload
<1>2. CASE ~HasRows(pay)
  BY <1>2 DEF Held
<1> QED
  BY <1>1, <1>2

LEMMA ShippedType ==
    ASSUME SnapshotAssumption, NEW held \in Payload, NEW base \in Payload, NEW p \in Shipped(held, base)
    PROVE  /\ p \in Payload /\ p.src = base.src /\ p.gen = base.gen
           /\ \/ p.kept \/ p.tools \in {0, p.gen}
              \/ p.gen = held.gen /\ p.tools = held.tools /\ p.kept = held.kept
<1>1. CASE base.gen = held.gen
  BY <1>1 DEF Shipped, Payload
<1>2. CASE base.gen # held.gen
  <2>1. PICK n \in Yield(base.src, base.gen) :
           p = IF n # 0 THEN [base EXCEPT !.tools = n, !.kept = FALSE]
               ELSE [base EXCEPT !.tools = held.tools, !.kept = TRUE]
    BY <1>2 DEF Shipped
  <2> QED
    BY <2>1 DEF Payload, Yield
<1> QED
  BY <1>1, <1>2

LEMMA LookType ==
    ASSUME TypeOK, NEW t \in Threads, NEW goal \in {"serve", "fallback", "hold", "base"},
           Look(t, goal)
    PROVE  TypeOK'
<1> DEFINE pc == IF NeedsReload(t) THEN "read" ELSE "got"
           raw == IF NeedsReload(t) THEN file ELSE NoFile
           f == [thread[t] EXCEPT !.pc = pc, !.goal = goal, !.raw = raw]
<1>1. thread[t] \in Thread /\ raw \in File /\ pc \in {"read", "got"}
  BY MemoryTypes, EmptyTypes DEF TypeOK
<1>2. SetThread(t, f) /\ UNCHANGED <<now, file, mem>>
  BY DEF Look
<1> HIDE DEF pc, raw
<1>3. f \in Thread
  BY <1>1 DEF Thread
<1> HIDE DEF f
<1> QED
  BY <1>2, <1>3, MemoryTypes DEF TypeOK

LEMMA TakeType ==
    ASSUME TypeOK, NEW t \in Threads, Take(t)
    PROVE  TypeOK'
<1> DEFINE l == thread[t]
           cur == M(t).pay
<1>1. l \in Thread /\ cur \in Payload /\ M(t) \in Memory
  BY MemoryTypes DEF Memory
<1>2. now' \in 1..MaxTime /\ UNCHANGED <<file, mem>>
  <2>1. UNCHANGED <<file, mem>> /\ (UNCHANGED now \/ ClockRead)
    BY DEF Take
  <2> QED
    BY <2>1, SnapshotAssumption DEF TypeOK, ClockRead
<1>3. thread' \in [Threads -> Thread]
  <2>1. CASE l.goal = "serve"
    BY <2>1, <1>1, MemoryTypes, EmptyTypes DEF Take
  <2>2. CASE l.goal = "fallback"
    <3>1. PICK pay \in Built(IF HasRows(M(t).good) THEN "fallback" ELSE "empty") :
             SetThread(t, [l EXCEPT !.pc = "built", !.goal = "generated", !.pay = pay])
      BY <2>2 DEF Take
    <3>2. pay \in Payload
      BY BuiltType DEF Sources
    <3>3. [l EXCEPT !.pc = "built", !.goal = "generated", !.pay = pay] \in Thread
      BY <1>1, <3>2 DEF Thread
    <3> QED
      BY <3>1, <3>3, MemoryTypes
  <2>3. CASE l.goal = "hold"
    <3>1. PICK found \in Healed(M(t)) : \E held \in Held(found) :
             SetThread(t, IF held.tools # 0 THEN [l EXCEPT !.pc = "held", !.pay = held] ELSE IdleThread)
      BY <2>3 DEF Take
    <3>2. PICK held \in Held(found) :
             SetThread(t, IF held.tools # 0 THEN [l EXCEPT !.pc = "held", !.pay = held] ELSE IdleThread)
      BY <3>1
    <3>3. found \in Payload
      BY <1>1 DEF Healed, Memory
    <3>4. held \in Payload
      BY <3>3, HeldType, SnapshotAssumption
    <3>5. [l EXCEPT !.pc = "held", !.pay = held] \in Thread
      BY <1>1, <3>4 DEF Thread
    <3> QED
      BY <3>2, <3>5, MemoryTypes, EmptyTypes
  <2>4. CASE l.goal = "base"
    <3>1. Base(l.pay, cur) \in Payload /\ l.pay \in Payload
      BY <1>1 DEF Base, Thread
    <3>2. PICK pay \in Shipped(l.pay, Base(l.pay, cur)) :
             SetThread(t, [l EXCEPT !.pc = "built", !.goal = "shipped", !.pay = pay])
      BY <2>4 DEF Take
    <3>3. pay \in Payload
      BY <3>1, ShippedType, SnapshotAssumption
    <3>4. [l EXCEPT !.pc = "built", !.goal = "shipped", !.pay = pay] \in Thread
      BY <1>1, <3>3 DEF Thread
    <3> QED
      BY <3>2, <3>4, MemoryTypes
  <2> QED
    BY <2>1, <2>2, <2>3, <2>4 DEF Take
<1> QED
  BY <1>2, <1>3 DEF TypeOK

LEMMA UpdateType ==
    ASSUME TypeOK, NEW t \in Threads, Update(t)
    PROVE  TypeOK'
<1>0. /\ thread[t] \in Thread /\ M(t) \in Memory /\ thread[t].pay \in Payload
      /\ thread[t].t \in 0..MaxTime /\ Finished(t) \in Thread
  BY MemoryTypes, FinishedType DEF Thread
<1>1. CASE Stamp(t)
  <2> DEFINE p == [thread[t].pay EXCEPT !.upd = now]
             f == [thread[t] EXCEPT !.pc = "stamped", !.t = now, !.pay = p]
  <2>1. now \in 0..MaxTime /\ now' \in 1..MaxTime
    BY <1>1, SnapshotAssumption DEF TypeOK, Stamp, ClockRead
  <2>2. p \in Payload
    BY <1>0, <2>1 DEF Payload
  <2>3. SetThread(t, f) /\ UNCHANGED <<file, mem>>
    BY <1>1 DEF Stamp
  <2> HIDE DEF p
  <2>4. f \in Thread
    BY <1>0, <2>1, <2>2 DEF Thread
  <2> HIDE DEF f
  <2> QED
    BY <2>1, <2>3, <2>4, MemoryTypes DEF TypeOK
<1>2. CASE Refuse(t)
  BY <1>0, <1>2, MemoryTypes DEF Refuse, TypeOK
<1>3. CASE Publish(t)
  <2> DEFINE m == Published(M(t), thread[t].pay, thread[t].t)
             rec == [pay |-> m.pay, ts |-> m.ts, good |-> m.good, goodTs |-> m.goodTs, mtime |-> 0]
  <2>1. m \in Memory
    BY <1>0, PublishedType
  <2>2. rec \in File
    BY <2>1, SnapshotAssumption DEF Memory, File
  <2>3. [thread[t] EXCEPT !.pc = "writing", !.raw = rec] \in Thread
    BY <1>0, <2>2 DEF Thread
  <2>4. SetMem(t, m) /\ (SetThread(t, [thread[t] EXCEPT !.pc = "writing", !.raw = rec])
                            \/ SetThread(t, Finished(t)))
        /\ UNCHANGED <<now, file>>
    BY <1>3 DEF Publish
  <2> HIDE DEF m, rec
  <2> QED
    BY <1>0, <2>1, <2>3, <2>4, MemoryTypes DEF TypeOK
<1>4. CASE WriteDisk(t)
  <2>1. [thread[t].raw EXCEPT !.mtime = file.mtime + 1] \in File
    BY <1>0, <1>4, SnapshotAssumption DEF WriteDisk, Thread, File, TypeOK
  <2>2. [thread[t] EXCEPT !.pc = "wrote"] \in Thread
    BY <1>0 DEF Thread
  <2> QED
    BY <1>4, <2>1, <2>2, MemoryTypes DEF WriteDisk, TypeOK
<1>5. CASE WriteFails(t)
  BY <1>0, <1>5, MemoryTypes DEF WriteFails, TypeOK
<1>6. CASE Bookkeep(t)
  <2>1. Signature(thread[t].pay) \in {NoSignature} \cup (0..MaxTime) \X Sources \X (0..MaxTime)
    BY <1>0, SignatureType
  <2>2. [M(t) EXCEPT !.mtime = file.mtime, !.written = TRUE,
                     !.diskSig = Signature(thread[t].pay)] \in Memory
    BY <1>0, <2>1 DEF Memory, TypeOK, File
  <2> QED
    BY <1>0, <1>6, <2>2, MemoryTypes DEF Bookkeep, TypeOK
<1> QED
  BY <1>1, <1>2, <1>3, <1>4, <1>5, <1>6 DEF Update

\* The types are kept by every step, for any number of processes and threads.
THEOREM TypesKept == Spec => []TypeOK
<1>1. Init => TypeOK
  BY EmptyTypes, SnapshotAssumption DEF Init, TypeOK
<1>2. TypeOK /\ [Next]_vars => TypeOK'
  <2> SUFFICES ASSUME TypeOK, [Next]_vars PROVE TypeOK'
    OBVIOUS
  <2>1. ASSUME NEW t \in Threads, Read(t) \/ Produce(t) PROVE TypeOK'
    <3>1. CASE Merge(t)
      <4>1. thread[t].raw \in File /\ M(t) \in Memory /\ thread[t] \in Thread
        BY MemoryTypes DEF Thread
      <4>2. Merged(M(t), thread[t].raw) \in Memory
        BY <4>1, MergedType
      <4>3. [thread[t] EXCEPT !.pc = "got", !.raw = NoFile] \in Thread
        BY <4>1, EmptyTypes DEF Thread
      <4> QED
        BY <3>1, <4>2, <4>3, MemoryTypes DEF Merge, TypeOK
    <3>2. CASE Take(t)
      BY <3>2, TakeType
    <3>3. CASE Serve(t) \/ GenerateFallback(t) \/ CycleBegin(t) \/ CycleAgain(t)
      BY <3>3, LookType DEF Serve, GenerateFallback, CycleBegin, CycleAgain
    <3>4. CASE Generate(t)
      <4>1. PICK pay \in Built("live") :
               SetThread(t, [thread[t] EXCEPT !.pc = "built", !.goal = "generated", !.pay = pay])
        BY <3>4 DEF Generate
      <4>2. [thread[t] EXCEPT !.pc = "built", !.goal = "generated", !.pay = pay] \in Thread
        BY MemoryTypes, BuiltType DEF Thread, Sources
      <4> QED
        BY <3>4, <4>1, <4>2, MemoryTypes, SnapshotAssumption DEF Generate, TypeOK, ClockRead
    <3> QED
      BY <2>1, <3>1, <3>2, <3>3, <3>4 DEF Read, Produce
  <2>2. ASSUME NEW p \in Procs, Restart(p) PROVE TypeOK'
    BY <2>2, EmptyTypes DEF Restart, TypeOK
  <2>3. CASE UNCHANGED vars
    BY <2>3 DEF vars, TypeOK
  <2> QED
    BY <2>1, <2>2, <2>3, UpdateType DEF Next
<1> QED
  BY <1>1, <1>2, PTL DEF Spec

---------------------------------------------------------------------------
(***************************************************************************)
(* Every place a payload passes through keeps it sound: its tools are of   *)
(* its own rows, or it says that a helper kept them, and a live one has a  *)
(* generation.                                                             *)
(***************************************************************************)
Sound(p) == /\ ~p.kept => p.tools \in {0, p.gen}
            /\ p.src = "live" => p.gen > 0
SoundGood(p) == Sound(p) /\ p.src \in {"live", "empty"}
Holds(m) == Sound(m.pay) /\ SoundGood(m.good)

CallOK(l) == Sound(l.pay) /\ Holds(l.raw)

SoundInv ==
    /\ Holds(file)
    /\ \A p \in Procs : Holds(mem[p])
    /\ \A t \in Threads : CallOK(thread[t])

LEMMA SoundEmpty == Holds(NoFile) /\ Holds(FreshMemory) /\ CallOK(IdleThread)
BY DEF Holds, NoFile, FreshMemory, IdleThread, CallOK, Sound, SoundGood, EmptyPayload

LEMMA SoundCall ==
    ASSUME TypeOK, SoundInv, NEW t \in Threads, NEW f, CallOK(f), SetThread(t, f),
           UNCHANGED <<file, mem>>
    PROVE  SoundInv'
BY DEF SoundInv, TypeOK, SetThread

LEMMA SoundMemory ==
    ASSUME TypeOK, SoundInv, NEW t \in Threads, NEW f, CallOK(f), SetThread(t, f),
           NEW m, Holds(m), SetMem(t, m), UNCHANGED file
    PROVE  SoundInv'
BY ProcType DEF SoundInv, TypeOK, SetThread, SetMem

LEMMA SoundHere ==
    ASSUME TypeOK, SoundInv, NEW t \in Threads
    PROVE  Holds(M(t)) /\ CallOK(thread[t])
BY ProcType DEF SoundInv, M

LEMMA SoundFinished ==
    ASSUME TypeOK, SoundInv, NEW t \in Threads
    PROVE  CallOK(Finished(t))
<1>1. thread[t] \in Thread /\ thread[t].pay \in Payload /\ CallOK(thread[t])
  BY MemoryTypes, SoundHere DEF Thread
<1>2. CASE t \in Helpers /\ thread[t].goal = "generated" /\ thread[t].pay.tools # 0
  <2> DEFINE p == [thread[t].pay EXCEPT !.upd = 0]
             f == [thread[t] EXCEPT !.pc = "held", !.pay = p, !.t = 0]
  <2>1. /\ p.src = thread[t].pay.src /\ p.gen = thread[t].pay.gen
        /\ p.tools = thread[t].pay.tools /\ p.kept = thread[t].pay.kept
    BY <1>1 DEF Payload
  <2>2. f.pay = p /\ f.raw = thread[t].raw
    BY <1>1 DEF Thread
  <2>3. Finished(t) = f
    BY <1>2 DEF Finished
  <2> HIDE DEF f, p
  <2> QED
    BY <1>1, <2>1, <2>2, <2>3 DEF CallOK, Sound
<1>3. CASE ~(t \in Helpers /\ thread[t].goal = "generated" /\ thread[t].pay.tools # 0)
  BY <1>3, SoundEmpty DEF Finished
<1> QED
  BY <1>2, <1>3

LEMMA SoundLook ==
    ASSUME TypeOK, SoundInv, NEW t \in Threads,
           NEW goal \in {"serve", "fallback", "hold", "base"}, Look(t, goal)
    PROVE  SoundInv'
<1> DEFINE pc == IF NeedsReload(t) THEN "read" ELSE "got"
           raw == IF NeedsReload(t) THEN file ELSE NoFile
           f == [thread[t] EXCEPT !.pc = pc, !.goal = goal, !.raw = raw]
<1>1. thread[t] \in Thread /\ CallOK(thread[t])
  BY MemoryTypes, SoundHere
<1>2. f.raw = raw /\ f.pay = thread[t].pay
  BY <1>1 DEF Thread
<1>3. Holds(raw)
  BY SoundEmpty DEF SoundInv
<1>4. SetThread(t, f) /\ UNCHANGED <<file, mem>>
  BY DEF Look
<1> HIDE DEF f, pc, raw
<1>5. CallOK(f)
  BY <1>1, <1>2, <1>3 DEF CallOK
<1> QED
  BY <1>4, <1>5, SoundCall

LEMMA SoundTake ==
    ASSUME TypeOK, SoundInv, NEW t \in Threads, Take(t)
    PROVE  SoundInv'
<1> DEFINE l == thread[t]
           cur == M(t).pay
<1>1. /\ l \in Thread /\ l.pay \in Payload /\ CallOK(l) /\ UNCHANGED <<file, mem>>
      /\ cur \in Payload /\ Sound(cur) /\ now \in Nat /\ now > 0 /\ l.pc = "got"
  <2>1. l.pc = "got" /\ UNCHANGED <<file, mem>>
    BY DEF Take
  <2> QED
    BY <2>1, MemoryTypes, SoundHere, SnapshotAssumption DEF Thread, Memory, Holds, TypeOK
<1>2. CASE l.goal = "serve"
  BY <1>1, <1>2, SoundEmpty, SoundCall DEF Take
<1>3. CASE l.goal = "fallback"
  <2>1. PICK pay \in Built(IF HasRows(M(t).good) THEN "fallback" ELSE "empty") :
           SetThread(t, [l EXCEPT !.pc = "built", !.goal = "generated", !.pay = pay])
    BY <1>3 DEF Take
  <2> DEFINE f == [l EXCEPT !.pc = "built", !.goal = "generated", !.pay = pay]
  <2>2. Sound(pay)
    BY <1>1, BuiltType DEF Sound, Sources
  <2>3. f.pay = pay /\ f.raw = l.raw
    BY <1>1 DEF Thread
  <2>4. CallOK(f)
    BY <1>1, <2>2, <2>3 DEF CallOK
  <2> QED
    BY <1>1, <2>1, <2>4, SoundCall
<1>4. CASE l.goal = "hold"
  <2>1. PICK found \in Healed(M(t)) : \E held \in Held(found) :
           SetThread(t, IF held.tools # 0 THEN [l EXCEPT !.pc = "held", !.pay = held] ELSE IdleThread)
    BY <1>4 DEF Take
  <2>2. PICK held \in Held(found) :
           SetThread(t, IF held.tools # 0 THEN [l EXCEPT !.pc = "held", !.pay = held] ELSE IdleThread)
    BY <2>1
  <2> DEFINE f == [l EXCEPT !.pc = "held", !.pay = held]
  <2>3. found \in Payload /\ Sound(found)
    <3>1. M(t) \in Memory /\ Sound(M(t).pay) /\ Sound(M(t).good)
      BY MemoryTypes, SoundHere DEF Holds, SoundGood
    <3> QED
      BY <3>1 DEF Healed, Memory
  <2>4. Sound(held)
    BY <2>3, HeldType, SnapshotAssumption DEF Sound
  <2>5. f.pay = held /\ f.raw = l.raw
    BY <1>1 DEF Thread
  <2>6. CallOK(f)
    BY <1>1, <2>4, <2>5 DEF CallOK
  <2> QED
    BY <1>1, <2>2, <2>6, SoundCall, SoundEmpty
<1>5. CASE l.goal = "base"
  <2> DEFINE b == Base(l.pay, cur)
  <2>1. PICK pay \in Shipped(l.pay, b) :
           SetThread(t, [l EXCEPT !.pc = "built", !.goal = "shipped", !.pay = pay])
    BY <1>5 DEF Take
  <2> DEFINE f == [l EXCEPT !.pc = "built", !.goal = "shipped", !.pay = pay]
  <2>2. b \in Payload /\ Sound(b) /\ Sound(l.pay)
    BY <1>1 DEF Base, CallOK
  <2>3. Sound(pay)
    BY <1>1, <2>2, ShippedType, SnapshotAssumption DEF Sound
  <2>4. f.pay = pay /\ f.raw = l.raw
    BY <1>1 DEF Thread
  <2>5. CallOK(f)
    BY <1>1, <2>3, <2>4 DEF CallOK
  <2> QED
    BY <1>1, <2>1, <2>5, SoundCall
<1> QED
  BY <1>2, <1>3, <1>4, <1>5 DEF Take

LEMMA PublishedSound ==
    ASSUME NEW m \in Memory, Holds(m), NEW p \in Payload, Sound(p), NEW n \in 0..MaxTime
    PROVE  Holds(Published(m, p, n))
<1> DEFINE keep == ~HasRows(p) /\ Promotable(m.pay)
           g == IF Promotable(p) THEN p ELSE IF keep THEN m.pay ELSE m.good
           gt == IF Promotable(p) THEN n ELSE IF keep /\ m.ts > 0 THEN m.ts ELSE m.goodTs
           q == [m EXCEPT !.pay = p, !.ts = n, !.good = g, !.goodTs = gt]
<1>1. SoundGood(g)
  BY DEF Holds, SoundGood, Promotable
<1>2. Published(m, p, n) = q
  BY DEF Published, Memory
<1> HIDE DEF g, gt
<1>3. q.pay = p /\ q.good = g
  BY DEF Memory
<1> HIDE DEF q
<1> QED
  BY <1>1, <1>2, <1>3 DEF Holds

LEMMA SoundUpdate ==
    ASSUME TypeOK, SoundInv, NEW t \in Threads, Update(t)
    PROVE  SoundInv'
<1> DEFINE l == thread[t]
<1>1. /\ l \in Thread /\ l.pay \in Payload /\ CallOK(l) /\ CallOK(Finished(t))
      /\ l.t \in 0..MaxTime /\ M(t) \in Memory /\ Holds(M(t))
  BY MemoryTypes, SoundHere, SoundFinished DEF Thread
<1>2. CASE Stamp(t)
  <2> DEFINE p == [l.pay EXCEPT !.upd = now]
             f == [l EXCEPT !.pc = "stamped", !.t = now, !.pay = p]
  <2>1. p.src = l.pay.src /\ p.gen = l.pay.gen /\ p.tools = l.pay.tools /\ p.kept = l.pay.kept
    BY <1>1 DEF Payload
  <2>2. f.pay = p /\ f.raw = l.raw
    BY <1>1 DEF Thread
  <2>3. SetThread(t, f) /\ UNCHANGED <<file, mem>>
    BY <1>2 DEF Stamp
  <2> HIDE DEF f, p
  <2>4. CallOK(f)
    BY <1>1, <2>1, <2>2 DEF CallOK, Sound
  <2> QED
    BY <2>3, <2>4, SoundCall
<1>3. CASE Refuse(t) \/ WriteFails(t)
  BY <1>1, <1>3, SoundCall DEF Refuse, WriteFails
<1>4. CASE Publish(t)
  <2> DEFINE m == Published(M(t), l.pay, l.t)
             raw == [pay |-> m.pay, ts |-> m.ts, good |-> m.good, goodTs |-> m.goodTs, mtime |-> 0]
             f == [l EXCEPT !.pc = "writing", !.raw = raw]
  <2>1. Holds(m)
    BY <1>1, PublishedSound DEF CallOK
  <2>2. raw.pay = m.pay /\ raw.good = m.good
    OBVIOUS
  <2>3. SetMem(t, m) /\ (SetThread(t, f) \/ SetThread(t, Finished(t))) /\ UNCHANGED file
    BY <1>4 DEF Publish
  <2> HIDE DEF m, raw
  <2>4. Holds(raw)
    BY <2>1, <2>2 DEF Holds
  <2>5. f.pay = l.pay /\ f.raw = raw
    BY <1>1 DEF Thread
  <2> HIDE DEF f
  <2>6. CallOK(f)
    BY <1>1, <2>4, <2>5 DEF CallOK
  <2> QED
    BY <1>1, <2>1, <2>3, <2>6, SoundMemory
<1>5. CASE WriteDisk(t)
  <2> DEFINE f == [l EXCEPT !.pc = "wrote"]
  <2>1. file' = [l.raw EXCEPT !.mtime = file.mtime + 1] /\ SetThread(t, f) /\ UNCHANGED mem
    BY <1>5 DEF WriteDisk
  <2>2. l.raw \in File
    BY <1>1 DEF Thread
  <2>3. file'.pay = l.raw.pay /\ file'.good = l.raw.good
    BY <2>1, <2>2 DEF File
  <2>4. Holds(file')
    BY <1>1, <2>3 DEF CallOK, Holds
  <2>5. f.pay = l.pay /\ f.raw = l.raw
    BY <1>1 DEF Thread
  <2> HIDE DEF f
  <2>6. CallOK(f)
    BY <1>1, <2>5 DEF CallOK
  <2>7. \A o \in Threads : CallOK(thread'[o])
    BY <2>1, <2>6 DEF SetThread, SoundInv, TypeOK
  <2> QED
    BY <2>1, <2>4, <2>7 DEF SoundInv
<1>6. CASE Bookkeep(t)
  <2> DEFINE m == [M(t) EXCEPT !.mtime = file.mtime, !.written = TRUE,
                               !.diskSig = Signature(l.pay)]
  <2>1. m.pay = M(t).pay /\ m.good = M(t).good
    BY <1>1 DEF Memory
  <2>2. /\ SetMem(t, m) \/ UNCHANGED mem
        /\ SetThread(t, Finished(t)) /\ UNCHANGED file
    BY <1>6 DEF Bookkeep
  <2> HIDE DEF m
  <2>3. Holds(m)
    BY <1>1, <2>1 DEF Holds
  <2>4. CASE SetMem(t, m)
    BY <1>1, <2>2, <2>3, <2>4, SoundMemory
  <2>5. CASE UNCHANGED mem
    BY <1>1, <2>2, <2>5, SoundCall
  <2> QED
    BY <2>2, <2>4, <2>5
<1> QED
  BY <1>2, <1>3, <1>4, <1>5, <1>6 DEF Update

LEMMA SoundRead ==
    ASSUME TypeOK, SoundInv, NEW t \in Threads, Read(t) \/ Produce(t)
    PROVE  SoundInv'
<1>0. thread[t] \in Thread /\ CallOK(thread[t]) /\ M(t) \in Memory /\ Holds(M(t))
  BY MemoryTypes, SoundHere
<1>1. CASE Serve(t) \/ GenerateFallback(t) \/ CycleBegin(t) \/ CycleAgain(t)
  BY <1>1, SoundLook DEF Serve, GenerateFallback, CycleBegin, CycleAgain
<1>2. CASE Take(t)
  BY <1>2, SoundTake
<1>3. CASE Merge(t)
  <2> DEFINE raw == thread[t].raw
             m == Merged(M(t), raw)
             f == [thread[t] EXCEPT !.pc = "got", !.raw = NoFile]
  <2>1. Holds(raw) /\ raw \in File
    BY <1>0 DEF CallOK, Thread
  <2>2. /\ m.pay = raw.pay \/ m.pay = M(t).pay
        /\ m.good = raw.good \/ m.good = M(t).good
    BY DEF Merged
  <2>3. f.pay = thread[t].pay /\ f.raw = NoFile
    BY <1>0 DEF Thread
  <2>4. SetMem(t, m) /\ SetThread(t, f) /\ UNCHANGED file
    BY <1>3 DEF Merge
  <2> HIDE DEF m, f, raw
  <2>5. Holds(m)
    BY <1>0, <2>1, <2>2 DEF Holds
  <2>6. CallOK(f)
    BY <1>0, <2>3, SoundEmpty DEF CallOK
  <2> QED
    BY <2>4, <2>5, <2>6, SoundMemory
<1>4. CASE Generate(t)
  <2>1. PICK pay \in Built("live") :
           SetThread(t, [thread[t] EXCEPT !.pc = "built", !.goal = "generated", !.pay = pay])
    BY <1>4 DEF Generate
  <2> DEFINE f == [thread[t] EXCEPT !.pc = "built", !.goal = "generated", !.pay = pay]
  <2>2. Sound(pay)
    BY BuiltType, SnapshotAssumption DEF Sound, Sources, TypeOK
  <2>3. f.pay = pay /\ f.raw = thread[t].raw
    BY <1>0 DEF Thread
  <2>4. CallOK(f) /\ UNCHANGED <<file, mem>>
    BY <1>0, <1>4, <2>2, <2>3 DEF CallOK, Generate
  <2> QED
    BY <2>1, <2>4, SoundCall
<1> QED
  BY <1>1, <1>2, <1>3, <1>4 DEF Read, Produce

\* Soundness is inductive, with the types.
LEMMA SoundKept == Spec => []SoundInv
<1>1. Init => SoundInv
  BY SoundEmpty DEF Init, SoundInv
<1>2. TypeOK /\ SoundInv /\ [Next]_vars => SoundInv'
  <2> SUFFICES ASSUME TypeOK, SoundInv, [Next]_vars PROVE SoundInv'
    OBVIOUS
  <2>1. ASSUME NEW p \in Procs, Restart(p) PROVE SoundInv'
    BY <2>1, SoundEmpty DEF Restart, SoundInv, TypeOK
  <2>2. CASE UNCHANGED vars
    BY <2>2 DEF vars, SoundInv
  <2> QED
    BY <2>1, <2>2, SoundRead, SoundUpdate DEF Next
<1> QED
  BY <1>1, <1>2, TypesKept, PTL DEF Spec

\* The last good snapshot, in memory and in the file, is never a degraded one.
THEOREM LastGoodAlwaysGood == Spec => []LastGoodIsGood
<1>1. SoundInv => LastGoodIsGood
  BY DEF SoundInv, Holds, SoundGood, Sound, LastGoodIsGood
<1> QED
  BY <1>1, SoundKept, PTL

\* No process ever serves AI tools of another generation than its rows, but where a
\* helper rebuilt them and the rows yielded none (_refresh_ai_tools_for_cycle).
THEOREM ToolsAlwaysMatch == Spec => []ToolsBelongToRows
<1>1. SoundInv => ToolsBelongToRows
  BY DEF SoundInv, Holds, SoundGood, Sound, ToolsBelongToRows
<1> QED
  BY <1>1, SoundKept, PTL

-----------------------------------------------------------------------------
(* The analysis of a symbol.  A run overwrites the entry only from "queue"   *)
(* and "try" on.  It came to "queue" past an entry that did not block it,    *)
(* which time never makes blocking again, and as one process has the file,   *)
(* what the run finds there is what the request found, or nothing where a    *)
(* new symbol pushed it out.  What another symbol's store prunes is older    *)
(* than what blocks (PageConstants).                                         *)

HomeTypes ==
    /\ clock \in Nat /\ DOMAIN entry = {"api"} /\ DOMAIN run = {"api"}
    /\ H!Shown("api").at \in Nat /\ store.at \in Nat

\* What a run may overwrite.
NotBlocking(e) == ~H!Blocks(e)
QueuedPast == run["api"].pc = "queue" => NotBlocking(H!Shown("api"))
TryingPast == run["api"].pc = "try" => ~H!Settled(H!Shown("api"))

AnalysisInv == HomeTypes /\ QueuedPast /\ TryingPast

LEMMA EntryFields ==
    /\ H!Unloaded.current = FALSE /\ H!NoEntry.at = 0 /\ ~H!Settled(H!NoEntry)
    /\ H!PushedOut.at = 1 /\ ~H!Settled(H!PushedOut)
    /\ \A status : H!Entry(status).status = status /\ H!Entry(status).at = clock
    /\ \A rows, confident, d : H!Found(rows, confident, d).status = "READY" /\ H!Found(rows, confident, d).at = clock
BY DEF H!Unloaded, H!Entry, H!NoEntry, H!PushedOut, H!Found, H!Settled, H!Terminal

\* Loading shows what was shown.
LEMMA LoadingKeeps ==
    ASSUME AnalysisInv, H!Loading("api"), UNCHANGED store
    PROVE  /\ H!Shown("api")' = H!Shown("api") /\ H!Load(entry["api"])'.entry = H!Shown("api")
           /\ DOMAIN entry' = {"api"}
<1>1. entry' = [entry EXCEPT !["api"] = H!Load(@)] /\ DOMAIN entry = {"api"}
  BY DEF H!Loading, AnalysisInv, HomeTypes
<1>2. entry'["api"] = H!Load(entry["api"])
  BY <1>1
<1> QED
  BY <1>1, <1>2 DEF H!Shown, H!Load

\* Whether the write of the file succeeds or not, the stored entry is shown.
LEMMA StoreShows ==
    ASSUME AnalysisInv, NEW e, H!Store("api", e)
    PROVE  /\ H!Shown("api")' = e /\ H!Load(entry["api"])'.entry = e
           /\ DOMAIN entry' = {"api"} /\ (store' = e \/ UNCHANGED store)
<1> DEFINE stored == [entry |-> e, current |-> TRUE]
<1>1. /\ entry'["api"] = stored /\ DOMAIN entry' = {"api"}
      /\ store' = e \/ UNCHANGED store
  <2>1. CASE store' = e /\ entry' = [q \in {"api"} |->
                 [entry |-> IF q = "api" THEN e ELSE entry[q].entry, current |-> q = "api"]]
    BY <2>1
  <2>2. CASE entry' = [entry EXCEPT !["api"] = stored] /\ UNCHANGED store
    BY <2>2 DEF AnalysisInv, HomeTypes
  <2> QED
    BY <2>1, <2>2 DEF H!Store
<1> QED
  BY <1>1 DEF H!Shown, H!Load

\* What the property asks of one step.
Stays ==
    H!Settled(H!Shown("api")) /\ clock - H!Shown("api").at < PageTtl
        => \/ entry'["api"] = H!Unloaded \/ H!Settled(H!Load(entry["api"])'.entry)
           \/ clock' - H!Shown("api").at >= PageTtl \/ H!Load(entry["api"])'.entry = H!PushedOut

Runs == DOMAIN run' = {"api"} /\ (run'["api"].pc = "try" => run["api"].pc = "try")
Queues == run'["api"].pc = "queue" => run["api"].pc = "queue" \/ NotBlocking(H!Shown("api"))

\* A step that stores nothing, whatever time passes.
LEMMA KeepingStep ==
    ASSUME AnalysisInv, H!Shown("api")' = H!Shown("api"), H!Load(entry["api"])'.entry = H!Shown("api"),
           DOMAIN entry' = {"api"}, UNCHANGED store, clock' \in Nat, clock' >= clock, Runs, Queues
    PROVE  AnalysisInv' /\ Stays
<1> USE DEF AnalysisInv, HomeTypes
<1> DEFINE e == H!Shown("api")
<1>1. HomeTypes'
  BY DEF Runs
<1>2. NotBlocking(e) => NotBlocking(e)'
  BY PageConstants DEF NotBlocking, H!Blocks, H!Settled, H!Terminal
<1>3. QueuedPast'
  <2> SUFFICES ASSUME run'["api"].pc = "queue" PROVE NotBlocking(e)'
    BY DEF QueuedPast
  <2>1. NotBlocking(e)
    BY DEF Queues, QueuedPast
  <2> QED
    BY <2>1, <1>2
<1>4. H!Settled(e)' = H!Settled(e)
  BY DEF H!Settled, H!Terminal
<1>5. TryingPast'
  BY <1>4 DEF Runs, TryingPast
<1>6. Stays
  BY DEF Stays
<1> QED
  BY <1>1, <1>3, <1>5, <1>6

LEMMA IdleStep ==
    ASSUME AnalysisInv, UNCHANGED <<store, entry>>, clock' \in Nat, clock' >= clock, Runs, Queues
    PROVE  AnalysisInv' /\ Stays
<1>1. /\ H!Shown("api")' = H!Shown("api") /\ H!Load(entry["api"])'.entry = H!Shown("api")
      /\ DOMAIN entry' = {"api"}
  BY DEF AnalysisInv, HomeTypes, H!Shown, H!Load
<1> QED
  BY <1>1, KeepingStep

LEMMA LoadingStep ==
    ASSUME AnalysisInv, H!Loading("api"), UNCHANGED <<store, clock>>, Runs, Queues
    PROVE  AnalysisInv' /\ Stays
<1>1. clock' \in Nat /\ clock' >= clock
  BY DEF AnalysisInv, HomeTypes
<1> QED
  BY <1>1, LoadingKeeps, KeepingStep

LEMMA AskingStep ==
    ASSUME AnalysisInv, H!Queueing("api"), H!Loading("api"), UNCHANGED <<store, clock>>
    PROVE  AnalysisInv' /\ Stays
<1> DEFINE pc == IF H!Accepted("api") THEN "queue" ELSE run["api"].pc
<1>1. run' = [run EXCEPT !["api"].pc = pc] /\ DOMAIN run = {"api"}
  BY DEF H!Queueing, AnalysisInv, HomeTypes
<1>2. run'["api"] = [run["api"] EXCEPT !.pc = pc]
  BY <1>1
<1>3. run'["api"].pc = pc \/ run'["api"].pc = run["api"].pc
  BY <1>2
<1>4. Runs /\ Queues
  BY <1>1, <1>3 DEF Runs, Queues, H!Accepted, NotBlocking
<1> QED
  BY <1>4, LoadingStep

LEMMA StoringStep ==
    ASSUME AnalysisInv, NEW e, H!Store("api", e), UNCHANGED clock, e.at = clock, DOMAIN run' = {"api"},
           run'["api"].pc # "queue", run'["api"].pc = "try" => ~H!Settled(e),
           H!Settled(e) \/ NotBlocking(H!Shown("api"))
    PROVE  AnalysisInv' /\ Stays
<1> USE DEF AnalysisInv, HomeTypes
<1>1. /\ H!Shown("api")' = e /\ H!Load(entry["api"])'.entry = e
      /\ DOMAIN entry' = {"api"} /\ (store' = e \/ UNCHANGED store)
  BY StoreShows
<1>2. HomeTypes' /\ QueuedPast'
  BY <1>1 DEF QueuedPast
<1>3. TryingPast'
  BY <1>1 DEF TryingPast, H!Settled, H!Terminal
<1>4. Stays
  BY <1>1 DEF Stays, NotBlocking, H!Blocks
<1> QED
  BY <1>1, <1>2, <1>3, <1>4

LEMMA RunStep ==
    ASSUME AnalysisInv, H!Queue("api") \/ H!Try("api") \/ H!Discard("api")
    PROVE  AnalysisInv' /\ Stays
<1> USE DEF AnalysisInv, HomeTypes
<1>1. CASE H!Queue("api")
  <2>1. run'["api"].pc = "try" /\ DOMAIN run' = {"api"}
    BY <1>1 DEF H!Queue
  <2>2. H!Store("api", H!Entry("PENDING")) /\ UNCHANGED clock /\ ~H!Settled(H!Entry("PENDING"))
    BY <1>1, EntryFields DEF H!Queue, H!Settled, H!Terminal
  <2>3. NotBlocking(H!Shown("api"))
    BY <1>1 DEF H!Queue, QueuedPast
  <2> QED
    BY <2>1, <2>2, <2>3, EntryFields, StoringStep
<1>2. CASE H!Analyse("api") \/ H!Insufficient("api") \/ H!Fail("api")
  <2>1. PICK e : H!Settling("api", e) /\ H!Settled(e) /\ e.at = clock
    BY <1>2, EntryFields DEF H!Analyse, H!Insufficient, H!Fail, H!Settled, H!Terminal
  <2>2. H!Store("api", e) /\ run'["api"].pc = "done" /\ DOMAIN run' = {"api"} /\ UNCHANGED clock
    BY <1>2, <2>1 DEF H!Settling, H!Analyse, H!Insufficient, H!Fail
  <2> QED
    BY <2>1, <2>2, StoringStep
<1>3. CASE H!Wait("api")
  <2>1. run'["api"] = [run["api"] EXCEPT !.tries = @ + 1] /\ DOMAIN run' = {"api"} /\ UNCHANGED <<clock, store, entry>>
    BY <1>3 DEF H!Wait
  <2>2. run'["api"].pc = run["api"].pc
    BY <2>1
  <2> QED
    BY <2>1, <2>2, IdleStep DEF Runs, Queues
<1>4. CASE H!Discard("api")
  <2>1. run'["api"].pc = "idle" /\ DOMAIN run' = {"api"} /\ UNCHANGED <<clock, store, entry>>
    BY <1>4 DEF H!Discard, H!NoRun
  <2> QED
    BY <2>1, IdleStep DEF Runs, Queues
<1> QED
  BY <1>1, <1>2, <1>3, <1>4 DEF H!Try

LEMMA RestartStep ==
    ASSUME AnalysisInv, H!Crash("api")
    PROVE  AnalysisInv' /\ Stays
<1> USE DEF AnalysisInv, HomeTypes
<1>1. /\ entry'["api"] = H!Unloaded /\ DOMAIN entry' = {"api"} /\ run'["api"].pc = "idle" /\ DOMAIN run' = {"api"}
      /\ UNCHANGED <<clock, store>>
  BY DEF H!Crash, H!NoRun
<1>2. H!Shown("api")' = store
  BY <1>1, EntryFields DEF H!Shown, H!Load
<1> QED
  BY <1>1, <1>2 DEF Stays, QueuedPast, TryingPast

\* Another symbol is stored: what blocks is not old enough to be pruned, and while a
\* run is on nothing is.
LEMMA OtherStep ==
    ASSUME AnalysisInv, H!StoreOther("api")
    PROVE  AnalysisInv' /\ Stays
<1> USE DEF AnalysisInv, HomeTypes
<1> DEFINE e == H!Shown("api")
           kept == IF H!Dead("api", e) THEN H!NoEntry ELSE e
<1>1. H!Store("api", kept) /\ UNCHANGED <<clock, run>>
  BY DEF H!StoreOther
<1>2. /\ H!Shown("api")' = kept /\ H!Load(entry["api"])'.entry = kept
      /\ DOMAIN entry' = {"api"} /\ (store' = kept \/ UNCHANGED store)
  BY <1>1, StoreShows
<1>3. kept = e \/ (kept = H!NoEntry /\ H!Dead("api", e))
  OBVIOUS
<1>4. H!Dead("api", e) => run["api"].pc = "idle" /\ NotBlocking(e)
  BY PageConstants DEF H!Dead, NotBlocking, H!Blocks, H!Settled, H!Terminal
<1> HIDE DEF kept
<1>5. HomeTypes'
  BY <1>1, <1>2, <1>3, EntryFields
<1>6. QueuedPast' /\ TryingPast'
  BY <1>1, <1>2, <1>3, <1>4 DEF QueuedPast, TryingPast, NotBlocking, H!Blocks, H!Settled, H!Terminal
<1>7. Stays
  BY <1>1, <1>2, <1>3, <1>4 DEF Stays, NotBlocking, H!Blocks
<1> QED
  BY <1>5, <1>6, <1>7

LEMMA PushStep ==
    ASSUME AnalysisInv, H!PushOut("api")
    PROVE  AnalysisInv' /\ Stays
<1> USE DEF AnalysisInv, HomeTypes
<1>1. H!Store("api", H!PushedOut) /\ UNCHANGED <<clock, run>>
  BY DEF H!PushOut
<1>2. /\ H!Shown("api")' = H!PushedOut /\ H!Load(entry["api"])'.entry = H!PushedOut /\ DOMAIN entry' = {"api"}
      /\ store' = H!PushedOut \/ UNCHANGED store
  BY <1>1, StoreShows
<1>3. HomeTypes'
  BY <1>1, <1>2, EntryFields
<1>4. ~H!Settled(H!Shown("api"))'
  BY <1>2, EntryFields
<1>5. QueuedPast' /\ TryingPast'
  BY <1>4 DEF QueuedPast, TryingPast, NotBlocking, H!Blocks
<1> QED
  BY <1>2, <1>3, <1>5 DEF Stays

LEMMA PageStep ==
    ASSUME AnalysisInv, H!Build
    PROVE  AnalysisInv' /\ Stays
<1> USE DEF AnalysisInv, HomeTypes
<1>1. CASE H!Open \/ H!AskTools
  <2>1. H!Queueing("api") /\ H!Loading("api") /\ UNCHANGED <<store, clock>>
    BY <1>1 DEF H!Open, H!AskTools
  <2> QED
    BY <2>1, AskingStep
<1>2. CASE H!ReadInsight \/ H!ReadTools
  <2>1. H!Loading("api") /\ UNCHANGED <<store, clock, run>>
    BY <1>2 DEF H!ReadInsight, H!ReadTools
  <2> QED
    BY <2>1, LoadingStep DEF Runs, Queues
<1>3. CASE H!Answer
  BY <1>3, IdleStep DEF H!Answer, Runs, Queues
<1> QED
  BY <1>1, <1>2, <1>3 DEF H!Build

LEMMA SymbolStep ==
    ASSUME AnalysisInv, [H!Next]_(H!vars)
    PROVE  AnalysisInv' /\ Stays
<1>1. CASE H!Tick
  <2>1. clock' = clock + 1 /\ clock \in Nat /\ UNCHANGED <<store, entry, run>>
    BY <1>1 DEF H!Tick, AnalysisInv, HomeTypes
  <2> QED
    BY <2>1, IdleStep DEF Runs, Queues, AnalysisInv, HomeTypes
<1>2. CASE H!Warmed \/ H!Publish \/ UNCHANGED H!vars
  <2>1. UNCHANGED <<clock, store, entry, run>> /\ clock \in Nat
    BY <1>2 DEF H!Warmed, H!Publish, H!vars, AnalysisInv, HomeTypes
  <2> QED
    BY <2>1, IdleStep DEF Runs, Queues, AnalysisInv, HomeTypes
<1>3. CASE H!Poll("api")
  <2>1. H!Queueing("api") /\ H!Loading("api") /\ UNCHANGED <<store, clock>>
    BY <1>3 DEF H!Poll
  <2> QED
    BY <2>1, AskingStep
<1> QED
  BY <1>1, <1>2, <1>3, PageStep, RunStep, RestartStep, OtherStep, PushStep DEF H!Next

LEMMA AnalysisInit == H!Init => AnalysisInv
<1> SUFFICES ASSUME H!Init PROVE AnalysisInv
  OBVIOUS
<1>1. /\ clock = 1 /\ store = H!NoEntry
      /\ entry = [p \in {"api"} |-> H!Unloaded] /\ run = [p \in {"api"} |-> H!NoRun]
  BY DEF H!Init
<1>2. H!Shown("api") = H!NoEntry
  BY <1>1 DEF H!Shown, H!Load, H!Unloaded
<1> QED
  BY <1>1, <1>2 DEF AnalysisInv, HomeTypes, QueuedPast, TryingPast, H!NoRun, H!NoEntry

\* Within its lifetime, however long it is and whatever time it is kept beyond it, a
\* settled analysis is not taken back by another request for it nor pruned; only a new
\* symbol in a full cache pushes it out (request_symbol_hydration, _store,
\* _prune_dead_pending).
THEOREM FreshHolds == PagesSpec => FreshAnalysisStays
<1>1. PagesInit => AnalysisInv
  BY AnalysisInit DEF PagesInit
<1>2. [PagesNext]_all => [H!Next]_(H!vars)
  BY DEF PagesNext, SnapshotMoves, SymbolMoves, all, pageVars, H!vars
<1>3. AnalysisInv /\ [PagesNext]_all => AnalysisInv'
  BY <1>2, SymbolStep
<1>4. AnalysisInv /\ [PagesNext]_all => [H!FreshStays]_all
  BY <1>2, SymbolStep DEF Stays, H!FreshStays
<1>5. PagesSpec => PagesInit /\ [][PagesNext]_all
  BY PTL DEF PagesSpec
<1>6. PagesSpec => []AnalysisInv
  BY <1>1, <1>3, <1>5, PTL
<1> QED
  BY <1>4, <1>5, <1>6, PTL DEF FreshAnalysisStays
=============================================================================
