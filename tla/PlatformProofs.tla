--------------------------- MODULE PlatformProofs ---------------------------
(***************************************************************************)
(* Theorems about what the requests stand on: the quotes, the schema a     *)
(* process starts with, the migration of the webhook's index, the caches   *)
(* of signals and of bars, and the requested charts, for every value of    *)
(* their constants.                                                        *)
(***************************************************************************)
EXTENDS Platform, Sequences, FiniteSetTheorems, TLAPS

---------------------------------------------------------------------------
(* The quotes: the file and the memory of QuoteCache.                        *)

\* Nothing is cached, copied or taken with a time later than the clock's.
Dated == [ts : 0..now, obs : Nat, stale : BOOLEAN, ref : BOOLEAN, dirty : BOOLEAN]
Dates == [Symbols -> Dated]
Memory == [quotes : Dates, mtime : Nat, all : BOOLEAN]
Job == [pc : {"idle", "ask", "settle", "hold", "write", "copied", "replaced"},
        todo : SUBSET Symbols, batch : SUBSET Symbols, multi : BOOLEAN, got : SUBSET Symbols,
        asked : 0..now, sym : Symbols \cup {"none"}, pay : Dated, alone : BOOLEAN,
        changed : BOOLEAN, resolved : BOOLEAN, chunk : SUBSET Symbols, copy : Dates, runs : Nat]

CacheInv ==
    /\ now \in Nat
    /\ file \in [quotes : Dates, mtime : Nat]
    /\ mem \in [Procs -> Memory]
    /\ job \in [Warmers -> Job]

---------------------------------------------------------------------------
(* Reading the cache.                                                        *)

\* What loading the file may make of a memory: a quote is left as it is or
\* replaced by a later one of the file.
Reloads(m, n) ==
    /\ n \in Memory
    /\ \A s \in Symbols :
          \/ n.quotes[s].ts = m.quotes[s].ts
          \/ n.quotes[s].ts = file.quotes[s].ts /\ n.quotes[s].ts > m.quotes[s].ts

LEMMA NoQuoteDated == CacheInv => NoQuote \in Dated /\ NoQuotes \in Dates /\ FreshMemory \in Memory
<1> SUFFICES ASSUME CacheInv PROVE NoQuote \in Dated /\ NoQuotes \in Dates /\ FreshMemory \in Memory
  OBVIOUS
<1>1. NoQuote \in Dated
  BY DEF NoQuote, Dated, CacheInv
<1>2. NoQuotes \in Dates
  BY <1>1 DEF NoQuotes, Dates
<1> QED
  BY <1>1, <1>2 DEF FreshMemory, Memory

LEMMA LoadedReloads ==
    ASSUME CacheInv, NEW m \in Memory, NEW stale \in BOOLEAN, NEW force \in BOOLEAN
    PROVE  Reloads(m, Loaded(m, stale, force))
<1> DEFINE q(s) == IF DiskWins(m.quotes[s], file.quotes[s], stale)
                   THEN [file.quotes[s] EXCEPT !.dirty = FALSE] ELSE m.quotes[s]
           all == m.all \/ stale
<1>1. ASSUME NEW s \in Symbols
      PROVE  /\ m.quotes[s] \in Dated /\ file.quotes[s] \in Dated
  BY DEF CacheInv, Memory, Dates
<1>2. ASSUME NEW s \in Symbols
      PROVE  /\ q(s) \in Dated
             /\ \/ q(s).ts = m.quotes[s].ts
                \/ q(s).ts = file.quotes[s].ts /\ q(s).ts > m.quotes[s].ts
  <2>1. CASE DiskWins(m.quotes[s], file.quotes[s], stale)
    <3>1. q(s) \in Dated /\ q(s).ts = file.quotes[s].ts
      BY <1>1, <2>1 DEF Dated
    <3>2. file.quotes[s].ts > m.quotes[s].ts
      BY <1>1, <2>1 DEF Dated, DiskWins, Known, CacheInv
    <3> QED
      BY <3>1, <3>2
  <2>2. CASE ~DiskWins(m.quotes[s], file.quotes[s], stale)
    BY <1>1, <2>2
  <2> QED
    BY <2>1, <2>2
<1>3. CASE MustLoad(m, stale, force)
  <2> DEFINE n == [quotes |-> [s \in Symbols |-> q(s)], mtime |-> file.mtime, all |-> all]
  <2>1. Loaded(m, stale, force) = n
    BY <1>3 DEF Loaded
  <2>2. file.mtime \in Nat /\ all \in BOOLEAN
    BY DEF CacheInv, Memory
  <2>3. \A s \in Symbols : n.quotes[s] = q(s)
    OBVIOUS
  <2>4. n \in Memory
    BY <1>2, <2>2 DEF Memory, Dates
  <2> HIDE DEF n, q
  <2> QED
    BY <1>2, <2>1, <2>3, <2>4 DEF Reloads
<1>4. CASE ~MustLoad(m, stale, force)
  <2>1. Loaded(m, stale, force) = [m EXCEPT !.all = @ \/ stale]
    BY <1>4 DEF Loaded
  <2> QED
    BY <2>1 DEF Reloads, Memory
<1> QED
  BY <1>3, <1>4

LEMMA ReloadsTwice ==
    ASSUME CacheInv, NEW m \in Memory, NEW n, NEW o, Reloads(m, n), Reloads(n, o)
    PROVE  Reloads(m, o)
<1> SUFFICES ASSUME NEW s \in Symbols
             PROVE  \/ o.quotes[s].ts = m.quotes[s].ts
                    \/ o.quotes[s].ts = file.quotes[s].ts /\ o.quotes[s].ts > m.quotes[s].ts
  BY DEF Reloads
<1>1. m.quotes[s].ts \in Nat /\ n.quotes[s].ts \in Nat /\ o.quotes[s].ts \in Nat
  BY DEF Reloads, Memory, Dates, Dated, CacheInv
<1> QED
  BY <1>1 DEF Reloads

LEMMA ReadReloads ==
    ASSUME CacheInv, NEW m \in Memory, NEW s \in Symbols, NEW stale \in BOOLEAN
    PROVE  Reloads(m, ReadFor(m, s, stale)) /\ Reloads(m, PublicRead(m, s, stale))
<1> DEFINE n == Loaded(m, stale, FALSE)
<1>1. Reloads(m, n) /\ n \in Memory
  BY LoadedReloads DEF Reloads
<1>2. /\ (~Known(n.quotes[s])) \in BOOLEAN
      /\ (~Known(Shown(n.quotes[s], stale))) \in BOOLEAN
  OBVIOUS
<1>3. /\ ReadFor(m, s, stale) = Loaded(n, stale, ~Known(n.quotes[s]))
      /\ PublicRead(m, s, stale) = Loaded(n, stale, ~Known(Shown(n.quotes[s], stale)))
  BY DEF ReadFor, PublicRead
<1> HIDE DEF n
<1>4. /\ Reloads(n, Loaded(n, stale, ~Known(n.quotes[s])))
      /\ Reloads(n, Loaded(n, stale, ~Known(Shown(n.quotes[s], stale))))
  BY <1>1, <1>2, LoadedReloads
<1> QED
  BY <1>1, <1>3, <1>4, ReloadsTwice

LEMMA CachedDated ==
    ASSUME CacheInv, NEW m \in Memory, NEW s \in Symbols, NEW stale \in BOOLEAN
    PROVE  CachedPayload(m, s, stale) \in Dated
<1>1. ReadFor(m, s, stale).quotes[s] \in Dated
  BY ReadReloads DEF Reloads, Memory, Dates
<1>2. ASSUME NEW q \in Dated PROVE Shown(q, stale) \in Dated
  BY NoQuoteDated DEF Shown, Dated, Old
<1> QED
  BY <1>1, <1>2 DEF CachedPayload

LEMMA StandInDated ==
    ASSUME CacheInv, NEW m \in Memory, NEW s \in Symbols
    PROVE  StandIn(m, s) \in Dated
<1>1. CASE Reference[s] = "none"
  BY <1>1, NoQuoteDated DEF StandIn
<1>2. CASE Reference[s] # "none"
  <2>1. Reference[s] \in Symbols
    BY <1>2, QuoteAssumption
  <2>2. CachedPayload(m, Reference[s], FALSE) \in Dated
    BY <2>1, CachedDated
  <2> QED
    BY <1>2, <2>2 DEF StandIn, Dated
<1> QED
  BY <1>1, <1>2

---------------------------------------------------------------------------
(* The steps of a refresh.                                                   *)

\* A thread that will copy memory to the file before it rests.
WillWrite(t) ==
    /\ job[t].pc \in {"ask", "settle", "hold", "write"}
    /\ job[t].changed \/ (job[t].pc = "hold" /\ Known(job[t].pay))

\* What a quote of a memory becomes: itself, a later one of the file, or one of now.
Moves(p, s) ==
    \/ mem'[p].quotes[s].ts = mem[p].quotes[s].ts
    \/ /\ mem'[p].quotes[s].ts = file.quotes[s].ts
       /\ mem'[p].quotes[s].ts > mem[p].quotes[s].ts
    \/ mem'[p].quotes[s].ts = now

\* A step of thread t that leaves the file alone: a quote it caches as of now
\* will be written.
Turn(t) ==
    /\ UNCHANGED <<now, file>>
    /\ job[t].pc # "copied" /\ job'[t].pc \notin {"copied", "replaced"}
    /\ WillWrite(t) => WillWrite(t)'
    /\ \A u \in Warmers \ {t} : job'[u] = job[u]
    /\ \A q \in Procs \ {Proc[t]} : mem'[q] = mem[q]
    /\ \A s \in Symbols :
          \/ mem'[Proc[t]].quotes[s].ts = mem[Proc[t]].quotes[s].ts
          \/ /\ mem'[Proc[t]].quotes[s].ts = file.quotes[s].ts
             /\ mem'[Proc[t]].quotes[s].ts > mem[Proc[t]].quotes[s].ts
          \/ mem'[Proc[t]].quotes[s].ts = now /\ WillWrite(t)'

\* The new memory n and the new place j of thread t, when they are well-formed.
LEMMA TurnTaken ==
    ASSUME CacheInv, NEW t \in Warmers, NEW n \in Memory, NEW j \in Job,
           UNCHANGED <<now, file>>, SetMem(t, n), SetJob(t, j),
           job[t].pc # "copied", j.pc \notin {"copied", "replaced"},
           WillWrite(t) => /\ j.pc \in {"ask", "settle", "hold", "write"}
                           /\ j.changed \/ (j.pc = "hold" /\ Known(j.pay)),
           \A s \in Symbols :
               \/ n.quotes[s].ts = mem[Proc[t]].quotes[s].ts
               \/ n.quotes[s].ts = file.quotes[s].ts /\ n.quotes[s].ts > mem[Proc[t]].quotes[s].ts
               \/ /\ n.quotes[s].ts = now /\ j.pc \in {"ask", "settle", "hold", "write"}
                  /\ j.changed \/ (j.pc = "hold" /\ Known(j.pay))
    PROVE  CacheInv' /\ Turn(t)
<1>1. Proc[t] \in Procs
  BY QuoteAssumption
<1>2. /\ mem' = [mem EXCEPT ![Proc[t]] = n] /\ mem'[Proc[t]] = n
      /\ \A q \in Procs \ {Proc[t]} : mem'[q] = mem[q]
  BY <1>1 DEF SetMem, CacheInv
<1>3. job' = [job EXCEPT ![t] = j] /\ job'[t] = j /\ \A u \in Warmers \ {t} : job'[u] = job[u]
  BY DEF SetJob, CacheInv
<1>4. Dated' = Dated
  BY DEF Dated
<1>5. Dates' = Dates
  BY <1>4 DEF Dates
<1>6. Memory' = Memory /\ Job' = Job
  BY <1>4, <1>5 DEF Memory, Job
<1>7. mem' \in [Procs -> Memory] /\ job' \in [Warmers -> Job]
  BY <1>1, <1>2, <1>3 DEF CacheInv
<1>8. CacheInv'
  BY <1>5, <1>6, <1>7 DEF CacheInv
<1>9. WillWrite(t)' <=> /\ j.pc \in {"ask", "settle", "hold", "write"}
                        /\ j.changed \/ (j.pc = "hold" /\ Known(j.pay))
  BY <1>3 DEF WillWrite, Known
<1> QED
  BY <1>2, <1>3, <1>8, <1>9 DEF Turn

\* The same when the memory is only read, or not touched.
LEMMA TurnReads ==
    ASSUME CacheInv, NEW t \in Warmers, NEW n, Reloads(mem[Proc[t]], n) \/ n = mem[Proc[t]], NEW j \in Job,
           UNCHANGED <<now, file>>, SetMem(t, n) \/ (n = mem[Proc[t]] /\ UNCHANGED mem), SetJob(t, j),
           job[t].pc # "copied", j.pc \notin {"copied", "replaced"},
           WillWrite(t) => /\ j.pc \in {"ask", "settle", "hold", "write"}
                           /\ j.changed \/ (j.pc = "hold" /\ Known(j.pay))
    PROVE  CacheInv' /\ Turn(t)
<1>1. mem[Proc[t]] \in Memory
  BY QuoteAssumption DEF CacheInv
<1>2. n \in Memory /\ \A s \in Symbols :
          \/ n.quotes[s].ts = mem[Proc[t]].quotes[s].ts
          \/ n.quotes[s].ts = file.quotes[s].ts /\ n.quotes[s].ts > mem[Proc[t]].quotes[s].ts
  BY <1>1 DEF Reloads
<1>3. SetMem(t, n)
  BY QuoteAssumption DEF SetMem, CacheInv
<1> QED
  BY <1>2, <1>3, TurnTaken

LEMMA JobIdle == CacheInv => \A t \in Warmers : Rest(t) \in Job /\ IdleJob \in Job /\ Rest(t).pc = "idle"
                                                  /\ Rest(t).changed = FALSE
<1> SUFFICES ASSUME CacheInv, NEW t \in Warmers
             PROVE  Rest(t) \in Job /\ IdleJob \in Job /\ Rest(t).pc = "idle" /\ Rest(t).changed = FALSE
  OBVIOUS
<1>1. IdleJob \in Job /\ IdleJob.pc = "idle" /\ IdleJob.changed = FALSE
  BY NoQuoteDated DEF IdleJob, Job, CacheInv
<1>2. job[t].runs \in Nat
  BY DEF CacheInv, Job
<1> HIDE DEF IdleJob
<1> QED
  BY <1>1, <1>2 DEF Rest, Job

LEMMA StampDated ==
    ASSUME CacheInv, NEW q \in Dated, NEW dirty \in BOOLEAN
    PROVE  /\ [q EXCEPT !.ts = now, !.dirty = dirty] \in Dated
           /\ [q EXCEPT !.ts = now, !.dirty = dirty].ts = now
<1> DEFINE new == [q EXCEPT !.ts = now, !.dirty = dirty]
           now1 == [q EXCEPT !.ts = now]
<1>1. now1 \in Dated /\ now1.ts = now
  BY DEF Dated, CacheInv
<1>2. new = [now1 EXCEPT !.dirty = dirty]
  OBVIOUS
<1> HIDE DEF now1, new
<1>3. new \in Dated /\ new.ts = now
  BY <1>1, <1>2 DEF Dated
<1> QED
  BY <1>3 DEF new

LEMMA PutQuote ==
    ASSUME CacheInv, NEW m \in Memory, NEW s \in Symbols, NEW q \in Dated, NEW dirty \in BOOLEAN
    PROVE  /\ Put(m, s, q, dirty) \in Memory
           /\ Put(m, s, q, dirty).quotes[s].ts = now
           /\ \A z \in Symbols \ {s} : Put(m, s, q, dirty).quotes[z] = m.quotes[z]
<1> DEFINE new == [q EXCEPT !.ts = now, !.dirty = dirty]
<1>1. new \in Dated /\ new.ts = now
  BY StampDated
<1> HIDE DEF new
<1>2. Put(m, s, q, dirty) = [m EXCEPT !.quotes = [m.quotes EXCEPT ![s] = new]]
  BY DEF Put, new, Memory
<1>3. [m.quotes EXCEPT ![s] = new] \in Dates
  BY <1>1 DEF Memory, Dates
<1> QED
  BY <1>1, <1>2, <1>3 DEF Memory, Dates

LEMMA ObservedDated == CacheInv => \A at \in 0..now : Observed(at) \in Dated
<1> SUFFICES ASSUME CacheInv, NEW at \in 0..now PROVE Observed(at) \in Dated
  OBVIOUS
<1> DEFINE made == [NoQuote EXCEPT !.ts = at]
<1>1. made \in Dated
  BY NoQuoteDated DEF Dated
<1>2. Observed(at) = [made EXCEPT !.obs = at]
  BY DEF Observed
<1>3. at \in Nat
  BY DEF CacheInv
<1> HIDE DEF made
<1> QED
  BY <1>1, <1>2, <1>3 DEF Dated

LEMMA BeginTurn ==
    ASSUME CacheInv, NEW t \in Warmers, NEW S \in Chunks[t], Begin(t, S)
    PROVE  CacheInv' /\ Turn(t)
<1> DEFINE p == Proc[t]
           m == Loaded(M(t), FALSE, FALSE)
           cool == {s \in S : Cooling(p, s)}
           given == {s \in S \ cool : Known(StandIn(m, s))}
           ones == S \ (cool \cup given)
           quotes == [s \in Symbols |-> IF s \in given
                         THEN [StandIn(m, s) EXCEPT !.ts = now, !.dirty = TRUE] ELSE m.quotes[s]]
           j == [IdleJob EXCEPT !.pc = "ask", !.runs = job[t].runs + 1, !.todo = S, !.chunk = S,
                                !.batch = ones, !.multi = Cardinality(ones) > 1,
                                !.changed = given # {}, !.resolved = given \cup cool # {}]
<1>1. p \in Procs /\ M(t) = mem[p] /\ M(t) \in Memory /\ S \subseteq Symbols
  BY QuoteAssumption DEF M, CacheInv
<1>2. Reloads(M(t), m) /\ m \in Memory
  BY <1>1, LoadedReloads DEF Reloads
<1>3. /\ SetMem(t, [m EXCEPT !.quotes = quotes]) /\ SetJob(t, j) /\ job[t].pc = "idle"
      /\ UNCHANGED <<now, file>>
  BY ZenonT(40) DEF Begin
<1>4. ASSUME NEW s \in Symbols
      PROVE  /\ quotes[s] \in Dated
             /\ s \in given => quotes[s].ts = now
             /\ s \notin given => quotes[s] = m.quotes[s]
  <2>1. CASE s \in given
    <3>1. StandIn(m, s) \in Dated
      BY <1>2, StandInDated
    <3>2. PICK q \in Dated : q = StandIn(m, s)
      BY <3>1
    <3>3. quotes[s] = [q EXCEPT !.ts = now, !.dirty = TRUE]
      BY <2>1, <3>2
    <3> QED
      BY <2>1, <3>3, StampDated
  <2>2. CASE s \notin given
    <3>1. m.quotes[s] \in Dated
      BY <1>2 DEF Memory, Dates
    <3> QED
      BY <2>2, <3>1
  <2> QED
    BY <2>1, <2>2
<1>5. j \in Job /\ j.pc = "ask" /\ j.changed = (given # {})
  <2>1. ones \subseteq Symbols
    BY <1>1
  <2>2. job[t].runs + 1 \in Nat
    BY DEF CacheInv, Job
  <2> HIDE DEF given, cool, ones
  <2>11. Cardinality(ones) \in Nat
    BY <2>1, QuoteAssumption, FS_Subset, FS_CardinalityType
  <2> DEFINE j1 == [IdleJob EXCEPT !.pc = "ask"]
             j2 == [j1 EXCEPT !.runs = job[t].runs + 1]
             j3 == [j2 EXCEPT !.todo = S]
             j4 == [j3 EXCEPT !.chunk = S]
             j5 == [j4 EXCEPT !.batch = ones]
             j6 == [j5 EXCEPT !.multi = Cardinality(ones) > 1]
             j7 == [j6 EXCEPT !.changed = given # {}]
  <2>3. j = [j7 EXCEPT !.resolved = given \cup cool # {}]
    OBVIOUS
  <2>4. j1 \in Job /\ j1.pc = "ask"
    BY JobIdle DEF Job
  <2> HIDE DEF j, j1
  <2>5. j2 \in Job /\ j2.pc = "ask"
    BY <2>2, <2>4 DEF Job
  <2> HIDE DEF j2
  <2>6. j3 \in Job /\ j3.pc = "ask"
    BY <1>1, <2>5 DEF Job
  <2> HIDE DEF j3
  <2>7. j4 \in Job /\ j4.pc = "ask"
    BY <1>1, <2>6 DEF Job
  <2> HIDE DEF j4
  <2>8. j5 \in Job /\ j5.pc = "ask"
    BY <2>1, <2>7 DEF Job
  <2> HIDE DEF j5
  <2>9. j6 \in Job /\ j6.pc = "ask"
    <3>1. CASE Cardinality(ones) > 1
      <4>1. j6 = [j5 EXCEPT !.multi = TRUE]
        BY <2>11, <3>1
      <4> HIDE DEF j6
      <4> QED
        BY <2>8, <4>1 DEF Job
    <3>2. CASE ~(Cardinality(ones) > 1)
      <4>2. (Cardinality(ones) > 1) = FALSE
        BY <3>2
      <4>1. j6 = [j5 EXCEPT !.multi = FALSE]
        BY <4>2, Zenon
      <4> HIDE DEF j6
      <4> QED
        BY <2>8, <4>1 DEF Job
    <3> QED
      BY <3>1, <3>2
  <2> HIDE DEF j6
  <2>10. j7 \in Job /\ j7.pc = "ask" /\ j7.changed = (given # {})
    BY <2>9 DEF Job
  <2> HIDE DEF j7
  <2> QED
    BY <2>3, <2>10 DEF Job
<1>6. quotes \in Dates
  <2> HIDE DEF given, m
  <2> QED
    BY <1>4 DEF Dates
<1> DEFINE n == [m EXCEPT !.quotes = quotes]
<1> HIDE DEF quotes, j, m, given
<1>7. n \in Memory /\ n.quotes = quotes
  BY <1>2, <1>6 DEF Memory
<1>8. ~WillWrite(t)
  BY <1>3 DEF WillWrite
<1> HIDE DEF n
<1>9. ASSUME NEW s \in Symbols
      PROVE  \/ n.quotes[s].ts = mem[p].quotes[s].ts
             \/ n.quotes[s].ts = file.quotes[s].ts /\ n.quotes[s].ts > mem[p].quotes[s].ts
             \/ n.quotes[s].ts = now /\ j.changed
  BY <1>1, <1>2, <1>4, <1>5, <1>7 DEF Reloads
<1>10. SetMem(t, n)
  BY <1>3 DEF n
<1> QED
  BY <1>3, <1>5, <1>7, <1>8, <1>9, <1>10, TurnTaken

LEMMA AskTurn ==
    ASSUME CacheInv, NEW t \in Warmers, Ask(t)
    PROVE  CacheInv' /\ Turn(t)
<1>1. PICK got \in SUBSET job[t].batch :
          SetJob(t, [job[t] EXCEPT !.pc = "settle", !.got = got, !.asked = now])
  BY DEF Ask
<1> DEFINE j == [job[t] EXCEPT !.pc = "settle", !.got = got, !.asked = now]
<1>2. job[t] \in Job /\ got \subseteq Symbols /\ now \in 0..now
  BY DEF CacheInv, Job
<1>3. j \in Job /\ j.pc = "settle" /\ j.changed = job[t].changed
  <2> DEFINE j1 == [job[t] EXCEPT !.pc = "settle"]
             j2 == [j1 EXCEPT !.got = got]
  <2>1. j1 \in Job /\ j1.pc = "settle" /\ j1.changed = job[t].changed
    BY <1>2 DEF Job
  <2> HIDE DEF j1
  <2>2. j2 \in Job /\ j2.pc = "settle" /\ j2.changed = job[t].changed
    BY <1>2, <2>1 DEF Job
  <2>3. j = [j2 EXCEPT !.asked = now]
    BY DEF j1
  <2> HIDE DEF j2, j
  <2> QED
    BY <1>2, <2>2, <2>3 DEF Job
<1>4. SetJob(t, j) /\ UNCHANGED <<now, file, mem>> /\ job[t].pc = "ask"
  BY <1>1 DEF Ask
<1> HIDE DEF j
<1> QED
  BY <1>3, <1>4, TurnReads DEF WillWrite

\* A thread that takes the payload pay for symbol s.
LEMMA HeldJob ==
    ASSUME CacheInv, NEW t \in Warmers, NEW s \in Symbols, NEW pay \in Dated, NEW alone \in BOOLEAN,
           Held(t, s, pay, alone)
    PROVE  \E j \in Job : /\ SetJob(t, j) /\ j.pc = "hold" /\ j.pay = pay
                          /\ j.changed = job[t].changed
<1> DEFINE j == [job[t] EXCEPT !.pc = "hold", !.sym = s, !.pay = pay, !.alone = alone, !.todo = @ \ {s}]
           j1 == [job[t] EXCEPT !.pc = "hold"]
           j2 == [j1 EXCEPT !.sym = s]
           j3 == [j2 EXCEPT !.pay = pay]
           j4 == [j3 EXCEPT !.alone = alone]
<1>1. job[t] \in Job /\ job[t].todo \ {s} \subseteq Symbols
  BY DEF CacheInv, Job
<1>2. j1 \in Job /\ j1.pc = "hold" /\ j1.changed = job[t].changed /\ j1.todo = job[t].todo
  BY <1>1 DEF Job
<1>3. j = [j4 EXCEPT !.todo = @ \ {s}]
  OBVIOUS
<1> HIDE DEF j1, j
<1>4. j2 \in Job /\ j2.pc = "hold" /\ j2.changed = job[t].changed /\ j2.todo = job[t].todo
  BY <1>2 DEF Job
<1> HIDE DEF j2
<1>5. j3 \in Job /\ j3.pc = "hold" /\ j3.changed = job[t].changed /\ j3.pay = pay /\ j3.todo = job[t].todo
  BY <1>4 DEF Job
<1> HIDE DEF j3
<1>6. j4 \in Job /\ j4.pc = "hold" /\ j4.changed = job[t].changed /\ j4.pay = pay /\ j4.todo = job[t].todo
  BY <1>5 DEF Job
<1> HIDE DEF j4
<1>7. j \in Job /\ j.pc = "hold" /\ j.changed = job[t].changed /\ j.pay = pay
  BY <1>1, <1>3, <1>6 DEF Job
<1> QED
  BY <1>7 DEF Held, j

LEMMA TakeAnswerTurn ==
    ASSUME CacheInv, NEW t \in Warmers, NEW s \in Symbols, TakeAnswer(t, s)
    PROVE  CacheInv' /\ Turn(t)
<1>1. job[t].asked \in 0..now /\ job[t].changed \in BOOLEAN
  BY DEF CacheInv, Job
<1>2. Observed(job[t].asked) \in Dated
  BY <1>1, ObservedDated
<1>3. PICK j \in Job : SetJob(t, j) /\ j.pc = "hold" /\ j.changed = job[t].changed
  BY <1>2, HeldJob DEF TakeAnswer
<1> QED
  BY <1>3, TurnReads DEF TakeAnswer, WillWrite

LEMMA TakeCachedTurn ==
    ASSUME CacheInv, NEW t \in Warmers, NEW s \in Symbols, TakeCached(t, s)
    PROVE  CacheInv' /\ Turn(t)
<1>1. M(t) = mem[Proc[t]] /\ M(t) \in Memory
  BY QuoteAssumption DEF M, CacheInv
<1>2. Reloads(M(t), ReadFor(M(t), s, TRUE)) /\ CachedPayload(M(t), s, TRUE) \in Dated
  BY <1>1, ReadReloads, CachedDated
<1>3. PICK j \in Job : SetJob(t, j) /\ j.pc = "hold" /\ j.changed = job[t].changed
  BY <1>2, HeldJob DEF TakeCached
<1>4. /\ SetMem(t, ReadFor(M(t), s, TRUE)) /\ job[t].pc = "settle" /\ UNCHANGED <<now, file>>
  BY DEF TakeCached, Missing
<1> QED
  BY <1>1, <1>2, <1>3, <1>4, TurnReads DEF WillWrite

LEMMA TakeAloneTurn ==
    ASSUME CacheInv, NEW t \in Warmers, NEW s \in Symbols, TakeAlone(t, s)
    PROVE  CacheInv' /\ Turn(t)
<1> DEFINE m == ReadFor(M(t), s, TRUE)
           alone == ~job[t].multi
<1>1. M(t) = mem[Proc[t]] /\ M(t) \in Memory
  BY QuoteAssumption DEF M, CacheInv
<1>2. Reloads(M(t), m) /\ m \in Memory
  BY <1>1, ReadReloads DEF Reloads
<1>3. now \in 0..now /\ alone \in BOOLEAN
  BY DEF CacheInv
<1>4. Observed(now) \in Dated /\ StandIn(m, s) \in Dated /\ CachedPayload(m, s, TRUE) \in Dated
  BY <1>2, <1>3, ObservedDated, StandInDated, CachedDated
<1>5. job[t].pc = "settle" /\ UNCHANGED <<now, file>>
  BY DEF TakeAlone, Missing
<1> DEFINE stood == [Observed(now) EXCEPT !.ref = TRUE]
<1>6. stood \in Dated /\ stood.ts = now
  <2>1. Observed(now).ts = now
    BY DEF Observed, NoQuote
  <2> QED
    BY <1>4, <2>1 DEF Dated
<1>7. \/ SetMem(t, m) /\ \E pay \in Dated, a \in BOOLEAN : Held(t, s, pay, a)
      \/ /\ Reference[s] # "none" /\ SetMem(t, Put(m, Reference[s], Observed(now), FALSE))
         /\ Held(t, s, stood, TRUE)
  <2> HIDE DEF m, alone, stood
  <2> QED
    BY <1>3, <1>4 DEF TakeAlone, m, alone, stood
<1> HIDE DEF m, alone, stood
<1>8. CASE SetMem(t, m) /\ \E pay \in Dated, a \in BOOLEAN : Held(t, s, pay, a)
  <2>1. PICK j \in Job : SetJob(t, j) /\ j.pc = "hold" /\ j.changed = job[t].changed
    BY <1>8, HeldJob
  <2> QED
    BY <1>1, <1>2, <1>5, <1>8, <2>1, TurnReads DEF WillWrite
<1>9. CASE /\ Reference[s] # "none" /\ SetMem(t, Put(m, Reference[s], Observed(now), FALSE))
           /\ Held(t, s, stood, TRUE)
  <2>1. Reference[s] \in Symbols
    BY <1>9, QuoteAssumption
  <2>2. PICK j \in Job : SetJob(t, j) /\ j.pc = "hold" /\ j.pay = stood /\ j.changed = job[t].changed
    BY ZenonT(40), <1>6, <1>9, HeldJob
  <2> DEFINE n == Put(m, Reference[s], Observed(now), FALSE)
  <2>3. /\ n \in Memory /\ n.quotes[Reference[s]].ts = now
        /\ \A z \in Symbols \ {Reference[s]} : n.quotes[z] = m.quotes[z]
    BY ZenonT(40), <1>2, <1>4, <2>1, PutQuote
  <2>4. now = 0 \/ Known(j.pay)
    BY <1>6, <2>2 DEF Known, CacheInv
  <2>5. SetMem(t, n)
    BY <1>9
  <2> HIDE DEF n
  <2>6. ASSUME NEW z \in Symbols
        PROVE  \/ n.quotes[z].ts = mem[Proc[t]].quotes[z].ts
               \/ n.quotes[z].ts = file.quotes[z].ts /\ n.quotes[z].ts > mem[Proc[t]].quotes[z].ts
               \/ n.quotes[z].ts = now /\ Known(j.pay)
    <3>1. mem[Proc[t]].quotes[z].ts \in 0..now
      BY <1>1 DEF Memory, Dates, Dated
    <3>2. CASE z = Reference[s]
      BY <2>3, <2>4, <3>1, <3>2
    <3>3. CASE z # Reference[s]
      BY <1>1, <1>2, <2>3, <3>3 DEF Reloads
    <3> QED
      BY <3>2, <3>3
  <2> QED
    BY <1>5, <2>2, <2>3, <2>5, <2>6, TurnTaken DEF WillWrite
<1> QED
  BY <1>7, <1>8, <1>9

\* A payload that is known is cached: from then on the thread has to write.
LEMMA CacheTurn ==
    ASSUME CacheInv, NEW t \in Warmers, Cache(t)
    PROVE  CacheInv' /\ Turn(t)
<1> DEFINE q == job[t].pay
           s == job[t].sym
           n == IF Known(q) THEN Put(M(t), s, q, ~job[t].alone) ELSE M(t)
           changed == Changes(t)
           resolved == job[t].resolved \/ Known(q)
           pc == IF job[t].alone THEN "write" ELSE "settle"
           j == [job[t] EXCEPT !.pc = pc, !.changed = changed, !.resolved = resolved]
<1>1. M(t) = mem[Proc[t]] /\ M(t) \in Memory /\ job[t] \in Job
  BY QuoteAssumption DEF M, CacheInv
<1>2. SetMem(t, n) /\ SetJob(t, j) /\ UNCHANGED <<now, file>> /\ job[t].pc = "hold"
  BY DEF Cache
<1>3. changed \in BOOLEAN /\ resolved \in BOOLEAN /\ changed = (job[t].changed \/ Known(q))
  BY <1>1 DEF Changes, Job
<1>4. j \in Job /\ j.pc \in {"write", "settle"} /\ j.changed = changed
  <2> HIDE DEF changed, resolved
  <2> DEFINE j1 == [job[t] EXCEPT !.pc = pc]
             j2 == [j1 EXCEPT !.changed = changed]
  <2>1. j1 \in Job /\ j1.pc \in {"write", "settle"}
    BY <1>1 DEF Job
  <2>2. j = [j2 EXCEPT !.resolved = resolved]
    OBVIOUS
  <2> HIDE DEF j1, j
  <2>3. j2 \in Job /\ j2.pc \in {"write", "settle"} /\ j2.changed = changed
    BY <1>3, <2>1 DEF Job
  <2> HIDE DEF j2
  <2> QED
    BY <1>3, <2>2, <2>3 DEF Job
<1> HIDE DEF j, changed
<1>5. n \in Memory /\ \A z \in Symbols :
          n.quotes[z].ts = mem[Proc[t]].quotes[z].ts \/ (n.quotes[z].ts = now /\ Known(q))
  <2>1. CASE Known(q)
    <3>1. CASE s \in Symbols
      <4>1. q \in Dated /\ (~job[t].alone) \in BOOLEAN
        BY <1>1 DEF Job
      <4>3. PICK dirty \in BOOLEAN : dirty = ~job[t].alone
        BY <4>1
      <4>4. /\ Put(M(t), s, q, dirty) \in Memory
            /\ Put(M(t), s, q, dirty).quotes[s].ts = now
            /\ \A z \in Symbols \ {s} : Put(M(t), s, q, dirty).quotes[z] = M(t).quotes[z]
        BY <1>1, <3>1, <4>1, PutQuote
      <4>2. /\ Put(M(t), s, q, ~job[t].alone) \in Memory
            /\ Put(M(t), s, q, ~job[t].alone).quotes[s].ts = now
            /\ \A z \in Symbols \ {s} : Put(M(t), s, q, ~job[t].alone).quotes[z] = M(t).quotes[z]
        BY <4>3, <4>4
      <4> HIDE DEF s, q
      <4> QED
        BY <1>1, <2>1, <3>1, <4>2
    <3>2. CASE s \notin Symbols
      <4>1. Put(M(t), s, q, ~job[t].alone) = M(t)
        BY <1>1, <3>2 DEF Put, Memory, Dates
      <4> QED
        BY <1>1, <2>1, <4>1
    <3> QED
      BY <3>1, <3>2
  <2>2. CASE ~Known(q)
    BY <1>1, <2>2
  <2> QED
    BY <2>1, <2>2
<1> HIDE DEF n, q
<1> QED
  BY <1>2, <1>3, <1>4, <1>5, TurnTaken DEF WillWrite, q

LEMMA SettledTurn ==
    ASSUME CacheInv, NEW t \in Warmers, Settled(t)
    PROVE  CacheInv' /\ Turn(t)
<1>1. job[t] \in Job
  BY DEF CacheInv
<1>2. CASE job[t].changed
  <2> DEFINE j == [job[t] EXCEPT !.pc = "write"]
  <2>1. j \in Job /\ j.pc = "write" /\ j.changed
    BY <1>1, <1>2 DEF Job
  <2>2. SetJob(t, j) /\ UNCHANGED <<now, file, mem>> /\ job[t].pc = "settle"
    BY <1>2 DEF Settled
  <2> HIDE DEF j
  <2> QED
    BY <2>1, <2>2, TurnReads
<1>3. CASE ~job[t].changed
  <2>1. SetJob(t, Rest(t)) /\ UNCHANGED <<now, file, mem>> /\ job[t].pc = "settle"
    BY <1>3 DEF Settled
  <2>2. Rest(t) \in Job /\ Rest(t).pc = "idle"
    BY JobIdle
  <2> QED
    BY <1>3, <2>1, <2>2, TurnReads DEF WillWrite
<1> QED
  BY <1>2, <1>3

LEMMA ClearTurn ==
    ASSUME CacheInv, NEW t \in Warmers, Clear(t)
    PROVE  CacheInv' /\ Turn(t)
<1> DEFINE quotes == [s \in Symbols |-> [M(t).quotes[s] EXCEPT !.dirty = FALSE]]
           n == [M(t) EXCEPT !.mtime = file.mtime, !.quotes = quotes]
           n1 == [M(t) EXCEPT !.mtime = file.mtime]
<1>1. M(t) = mem[Proc[t]] /\ M(t) \in Memory /\ job[t] \in Job /\ file.mtime \in Nat
  BY QuoteAssumption DEF M, CacheInv
<1>2. \A s \in Symbols : quotes[s] \in Dated /\ quotes[s].ts = M(t).quotes[s].ts
  BY <1>1 DEF Memory, Dates, Dated
<1>3. quotes \in Dates
  BY <1>2 DEF Dates
<1>4. n1 \in Memory /\ n1.quotes = M(t).quotes
  BY <1>1 DEF Memory
<1>5. n = [n1 EXCEPT !.quotes = quotes]
  BY <1>4
<1>6. SetMem(t, n) /\ UNCHANGED <<now, file>> /\ job[t].pc = "replaced"
  BY DEF Clear
<1> DEFINE j1 == [job[t] EXCEPT !.pc = "hold"]
           j == IF job[t].alone THEN [job[t] EXCEPT !.pc = "hold", !.alone = FALSE] ELSE Rest(t)
<1>7. SetJob(t, j)
  BY DEF Clear
<1>8. j \in Job /\ j.pc \in {"hold", "idle"}
  <2>1. j1 \in Job /\ j1.pc = "hold"
    BY <1>1 DEF Job
  <2>2. [job[t] EXCEPT !.pc = "hold", !.alone = FALSE] = [j1 EXCEPT !.alone = FALSE]
    OBVIOUS
  <2> HIDE DEF j1
  <2>3. [j1 EXCEPT !.alone = FALSE] \in Job /\ [j1 EXCEPT !.alone = FALSE].pc = "hold"
    BY <2>1 DEF Job
  <2>4. Rest(t) \in Job /\ Rest(t).pc = "idle"
    BY JobIdle
  <2> QED
    BY <2>2, <2>3, <2>4
<1>9. n \in Memory /\ n.quotes = quotes
  <2> HIDE DEF quotes, n, n1
  <2> QED
    BY <1>3, <1>4, <1>5 DEF Memory
<1>10. \A s \in Symbols : n.quotes[s].ts = mem[Proc[t]].quotes[s].ts
  BY <1>1, <1>2, <1>9
<1> HIDE DEF n, j
<1> QED
  BY <1>6, <1>7, <1>8, <1>9, <1>10, TurnTaken DEF WillWrite

---------------------------------------------------------------------------
(* The other steps.                                                          *)

\* What thread t would write: what memory holds, and what the file holds of the rest.
CopyTaken(t) ==
    /\ UNCHANGED <<now, file, mem>>
    /\ job[t].pc = "write" /\ ~Persisting(Proc[t]) /\ job'[t].pc = "copied"
    /\ \A u \in Warmers \ {t} : job'[u] = job[u]
    /\ \A s \in Symbols : job'[t].copy[s].ts =
          IF Known(mem[Proc[t]].quotes[s]) THEN mem[Proc[t]].quotes[s].ts ELSE file.quotes[s].ts

LEMMA CopyStep ==
    ASSUME CacheInv, NEW t \in Warmers, Copy(t)
    PROVE  CacheInv' /\ CopyTaken(t)
<1> DEFINE copy == [s \in Symbols |-> IF Known(M(t).quotes[s]) THEN [M(t).quotes[s] EXCEPT !.dirty = FALSE]
                                       ELSE file.quotes[s]]
           j1 == [job[t] EXCEPT !.pc = "copied"]
           j == [job[t] EXCEPT !.pc = "copied", !.copy = copy]
<1>1. M(t) = mem[Proc[t]] /\ M(t) \in Memory /\ job[t] \in Job /\ file.quotes \in Dates
  BY QuoteAssumption DEF M, CacheInv
<1>2. ASSUME NEW s \in Symbols
      PROVE  /\ copy[s] \in Dated
             /\ copy[s].ts = IF Known(M(t).quotes[s]) THEN M(t).quotes[s].ts ELSE file.quotes[s].ts
  BY ZenonT(40), <1>1 DEF Memory, Dates, Dated
<1>3. copy \in Dates
  BY <1>2 DEF Dates
<1>4. SetJob(t, j) /\ UNCHANGED <<now, file, mem>> /\ job[t].pc = "write" /\ ~Persisting(Proc[t])
  BY DEF Copy
<1>5. j1 \in Job /\ j1.pc = "copied"
  BY <1>1 DEF Job
<1>6. j = [j1 EXCEPT !.copy = copy]
  OBVIOUS
<1> HIDE DEF copy, j1, j
<1>7. j \in Job /\ j.pc = "copied" /\ j.copy = copy
  BY <1>3, <1>5, <1>6 DEF Job
<1>8. job' \in [Warmers -> Job] /\ job'[t] = j /\ \A u \in Warmers \ {t} : job'[u] = job[u]
  BY <1>4, <1>7 DEF SetJob, CacheInv
<1>9. Dated' = Dated
  BY <1>4 DEF Dated
<1>10. Dates' = Dates
  BY <1>9 DEF Dates
<1>11. Memory' = Memory /\ Job' = Job
  BY <1>4, <1>9, <1>10 DEF Memory, Job
<1>12. CacheInv'
  BY <1>4, <1>8, <1>10, <1>11 DEF CacheInv
<1>13. CopyTaken(t)
  BY <1>1, <1>2, <1>4, <1>7, <1>8 DEF CopyTaken
<1> QED
  BY <1>12, <1>13

Written(t) ==
    /\ UNCHANGED <<now, mem>>
    /\ job[t].pc = "copied" /\ job'[t].pc = "replaced"
    /\ \A u \in Warmers \ {t} : job'[u] = job[u]
    /\ file'.quotes = job[t].copy

LEMMA ReplaceStep ==
    ASSUME CacheInv, NEW t \in Warmers, Replace(t)
    PROVE  CacheInv' /\ Written(t)
<1> DEFINE j1 == [job[t] EXCEPT !.pc = "replaced"]
           j == [job[t] EXCEPT !.pc = "replaced", !.copy = NoQuotes]
<1>1. job[t] \in Job /\ NoQuotes \in Dates /\ file.mtime + 1 \in Nat /\ job[t].copy \in Dates
  BY NoQuoteDated DEF CacheInv, Job
<1>2. SetJob(t, j) /\ UNCHANGED <<now, mem>> /\ job[t].pc = "copied"
      /\ file' = [quotes |-> job[t].copy, mtime |-> file.mtime + 1]
  BY DEF Replace
<1>3. j1 \in Job /\ j1.pc = "replaced"
  BY <1>1 DEF Job
<1>4. j = [j1 EXCEPT !.copy = NoQuotes]
  OBVIOUS
<1> HIDE DEF j1, j
<1>5. j \in Job /\ j.pc = "replaced"
  BY <1>1, <1>3, <1>4 DEF Job
<1>6. job' \in [Warmers -> Job] /\ job'[t] = j /\ \A u \in Warmers \ {t} : job'[u] = job[u]
  BY <1>2, <1>5 DEF SetJob, CacheInv
<1>7. Dated' = Dated
  BY <1>2 DEF Dated
<1>8. Dates' = Dates
  BY <1>7 DEF Dates
<1>9. Memory' = Memory /\ Job' = Job
  BY <1>2, <1>7, <1>8 DEF Memory, Job
<1>10. CacheInv'
  BY <1>1, <1>2, <1>6, <1>8, <1>9 DEF CacheInv
<1>11. Written(t)
  BY <1>2, <1>5, <1>6 DEF Written
<1> QED
  BY <1>10, <1>11

LEMMA TickStep == CacheInv /\ Tick => CacheInv'
<1> SUFFICES ASSUME CacheInv, Tick PROVE CacheInv'
  OBVIOUS
<1>1. now' = now + 1 /\ now' \in Nat /\ UNCHANGED <<file, mem, job>>
  BY DEF Tick, CacheInv
<1>2. 0..now \subseteq 0..now'
  BY <1>1 DEF CacheInv
<1>3. Dated \subseteq Dated'
  BY <1>2 DEF Dated
<1>4. Dates \subseteq Dates'
  BY <1>3 DEF Dates
<1>5. Memory \subseteq Memory'
  BY <1>4 DEF Memory
<1>6. Job \subseteq Job'
  BY <1>2, <1>3, <1>4 DEF Job
<1>7. file' \in [quotes : Dates', mtime : Nat]
  BY <1>1, <1>4 DEF CacheInv
<1> QED
  BY <1>1, <1>5, <1>6, <1>7 DEF CacheInv

LEMMA ServeStep ==
    ASSUME CacheInv, NEW p \in Procs, NEW s \in Symbols, NEW stale \in BOOLEAN, Serve(p, s, stale)
    PROVE  /\ CacheInv' /\ UNCHANGED <<now, file, job>>
           /\ Reloads(mem[p], mem'[p]) /\ \A q \in Procs \ {p} : mem'[q] = mem[q]
<1> DEFINE n == PublicRead(mem[p], s, stale)
<1>1. mem' = [mem EXCEPT ![p] = n] /\ UNCHANGED <<now, file, job>>
  BY DEF Serve
<1>2. mem[p] \in Memory
  BY DEF CacheInv
<1>3. Reloads(mem[p], n) /\ n \in Memory
  BY <1>2, ReadReloads DEF Reloads
<1> HIDE DEF n
<1>4. mem' \in [Procs -> Memory] /\ mem'[p] = n /\ \A q \in Procs \ {p} : mem'[q] = mem[q]
  BY <1>1, <1>3 DEF CacheInv
<1>5. Dated' = Dated
  BY <1>1 DEF Dated
<1>6. Dates' = Dates
  BY <1>5 DEF Dates
<1>7. Memory' = Memory /\ Job' = Job
  BY <1>1, <1>5, <1>6 DEF Memory, Job
<1> QED
  BY <1>1, <1>3, <1>4, <1>6, <1>7 DEF CacheInv

LEMMA RestartStep ==
    ASSUME CacheInv, NEW p \in Procs, Restart(p)
    PROVE  /\ CacheInv' /\ UNCHANGED <<now, file>>
           /\ mem'[p] = FreshMemory /\ \A q \in Procs \ {p} : mem'[q] = mem[q]
           /\ \A t \in Warmers : IF Proc[t] = p THEN job'[t].pc = "idle" ELSE job'[t] = job[t]
<1>1. /\ mem' = [mem EXCEPT ![p] = FreshMemory] /\ UNCHANGED <<now, file>>
      /\ job' = [t \in Warmers |-> IF Proc[t] = p THEN Rest(t) ELSE job[t]]
  BY DEF Restart
<1>2. FreshMemory \in Memory
  BY NoQuoteDated
<1>3. mem' \in [Procs -> Memory] /\ mem'[p] = FreshMemory /\ \A q \in Procs \ {p} : mem'[q] = mem[q]
  BY <1>1, <1>2 DEF CacheInv
<1>4. ASSUME NEW t \in Warmers PROVE Rest(t) \in Job /\ Rest(t).pc = "idle"
  BY JobIdle
<1>5. job' \in [Warmers -> Job]
  BY <1>1, <1>4 DEF CacheInv
<1>6. Dated' = Dated
  BY <1>1 DEF Dated
<1>7. Dates' = Dates
  BY <1>6 DEF Dates
<1>8. Memory' = Memory /\ Job' = Job
  BY <1>1, <1>6, <1>7 DEF Memory, Job
<1> QED
  BY <1>1, <1>3, <1>4, <1>5, <1>7, <1>8 DEF CacheInv

---------------------------------------------------------------------------
(* Every step.                                                               *)

LEMMA RefreshStep ==
    ASSUME CacheInv, NEW t \in Warmers, Refresh(t)
    PROVE  CacheInv' /\ (Turn(t) \/ CopyTaken(t) \/ Written(t))
BY BeginTurn, AskTurn, TakeAnswerTurn, TakeCachedTurn, TakeAloneTurn, CacheTurn, SettledTurn,
   ClearTurn, CopyStep, ReplaceStep DEF Refresh, Settle

LEMMA CacheInit == Init => CacheInv
<1> SUFFICES ASSUME Init PROVE CacheInv
  OBVIOUS
<1>1. NoQuote \in Dated
  BY DEF Init, NoQuote, Dated
<1>2. NoQuotes \in Dates
  BY <1>1 DEF NoQuotes, Dates
<1>3. FreshMemory \in Memory
  BY <1>2 DEF FreshMemory, Memory
<1>4. IdleJob \in Job
  BY <1>1, <1>2 DEF IdleJob, Job, Init
<1> QED
  BY <1>2, <1>3, <1>4 DEF Init, CacheInv

LEMMA CacheStep == CacheInv /\ [Next]_vars => CacheInv'
<1> SUFFICES ASSUME CacheInv, [Next]_vars PROVE CacheInv'
  OBVIOUS
<1>1. CASE UNCHANGED vars
  <2>1. UNCHANGED <<now, file, mem, job>>
    BY <1>1 DEF vars
  <2>2. Dated' = Dated
    BY <2>1 DEF Dated
  <2>3. Dates' = Dates
    BY <2>2 DEF Dates
  <2>4. Memory' = Memory /\ Job' = Job
    BY <2>1, <2>2, <2>3 DEF Memory, Job
  <2> QED
    BY <2>1, <2>3, <2>4 DEF CacheInv
<1> QED
  BY <1>1, TickStep, ServeStep, RestartStep, RefreshStep DEF Next

LEMMA CacheAlways == Spec => []CacheInv
BY CacheInit, CacheStep, PTL DEF Spec

\* In every step a quote of a memory stays, is replaced by a later one, or is
\* cached as of now; or the process has restarted.
LEMMA MovesForward ==
    ASSUME CacheInv, CacheInv', [Next]_vars, NEW p \in Procs, NEW s \in Symbols
    PROVE  mem'[p].quotes[s].ts >= mem[p].quotes[s].ts \/ mem'[p] = FreshMemory
<1>1. mem[p].quotes[s].ts \in 0..now /\ mem'[p].quotes[s].ts \in Nat
  <2>1. mem'[p].quotes[s] \in Dated'
    BY DEF CacheInv, Memory, Dates
  <2>2. now' \in Nat
    BY DEF CacheInv
  <2> QED
    BY <2>1, <2>2 DEF CacheInv, Memory, Dates, Dated
<1>2. now \in Nat
  BY DEF CacheInv
<1>3. CASE UNCHANGED mem
  BY <1>1, <1>3
<1>4. ASSUME NEW t \in Warmers, Refresh(t)
      PROVE  mem'[p].quotes[s].ts >= mem[p].quotes[s].ts
  <2>1. CASE Turn(t)
    <3>1. \/ mem'[p].quotes[s].ts = mem[p].quotes[s].ts
          \/ mem'[p].quotes[s].ts > mem[p].quotes[s].ts
          \/ mem'[p].quotes[s].ts = now
      BY <2>1 DEF Turn
    <3> QED
      BY <1>1, <1>2, <3>1
  <2>2. CASE CopyTaken(t) \/ Written(t)
    BY <1>1, <2>2 DEF CopyTaken, Written
  <2> QED
    BY <1>4, <2>1, <2>2, RefreshStep
<1>5. ASSUME NEW q \in Procs, NEW z \in Symbols, NEW stale \in BOOLEAN, Serve(q, z, stale)
      PROVE  mem'[p].quotes[s].ts >= mem[p].quotes[s].ts
  <2>1. Reloads(mem[q], mem'[q]) /\ \A o \in Procs \ {q} : mem'[o] = mem[o]
    BY <1>5, ServeStep
  <2>2. CASE p = q
    <3>1. \/ mem'[p].quotes[s].ts = mem[p].quotes[s].ts
          \/ mem'[p].quotes[s].ts > mem[p].quotes[s].ts
      BY <2>1, <2>2 DEF Reloads
    <3> QED
      BY <1>1, <3>1
  <2>3. CASE p # q
    BY <1>1, <2>1, <2>3
  <2> QED
    BY <2>2, <2>3
<1>6. ASSUME NEW q \in Procs, Restart(q)
      PROVE  mem'[p].quotes[s].ts >= mem[p].quotes[s].ts \/ mem'[p] = FreshMemory
  BY <1>1, <1>6, RestartStep
<1> QED
  BY <1>3, <1>4, <1>5, <1>6 DEF Next, Tick, vars

\* No reload, write or refresh of any thread puts a quote in the place of one
\* that the same process cached later (_load_price_cache_once, _cache_price_payload).
THEOREM ForwardHolds == Spec => QuotesMoveForward
<1>1. CacheInv /\ CacheInv' /\ [Next]_vars =>
          \A p \in Procs, s \in Symbols :
              mem'[p].quotes[s].ts >= mem[p].quotes[s].ts \/ mem'[p] = FreshMemory
  BY MovesForward
<1>2. CacheInv /\ CacheInv' /\ [Next]_vars =>
          [\A p \in Procs, s \in Symbols :
              mem'[p].quotes[s].ts >= mem[p].quotes[s].ts \/ mem'[p] = FreshMemory]_vars
  BY <1>1
<1> QED
  BY <1>2, CacheAlways, PTL DEF Spec, QuotesMoveForward

---------------------------------------------------------------------------
(***************************************************************************)
(* The file and the memory of the one process that refreshes.  What memory *)
(* knows is at least as late as the file; where it is later, a thread will *)
(* still write it, or holds a copy of it.                                  *)
(***************************************************************************)
Refreshes(p) == \A t \in Warmers : Proc[t] = p

OneCopies == \A t, u \in Warmers :
    job[t].pc \in {"copied", "replaced"} /\ job[u].pc \in {"copied", "replaced"} => t = u

FileKept(p, s) ==
    /\ mem[p].quotes[s].ts = 0 \/ file.quotes[s].ts <= mem[p].quotes[s].ts
    /\ \/ mem[p].quotes[s].ts <= file.quotes[s].ts
       \/ \E t \in Warmers : WillWrite(t)
       \/ \E t \in Warmers : job[t].pc = "copied" /\ mem[p].quotes[s].ts <= job[t].copy[s].ts
    /\ \A t \in Warmers : job[t].pc = "copied" =>
          /\ file.quotes[s].ts <= job[t].copy[s].ts
          /\ job[t].copy[s].ts <= mem[p].quotes[s].ts \/ job[t].copy[s].ts = file.quotes[s].ts

KeepInv ==
    \A p \in Procs : Refreshes(p) => OneCopies /\ \A s \in Symbols : FileKept(p, s)

LEMMA Times ==
    ASSUME CacheInv, NEW s \in Symbols
    PROVE  /\ now \in Nat /\ file.quotes[s].ts \in 0..now
           /\ \A p \in Procs : mem[p].quotes[s].ts \in 0..now
           /\ \A t \in Warmers : job[t].copy[s].ts \in 0..now
<1>1. now \in Nat /\ file.quotes[s] \in Dated
  BY DEF CacheInv, Dates
<1>2. \A p \in Procs : mem[p].quotes[s] \in Dated
  BY DEF CacheInv, Memory, Dates
<1>3. \A t \in Warmers : job[t].copy[s] \in Dated
  BY DEF CacheInv, Job, Dates
<1> QED
  BY <1>1, <1>2, <1>3 DEF Dated

\* What thread t has to write, it still has to write.
StillWrites(t) ==
    /\ WillWrite(t) => WillWrite(t)'
    /\ job[t].pc = "copied" <=> job'[t].pc = "copied"
    /\ job[t].pc = "copied" => job'[t].copy = job[t].copy

\* A move of one symbol's quote with the rest of the write unchanged.
LEMMA KeptByMove ==
    ASSUME CacheInv, CacheInv', NEW p \in Procs, NEW s \in Symbols, FileKept(p, s),
           UNCHANGED <<now, file>>, \A t \in Warmers : StillWrites(t),
           \/ mem'[p].quotes[s].ts = mem[p].quotes[s].ts
           \/ /\ mem'[p].quotes[s].ts = file.quotes[s].ts
              /\ mem'[p].quotes[s].ts > mem[p].quotes[s].ts
           \/ mem'[p].quotes[s].ts = now /\ \E t \in Warmers : WillWrite(t)'
    PROVE  FileKept(p, s)'
<1> DEFINE x == mem[p].quotes[s].ts
           y == mem'[p].quotes[s].ts
           f == file.quotes[s].ts
<1>1. now \in Nat /\ f \in 0..now /\ x \in 0..now /\ y \in Nat /\ file' = file
      /\ \A t \in Warmers : job[t].copy[s].ts \in 0..now
  BY Times
<1>2. y = x \/ (y = f /\ y > x) \/ (y = now /\ \E t \in Warmers : WillWrite(t)')
  OBVIOUS
<1>3. y >= x
  BY <1>1, <1>2
<1>4. y = 0 \/ f <= y
  <2>1. x = 0 \/ f <= x
    BY DEF FileKept
  <2> HIDE DEF x, y, f
  <2> QED
    BY <1>1, <1>2, <1>3, <2>1
<1>5. \/ y <= f
      \/ \E t \in Warmers : WillWrite(t)'
      \/ \E t \in Warmers : job'[t].pc = "copied" /\ y <= job'[t].copy[s].ts
  <2>1. CASE y = x
    <3>1. \/ x <= f
          \/ \E t \in Warmers : WillWrite(t)
          \/ \E t \in Warmers : job[t].pc = "copied" /\ x <= job[t].copy[s].ts
      BY DEF FileKept
    <3> HIDE DEF x, y, f
    <3> QED
      BY <2>1, <3>1 DEF StillWrites
  <2>2. CASE y = f
    BY <1>1, <2>2
  <2> QED
    BY <1>2, <2>1, <2>2
<1>6. ASSUME NEW t \in Warmers, job'[t].pc = "copied"
      PROVE  /\ f <= job'[t].copy[s].ts
             /\ job'[t].copy[s].ts <= y \/ job'[t].copy[s].ts = f
  BY <1>1, <1>3, <1>6 DEF FileKept, StillWrites
<1> QED
  BY <1>1, <1>4, <1>5, <1>6 DEF FileKept

LEMMA KeptByTurn ==
    ASSUME CacheInv, CacheInv', KeepInv, NEW t \in Warmers, Turn(t)
    PROVE  KeepInv'
<1> SUFFICES ASSUME NEW p \in Procs, Refreshes(p)
             PROVE  OneCopies' /\ \A s \in Symbols : FileKept(p, s)'
  BY DEF KeepInv, Refreshes
<1>1. Proc[t] = p /\ OneCopies /\ \A s \in Symbols : FileKept(p, s)
  BY DEF KeepInv, Refreshes
<1>2. OneCopies'
  BY <1>1 DEF Turn, OneCopies
<1>3. ASSUME NEW u \in Warmers
      PROVE  StillWrites(u)
  BY DEF Turn, WillWrite, StillWrites
<1>4. ASSUME NEW s \in Symbols PROVE FileKept(p, s)'
  <2>1. \A u \in Warmers : StillWrites(u)
    BY <1>3
  <2>2. /\ UNCHANGED <<now, file>>
        /\ \/ mem'[p].quotes[s].ts = mem[p].quotes[s].ts
           \/ /\ mem'[p].quotes[s].ts = file.quotes[s].ts
              /\ mem'[p].quotes[s].ts > mem[p].quotes[s].ts
           \/ mem'[p].quotes[s].ts = now /\ WillWrite(t)'
    BY <1>1 DEF Turn
  <2> QED
    BY <1>1, <2>1, <2>2, KeptByMove
<1> QED
  BY <1>2, <1>4

LEMMA KeptByCopy ==
    ASSUME CacheInv, CacheInv', KeepInv, NEW t \in Warmers, CopyTaken(t)
    PROVE  KeepInv'
<1> SUFFICES ASSUME NEW p \in Procs, Refreshes(p)
             PROVE  OneCopies' /\ \A s \in Symbols : FileKept(p, s)'
  BY DEF KeepInv, Refreshes
<1>1. Proc[t] = p /\ OneCopies /\ \A s \in Symbols : FileKept(p, s)
  BY DEF KeepInv, Refreshes
<1>2. \A u \in Warmers : job[u].pc \notin {"copied", "replaced"}
  BY <1>1 DEF CopyTaken, Persisting, Refreshes
<1>3. OneCopies'
  BY <1>2 DEF CopyTaken, OneCopies
<1>4. ASSUME NEW s \in Symbols PROVE FileKept(p, s)'
  <2>1. job'[t].copy[s].ts = IF mem[p].quotes[s].ts > 0 THEN mem[p].quotes[s].ts ELSE file.quotes[s].ts
    BY <1>1 DEF CopyTaken, Known
  <2>2. UNCHANGED <<file, mem>> /\ job'[t].pc = "copied"
        /\ \A u \in Warmers \ {t} : job'[u].pc # "copied"
    BY <1>2 DEF CopyTaken
  <2>3. FileKept(p, s)
    BY <1>1
  <2>4. ASSUME NEW u \in Warmers, job'[u].pc = "copied" PROVE u = t
    BY <2>2, <2>4
  <2>5. job'[t].copy[s].ts >= file.quotes[s].ts
        /\ (job'[t].copy[s].ts = mem[p].quotes[s].ts \/ job'[t].copy[s].ts = file.quotes[s].ts)
        /\ (mem[p].quotes[s].ts <= job'[t].copy[s].ts)
    BY <2>1, <2>3, Times DEF FileKept
  <2>6. /\ mem[p].quotes[s].ts = 0 \/ file.quotes[s].ts <= mem[p].quotes[s].ts
        /\ job'[t].copy[s].ts <= mem[p].quotes[s].ts \/ job'[t].copy[s].ts = file.quotes[s].ts
    BY <2>3, <2>5, Times DEF FileKept
  <2> QED
    BY <2>2, <2>4, <2>5, <2>6 DEF FileKept
<1> QED
  BY <1>3, <1>4

LEMMA KeptByReplace ==
    ASSUME CacheInv, CacheInv', KeepInv, NEW t \in Warmers, Written(t)
    PROVE  KeepInv'
<1> SUFFICES ASSUME NEW p \in Procs, Refreshes(p)
             PROVE  OneCopies' /\ \A s \in Symbols : FileKept(p, s)'
  BY DEF KeepInv, Refreshes
<1>1. Proc[t] = p /\ OneCopies /\ \A s \in Symbols : FileKept(p, s)
  BY DEF KeepInv, Refreshes
<1>2. \A u \in Warmers \ {t} : job[u].pc \notin {"copied", "replaced"} /\ job'[u] = job[u]
  BY <1>1 DEF Written, OneCopies
<1>3. OneCopies'
  BY <1>2 DEF Written, OneCopies
<1>4. ASSUME NEW s \in Symbols PROVE FileKept(p, s)'
  <2>1. file'.quotes[s].ts = job[t].copy[s].ts /\ mem' = mem /\ job[t].pc = "copied"
        /\ job'[t].pc = "replaced"
    BY DEF Written
  <2>2. \A u \in Warmers : job'[u].pc # "copied"
    BY <1>2, <2>1
  <2>3. ASSUME NEW u \in Warmers, WillWrite(u) PROVE WillWrite(u)'
    BY <1>2, <2>1, <2>3 DEF WillWrite
  <2>4. FileKept(p, s)
    BY <1>1
  <2>5. mem[p].quotes[s].ts = 0 \/ file'.quotes[s].ts <= mem[p].quotes[s].ts
    BY <2>1, <2>4, Times DEF FileKept
  <2>6. mem[p].quotes[s].ts <= file'.quotes[s].ts \/ \E u \in Warmers : WillWrite(u)'
    <3>1. CASE mem[p].quotes[s].ts <= file.quotes[s].ts
      BY <2>1, <2>4, <3>1, Times DEF FileKept
    <3>2. CASE \E u \in Warmers : WillWrite(u)
      BY <2>3, <3>2
    <3>3. CASE \E u \in Warmers : job[u].pc = "copied" /\ mem[p].quotes[s].ts <= job[u].copy[s].ts
      BY <1>2, <2>1, <3>3
    <3> QED
      BY <2>4, <3>1, <3>2, <3>3 DEF FileKept
  <2> QED
    BY <2>1, <2>2, <2>5, <2>6 DEF FileKept
<1> QED
  BY <1>3, <1>4

LEMMA KeptByRestart ==
    ASSUME CacheInv, CacheInv', KeepInv, NEW q \in Procs, Restart(q)
    PROVE  KeepInv'
<1> SUFFICES ASSUME NEW p \in Procs, Refreshes(p)
             PROVE  OneCopies' /\ \A s \in Symbols : FileKept(p, s)'
  BY DEF KeepInv, Refreshes
<1>1. OneCopies /\ \A s \in Symbols : FileKept(p, s)
  BY DEF KeepInv
<1>2. CASE p = q
  <2>1. \A t \in Warmers : job'[t].pc = "idle"
    BY <1>2, RestartStep DEF Refreshes
  <2>2. mem'[p] = FreshMemory
    BY <1>2, RestartStep
  <2>3. \A s \in Symbols : mem'[p].quotes[s].ts = 0
    BY <2>2 DEF FreshMemory, NoQuotes, NoQuote
  <2>4. \A s \in Symbols : file'.quotes[s].ts \in Nat
    BY DEF CacheInv, Dates, Dated
  <2> QED
    BY <2>1, <2>3, <2>4 DEF OneCopies, FileKept
<1>3. CASE p # q
  <2>1. UNCHANGED <<now, file>> /\ mem'[p] = mem[p] /\ \A t \in Warmers : job'[t] = job[t]
    BY <1>3, RestartStep DEF Refreshes
  <2>2. OneCopies'
    BY <1>1, <2>1 DEF OneCopies
  <2> QED
    BY <1>1, <2>1, <2>2, KeptByMove DEF WillWrite, StillWrites
<1> QED
  BY <1>2, <1>3

LEMMA KeptByServe ==
    ASSUME CacheInv, CacheInv', KeepInv, NEW q \in Procs, NEW z \in Symbols, NEW stale \in BOOLEAN,
           Serve(q, z, stale)
    PROVE  KeepInv'
<1> SUFFICES ASSUME NEW p \in Procs, Refreshes(p)
             PROVE  OneCopies' /\ \A s \in Symbols : FileKept(p, s)'
  BY DEF KeepInv, Refreshes
<1>1. OneCopies /\ \A s \in Symbols : FileKept(p, s)
  BY DEF KeepInv
<1>2. /\ UNCHANGED <<now, file, job>> /\ Reloads(mem[q], mem'[q])
      /\ \A o \in Procs \ {q} : mem'[o] = mem[o]
  BY ServeStep
<1>3. OneCopies'
  BY <1>1, <1>2 DEF OneCopies
<1>4. ASSUME NEW s \in Symbols
      PROVE  \/ mem'[p].quotes[s].ts = mem[p].quotes[s].ts
             \/ /\ mem'[p].quotes[s].ts = file.quotes[s].ts
                /\ mem'[p].quotes[s].ts > mem[p].quotes[s].ts
  BY <1>2 DEF Reloads
<1>5. ASSUME NEW u \in Warmers PROVE StillWrites(u)
  BY <1>2 DEF WillWrite, StillWrites
<1>6. ASSUME NEW s \in Symbols PROVE FileKept(p, s)'
  BY <1>1, <1>2, <1>4, <1>5, KeptByMove
<1> QED
  BY <1>3, <1>6

LEMMA KeepStep == CacheInv /\ CacheInv' /\ KeepInv /\ [Next]_vars => KeepInv'
<1> SUFFICES ASSUME CacheInv, CacheInv', KeepInv, [Next]_vars PROVE KeepInv'
  OBVIOUS
<1>1. CASE UNCHANGED <<file, mem, job>>
  BY <1>1 DEF KeepInv, OneCopies, FileKept, WillWrite
<1>2. ASSUME NEW t \in Warmers, Refresh(t) PROVE KeepInv'
  BY <1>2, RefreshStep, KeptByTurn, KeptByCopy, KeptByReplace
<1> QED
  BY <1>1, <1>2, KeptByServe, KeptByRestart DEF Next, Tick, vars

\* Where one process refreshes, at rest the file holds every quote of its memory,
\* whichever of its threads' writes overlapped (_persist_price_cache).
THEOREM RestHolds == Spec => []RestLosesNoQuote
<1>1. Init => KeepInv
  <2> SUFFICES ASSUME Init PROVE KeepInv
    OBVIOUS
  <2>1. \A t \in Warmers : job[t].pc = "idle"
    BY DEF Init, IdleJob
  <2>2. \A p \in Procs, s \in Symbols : mem[p].quotes[s].ts = 0 /\ file.quotes[s].ts = 0
    BY DEF Init, FreshMemory, NoQuotes, NoQuote
  <2> QED
    BY <2>1, <2>2 DEF KeepInv, OneCopies, FileKept
<1>2. CacheInv /\ KeepInv => RestLosesNoQuote
  <2> SUFFICES ASSUME CacheInv, KeepInv, NEW p \in Procs, NEW s \in Symbols,
                      \A t \in Warmers : Proc[t] = p /\ job[t].pc = "idle"
               PROVE  file.quotes[s].ts >= mem[p].quotes[s].ts
    BY DEF RestLosesNoQuote
  <2>1. FileKept(p, s)
    BY DEF KeepInv, Refreshes
  <2>2. mem[p].quotes[s].ts <= file.quotes[s].ts
    BY <2>1 DEF FileKept, WillWrite
  <2> QED
    BY <2>2, Times
<1> QED
  BY <1>1, <1>2, CacheAlways, KeepStep, PTL DEF Spec

-----------------------------------------------------------------------------
(* The migration.  What a run saw of the index by name was of any state; so  *)
(* the argument is about the index alone: one build at a time moves it       *)
(* through its phases, nothing takes a good one away, and while it is good   *)
(* every row on its way was checked against it.                              *)

IndexTypes ==
    /\ index \in Migration!Indexes /\ logged \in [StripeEvents -> Nat]
    /\ hook \in [Hooks -> Migration!Hook] /\ script \in [Operators -> Migration!Run]

\* A build is of one operator, and tells the phase of the index.
OneBuild ==
    /\ \A o \in Operators : /\ script[o].step = "scan" => index = "building"
                            /\ script[o].step = "validate" => index = "ready"
    /\ \A o, p \in Operators : Migration!Builds(o) /\ Migration!Builds(p) => o = p

Writing(h) == hook[h].stage = "written"
Entered(h) == Writing(h) /\ hook[h].indexed

\* Rows are entered in an index only from "ready" on, and then one of an event at
\* a time; a good one has entered every row on its way, and holds no other of its
\* event.
Named == \A h \in Hooks : hook[h].stage # "idle" => hook[h].event \in StripeEvents
NoneEntered == index \in {"none", "wrong", "building"} => \A h \in Hooks : ~Entered(h)
EnteredAlone ==
    index \in {"ready", "good"} =>
        \A h, k \in Hooks : Entered(h) /\ Entered(k) /\ hook[h].event = hook[k].event => h = k
GoodHolds ==
    index = "good" =>
        ~Migration!Duplicates /\ \A h \in Hooks : Writing(h) => Entered(h) /\ logged[hook[h].event] = 0
EnteredOnce == Named /\ NoneEntered /\ EnteredAlone /\ GoodHolds

AppliedIsGood == \A o \in Operators : Migration!Applied(o) => index = "good"

IndexInv == IndexTypes /\ OneBuild /\ EnteredOnce /\ AppliedIsGood

LEMMA IndexInit == Migration!Init => IndexInv
<1> SUFFICES ASSUME Migration!Init PROVE IndexInv
  OBVIOUS
<1>1. index \in Migration!Indexes /\ index \notin Migration!Building /\ (index = "good" => ~Migration!Duplicates)
  BY DEF Migration!Init
<1>2. logged \in [StripeEvents -> Nat]
  BY DEF Migration!Init
<1>3. hook = [h \in Hooks |-> Migration!IdleHook] /\ script = [o \in Operators |-> Migration!NewRun]
  BY DEF Migration!Init
<1>4. Migration!IdleHook \in Migration!Hook /\ Migration!IdleHook.stage = "idle" /\ Migration!NewRun \in Migration!Run /\ Migration!NewRun.step = "new"
  BY DEF Migration!IdleHook, Migration!Hook, Migration!NewRun, Migration!Run, Migration!Steps, Migration!Strategies
<1>5. IndexTypes
  BY <1>1, <1>2, <1>3, <1>4 DEF IndexTypes
<1>6. \A h \in Hooks : hook[h].stage = "idle"
  BY <1>3, <1>4
<1>7. \A o \in Operators : script[o].step = "new"
  BY <1>3, <1>4
<1>8. OneBuild /\ AppliedIsGood
  BY <1>7 DEF OneBuild, AppliedIsGood, Migration!Builds, Migration!Applied
<1>9. EnteredOnce
  BY <1>1, <1>6 DEF EnteredOnce, Named, NoneEntered, EnteredAlone, GoodHolds, Entered, Writing
<1> QED
  BY <1>5, <1>8, <1>9 DEF IndexInv

\* A webhook that is not writing, or whose row was checked, keeps what holds of
\* the rows on their way.
LEMMA RowsKept ==
    ASSUME IndexInv, NEW h \in Hooks, NEW new \in Migration!Hook, hook' = [hook EXCEPT ![h] = new],
           UNCHANGED <<index, script, logged>>,
           new.stage # "idle" => new.event \in StripeEvents,
           new.stage = "written" =>
               /\ index \in {"none", "wrong", "building"} => ~new.indexed
               /\ index \in {"ready", "good"} => \A k \in Hooks : Entered(k) /\ hook[k].event = new.event => k = h
               /\ index = "good" => new.indexed /\ logged[new.event] = 0
    PROVE  IndexInv'
<1> USE DEF IndexInv, IndexTypes
<1>1. hook'[h] = new /\ \A k \in Hooks : k # h => hook'[k] = hook[k]
  OBVIOUS
<1>2. IndexTypes'
  OBVIOUS
<1>3. OneBuild' /\ AppliedIsGood'
  BY DEF OneBuild, AppliedIsGood, Migration!Builds, Migration!Applied
<1>4. Named'
  BY <1>1 DEF Named, EnteredOnce
<1>5. NoneEntered'
  BY <1>1 DEF NoneEntered, EnteredOnce, Entered, Writing
<1>6. EnteredAlone'
  BY <1>1 DEF EnteredAlone, EnteredOnce, Entered, Writing
<1>7. GoodHolds'
  <2>1. Migration!Duplicates' <=> Migration!Duplicates
    BY DEF Migration!Duplicates
  <2> QED
    BY <1>1, <2>1 DEF GoodHolds, EnteredOnce, Entered, Writing
<1> QED
  BY <1>2, <1>3, <1>4, <1>5, <1>6, <1>7 DEF EnteredOnce

LEMMA EnteredHook ==
    ASSUME NEW r \in Migration!Hook, NEW c \in BOOLEAN
    PROVE  LET new == [r EXCEPT !.stage = "written", !.indexed = c]
           IN  new \in Migration!Hook /\ new.stage = "written" /\ new.event = r.event /\ new.indexed = c
  BY DEF Migration!Hook

\* A step of a webhook leaves index and runs alone.
LEMMA WebhookStep ==
    ASSUME IndexInv, NEW h \in Hooks,
           \/ \E e \in StripeEvents : Migration!Receive(h, e)
           \/ Migration!Insert(h) \/ Migration!Refused(h) \/ Migration!Commit(h) \/ Migration!Rollback(h)
    PROVE  IndexInv'
<1> USE DEF IndexInv, IndexTypes
<1>1. UNCHANGED <<index, script>>
  BY DEF Migration!Receive, Migration!Insert, Migration!Refused, Migration!Commit, Migration!Rollback, Migration!table, Migration!rows
<1>2. Migration!IdleHook \in Migration!Hook /\ Migration!IdleHook.stage = "idle"
  BY DEF Migration!IdleHook, Migration!Hook
<1>3. ASSUME NEW e \in StripeEvents, Migration!Receive(h, e) PROVE IndexInv'
  <2> DEFINE new == [stage |-> "read", event |-> e, indexed |-> FALSE]
  <2>1. new \in Migration!Hook /\ new.stage = "read" /\ new.event \in StripeEvents
    BY DEF Migration!Hook
  <2>2. hook' = [hook EXCEPT ![h] = new] /\ logged' = logged
    BY <1>3 DEF Migration!Receive, Migration!rows
  <2> HIDE DEF new
  <2> QED
    BY <1>1, <2>1, <2>2, RowsKept
<1>4. CASE Migration!Insert(h)
  <2> DEFINE checked == index \in {"good", "ready"}
             new == [hook[h] EXCEPT !.stage = "written", !.indexed = checked]
  <2>1. hook[h].stage = "read" /\ Migration!Accepts(hook[h].event) /\ logged' = logged /\ hook' = [hook EXCEPT ![h] = new]
    BY <1>4 DEF Migration!Insert, Migration!rows
  <2>2. hook[h] \in Migration!Hook /\ checked \in BOOLEAN
    OBVIOUS
  <2> HIDE DEF checked
  <2>3. new \in Migration!Hook /\ new.stage = "written" /\ new.event = hook[h].event /\ new.indexed = checked
    BY <2>2, EnteredHook
  <2> HIDE DEF new
  <2>4. hook[h].event \in StripeEvents
    BY <2>1 DEF EnteredOnce, Named
  <2>5. checked => \A k \in Hooks : ~(Entered(k) /\ hook[k].event = hook[h].event)
    BY <2>1 DEF checked, Migration!Accepts, Migration!Free, Migration!Written, Entered, Writing
  <2>6. index = "good" => logged[hook[h].event] = 0
    BY <2>1 DEF Migration!Accepts
  <2> QED
    BY <1>1, <2>1, <2>3, <2>4, <2>5, <2>6, RowsKept DEF checked
<1>5. CASE Migration!Refused(h) \/ Migration!Rollback(h)
  <2>1. hook' = [hook EXCEPT ![h] = Migration!IdleHook] /\ logged' = logged
    BY <1>5 DEF Migration!Refused, Migration!Rollback, Migration!rows
  <2> QED
    BY <1>1, <1>2, <2>1, RowsKept
<1>6. CASE Migration!Commit(h)
  <2> DEFINE e == hook[h].event
  <2>1. Writing(h) /\ hook' = [hook EXCEPT ![h] = Migration!IdleHook] /\ logged' = [logged EXCEPT ![e] = @ + 1]
    BY <1>6 DEF Migration!Commit, Writing
  <2>2. e \in StripeEvents
    BY <2>1 DEF EnteredOnce, Named, Writing
  <2> HIDE DEF e
  <2>3. /\ \A k \in Hooks : k # h => hook'[k] = hook[k]
        /\ hook'[h].stage = "idle"
        /\ \A f \in StripeEvents : f # e => logged'[f] = logged[f]
        /\ logged'[e] = logged[e] + 1
    BY <1>2, <2>1, <2>2
  <2>4. IndexTypes' /\ OneBuild' /\ AppliedIsGood'
    BY <1>1, <1>2, <2>1, <2>2 DEF OneBuild, AppliedIsGood, Migration!Builds, Migration!Applied
  <2>5. Named' /\ NoneEntered' /\ EnteredAlone'
    BY <1>1, <2>3 DEF EnteredOnce, Named, NoneEntered, EnteredAlone, Entered, Writing
  <2>6. ASSUME index = "good" PROVE GoodHolds'
    <3>1. logged[e] = 0 /\ \A k \in Hooks : Writing(k) => Entered(k) /\ logged[hook[k].event] = 0
      BY <2>1, <2>6 DEF e, EnteredOnce, GoodHolds
    <3>2. \A k \in Hooks : k # h /\ Writing(k) => hook[k].event # e
      BY <2>1, <2>6, <3>1 DEF e, EnteredOnce, EnteredAlone
    <3>3. ~Migration!Duplicates'
      BY <2>2, <2>3, <2>6, <3>1 DEF EnteredOnce, GoodHolds, Migration!Duplicates
    <3>4. ASSUME NEW k \in Hooks, Writing(k)' PROVE Entered(k)' /\ (logged[hook[k].event] = 0)'
      <4>1. k # h /\ hook'[k] = hook[k] /\ Writing(k)
        BY <2>3, <3>4 DEF Writing
      <4>2. hook[k].event \in StripeEvents
        BY <4>1 DEF EnteredOnce, Named, Writing
      <4> QED
        BY <2>3, <3>1, <3>2, <4>1, <4>2 DEF Entered, Writing
    <3> QED
      BY <3>3, <3>4 DEF GoodHolds
  <2>7. GoodHolds'
    BY <1>1, <2>6 DEF GoodHolds
  <2> QED
    BY <2>4, <2>5, <2>7 DEF EnteredOnce
<1> QED
  BY <1>3, <1>4, <1>5, <1>6

\* A step of the script, by what it makes of its run and of the index.
LEMMA RunKept ==
    ASSUME IndexInv, NEW o \in Operators, NEW new \in Migration!Run, script' = [script EXCEPT ![o] = new],
           UNCHANGED <<hook, logged>>, index' \in Migration!Indexes, index = "good" => index' = "good",
           new.step = "scan" => index' = "building",
           new.step = "validate" => index' = "ready",
           new.step \in {"scan", "validate"} \/ index' # index => \A p \in Operators : Migration!Builds(p) => p = o,
           new.step = "ended" /\ new.apply /\ new.exit = 0 => index' = "good",
           EnteredOnce'
    PROVE  IndexInv'
<1> USE DEF IndexInv, IndexTypes
<1>1. script'[o] = new /\ \A p \in Operators : p # o => script'[p] = script[p]
  OBVIOUS
<1>2. IndexTypes'
  OBVIOUS
<1>3. OneBuild'
  BY <1>1 DEF OneBuild, Migration!Builds
<1>4. AppliedIsGood'
  BY <1>1 DEF AppliedIsGood, Migration!Applied
<1> QED
  BY <1>2, <1>3, <1>4

\* Where the index stays as it is, so does what holds of the rows.
LEMMA EnteredStays == ASSUME EnteredOnce, UNCHANGED <<index, hook, logged>> PROVE EnteredOnce'
  BY DEF EnteredOnce, Named, NoneEntered, EnteredAlone, GoodHolds, Entered, Writing, Migration!Duplicates

LEMMA EndedRun ==
    ASSUME NEW o \in Operators, IndexTypes, NEW code \in {0, 2, 3}, Migration!Ends(o, code)
    PROVE  \E new \in Migration!Run : /\ script' = [script EXCEPT ![o] = new] /\ new.step = "ended"
                             /\ new.apply = script[o].apply /\ new.exit = code
<1> DEFINE new == [Migration!NewRun EXCEPT !.step = "ended", !.apply = script[o].apply, !.exit = code]
<1>1. script[o].apply \in BOOLEAN
  BY DEF IndexTypes, Migration!Run
<1>2. new \in Migration!Run /\ new.step = "ended" /\ new.apply = script[o].apply /\ new.exit = code
  BY <1>1 DEF Migration!NewRun, Migration!Run, Migration!Strategies
<1>3. script' = [script EXCEPT ![o] = new]
  BY DEF Migration!Ends
<1> QED
  BY <1>2, <1>3

LEMMA GoneRun ==
    ASSUME NEW o \in Operators, IndexTypes, NEW step \in Migration!Steps, Migration!Goes(o, step)
    PROVE  \E new \in Migration!Run : script' = [script EXCEPT ![o] = new] /\ new.step = step
<1> DEFINE new == [script[o] EXCEPT !.step = step]
<1>1. new \in Migration!Run /\ new.step = step
  BY DEF IndexTypes, Migration!Run
<1> QED
  BY <1>1 DEF Migration!Goes

\* A run that ends well has seen an index by name, and neither a wrong one nor one
\* that is being built or was left behind.
LEMMA SafeIsGood ==
    ASSUME IndexTypes, NEW o \in Operators, NEW barred, ~Migration!Unsafe(o, barred), script[o].index
    PROVE  index = "good"
  BY DEF IndexTypes, Migration!Unsafe, Migration!Indexes, Migration!Building

LEMMA LookStep ==
    ASSUME IndexInv, NEW o \in Operators,
           \/ \E apply \in BOOLEAN, strategy \in Migration!Strategies : Migration!Start(o, apply, strategy)
           \/ Migration!Look(o) \/ Migration!Inspect(o) \/ Migration!Reinspect(o)
    PROVE  IndexInv'
<1> USE DEF IndexInv
<1>1. UNCHANGED <<index, hook, logged>>
  BY DEF Migration!Start, Migration!Look, Migration!Inspect, Migration!Reinspect, Migration!table, Migration!rows
<1>2. EnteredOnce' /\ index' \in Migration!Indexes
  BY <1>1, EnteredStays DEF IndexTypes
<1>3. ASSUME NEW apply \in BOOLEAN, NEW strategy \in Migration!Strategies, Migration!Start(o, apply, strategy) PROVE IndexInv'
  <2> DEFINE new == [Migration!NewRun EXCEPT !.step = "look", !.apply = apply, !.strategy = strategy]
  <2>1. new \in Migration!Run /\ new.step = "look"
    BY DEF Migration!NewRun, Migration!Run, Migration!Steps, Migration!Strategies
  <2>2. script' = [script EXCEPT ![o] = new]
    BY <1>3 DEF Migration!Start
  <2> HIDE DEF new
  <2> QED
    BY <1>1, <1>2, <2>1, <2>2, RunKept
<1>4. CASE Migration!Look(o)
  <2> DEFINE step == IF script[o].step = "look" THEN "inspect" ELSE "reinspect"
             added == column # "none"
             named == index # "none"
             clean == Migration!Clean
             found == [script[o] EXCEPT !.step = step, !.column = added, !.index = named, !.clean = clean]
  <2>1. added \in BOOLEAN /\ named \in BOOLEAN /\ clean \in BOOLEAN
    BY DEF Migration!Clean
  <2>2. step \in {"inspect", "reinspect"} /\ step \in Migration!Steps /\ script[o] \in Migration!Run
    BY DEF Migration!Steps, IndexTypes
  <2>3. script' = [script EXCEPT ![o] = found]
    BY <1>4 DEF Migration!Look
  <2> HIDE DEF step, added, named, clean
  <2>4. found.step \in {"inspect", "reinspect"}
    BY <2>2 DEF Migration!Run
  <2>5. found \in Migration!Run
    BY <2>1, <2>2 DEF Migration!Run
  <2> HIDE DEF found
  <2> QED
    BY <1>1, <1>2, <2>3, <2>4, <2>5, RunKept
<1>5. CASE Migration!Inspect(o)
  <2>1. PICK barred \in BOOLEAN :
          IF Migration!Unsafe(o, barred) THEN Migration!Ends(o, 2)
          ELSE IF ~script[o].apply \/ Migration!NothingPlanned(o) THEN Migration!Ends(o, 0)
          ELSE IF Migration!Blocked(o) THEN Migration!Ends(o, 2)
          ELSE Migration!Goes(o, CASE script[o].strategy = "normal" -> "normal"
                           [] Migration!NeedsColumn(o) -> "column" [] OTHER -> "index")
    BY <1>5 DEF Migration!Inspect
  <2>2. CASE Migration!Ends(o, 2)
    BY <1>1, <1>2, <2>2, EndedRun, RunKept
  <2>3. CASE ~Migration!Unsafe(o, barred) /\ (~script[o].apply \/ Migration!NothingPlanned(o)) /\ Migration!Ends(o, 0)
    <3>1. script[o].apply => index = "good"
      BY <2>3, SafeIsGood DEF Migration!NothingPlanned, Migration!NeedsIndex
    <3> QED
      BY <1>1, <1>2, <2>3, <3>1, EndedRun, RunKept
  <2>4. ASSUME NEW step \in {"normal", "column", "index"}, Migration!Goes(o, step) PROVE IndexInv'
    <3>1. PICK new \in Migration!Run : script' = [script EXCEPT ![o] = new] /\ new.step = step
      BY <2>4, GoneRun DEF Migration!Steps
    <3> QED
      BY <1>1, <1>2, <3>1, RunKept
  <2> QED
    BY <2>1, <2>2, <2>3, <2>4
<1>6. CASE Migration!Reinspect(o)
  <2>1. PICK barred \in BOOLEAN :
          Migration!Ends(o, IF Migration!Unsafe(o, barred) \/ ~script[o].column \/ ~script[o].index THEN 3 ELSE 0)
    BY <1>6 DEF Migration!Reinspect
  <2>2. CASE Migration!Ends(o, 3)
    BY <1>1, <1>2, <2>2, EndedRun, RunKept
  <2>3. CASE ~Migration!Unsafe(o, barred) /\ script[o].index /\ Migration!Ends(o, 0)
    <3>1. index = "good"
      BY <2>3, SafeIsGood
    <3> QED
      BY <1>1, <1>2, <2>3, <3>1, EndedRun, RunKept
  <2> QED
    BY <2>1, <2>2, <2>3
<1> QED
  BY <1>3, <1>4, <1>5, <1>6

\* What a step that moves the index owes to the rows on their way.
LEMMA IndexMoved ==
    ASSUME EnteredOnce, UNCHANGED <<hook, logged>>,
           index' \in {"none", "wrong", "building"} => \A h \in Hooks : ~Entered(h),
           index' = "ready" => \A h \in Hooks : ~Entered(h),
           index' = "good" =>
               /\ ~Migration!Duplicates
               /\ \A h \in Hooks : Writing(h) => Entered(h) /\ logged[hook[h].event] = 0
               /\ \A h, k \in Hooks : Entered(h) /\ Entered(k) /\ hook[h].event = hook[k].event => h = k
    PROVE  EnteredOnce'
<1> USE DEF EnteredOnce, Entered, Writing
<1>1. Named'
  BY DEF Named
<1>2. NoneEntered' /\ EnteredAlone'
  BY DEF NoneEntered, EnteredAlone
<1>3. GoodHolds'
  BY DEF GoodHolds, Migration!Duplicates
<1> QED
  BY <1>1, <1>2, <1>3

\* A run that fails takes its own build down with it, and no index that is good.
LEMMA FailedRun ==
    ASSUME IndexInv, NEW o \in Operators, Migration!Ends(o, 3), UNCHANGED <<hook, logged>>,
           (index' = "invalid" /\ Migration!Builds(o)) \/ index' = index
    PROVE  IndexInv'
<1> USE DEF IndexInv
<1>1. EnteredOnce'
  <2>1. CASE index' = index
    BY <2>1, EnteredStays
  <2>2. CASE index' = "invalid"
    BY <2>2, IndexMoved
  <2> QED
    BY <2>1, <2>2
<1>2. index' \in Migration!Indexes /\ (index = "good" => index' = "good")
  BY DEF IndexTypes, OneBuild, Migration!Builds, Migration!Indexes
<1>3. index' # index => \A p \in Operators : Migration!Builds(p) => p = o
  BY DEF OneBuild
<1> QED
  BY <1>1, <1>2, <1>3, EndedRun, RunKept

LEMMA BuildStep ==
    ASSUME IndexInv, NEW o \in Operators,
           Migration!Migrate(o) \/ Migration!AddColumn(o) \/ Migration!Begin(o) \/ Migration!Scan(o) \/ Migration!Validate(o) \/ Migration!Fail(o)
    PROVE  IndexInv'
<1> USE DEF IndexInv
<1>1. UNCHANGED <<hook, logged>>
  BY DEF Migration!Migrate, Migration!AddColumn, Migration!Begin, Migration!Scan, Migration!Validate, Migration!Fail, Migration!rows
<1>2. index \in Migration!Indexes
  BY DEF IndexTypes
<1>3. \A step \in {"relook", "index", "scan", "validate"} : step \in Migration!Steps
  BY DEF Migration!Steps
<1>4. CASE Migration!Migrate(o)
  <2>1. CASE Migration!Ends(o, 3) /\ index' = index
    BY <1>1, <2>1, FailedRun
  <2>2. CASE /\ index = "none" => ~Migration!Duplicates
             /\ index' = (IF index = "none" THEN "good" ELSE index) /\ Migration!Goes(o, "relook")
    <3>1. (\A p \in Operators : ~Migration!Builds(p)) /\ \A h \in Hooks : ~Writing(h)
      BY <1>4 DEF Migration!Migrate, Migration!NoBuild, Migration!NoWriter, Writing
    <3>2. EnteredOnce'
      <4>1. CASE index' = index
        BY <1>1, <4>1, EnteredStays
      <4>2. CASE index = "none" /\ index' = "good"
        BY <1>1, <2>2, <3>1, <4>2, IndexMoved DEF Entered
      <4> QED
        BY <2>2, <4>1, <4>2
    <3>3. index' \in Migration!Indexes /\ (index = "good" => index' = "good")
      BY <1>2, <2>2 DEF Migration!Indexes
    <3>4. PICK new \in Migration!Run : script' = [script EXCEPT ![o] = new] /\ new.step = "relook"
      BY <1>3, <2>2, GoneRun
    <3> QED
      BY <1>1, <3>1, <3>2, <3>3, <3>4, RunKept
  <2> QED
    BY <1>4, <2>1, <2>2 DEF Migration!Migrate
<1>5. CASE Migration!AddColumn(o)
  <2>1. index' = index
    BY <1>5 DEF Migration!AddColumn
  <2>2. PICK new \in Migration!Run : script' = [script EXCEPT ![o] = new] /\ new.step = "index"
    BY <1>3, <1>5, GoneRun DEF Migration!AddColumn
  <2>3. EnteredOnce'
    BY <1>1, <2>1, EnteredStays
  <2> QED
    BY <1>1, <1>2, <2>1, <2>2, <2>3, RunKept
<1>6. CASE Migration!Begin(o)
  <2>1. \A p \in Operators : ~Migration!Builds(p)
    BY <1>6 DEF Migration!Begin, Migration!NoBuild
  <2>2. CASE index = "none" /\ index' = "building" /\ Migration!Goes(o, "scan")
    <3>1. EnteredOnce'
      BY <1>1, <2>2, IndexMoved DEF EnteredOnce, NoneEntered
    <3>2. PICK new \in Migration!Run : script' = [script EXCEPT ![o] = new] /\ new.step = "scan"
      BY <1>3, <2>2, GoneRun
    <3>3. index' \in Migration!Indexes
      BY <2>2 DEF Migration!Indexes, Migration!Building
    <3> QED
      BY <1>1, <2>1, <2>2, <3>1, <3>2, <3>3, RunKept
  <2>3. CASE index' = index /\ Migration!Goes(o, "relook")
    <3>1. EnteredOnce'
      BY <1>1, <2>3, EnteredStays
    <3>2. PICK new \in Migration!Run : script' = [script EXCEPT ![o] = new] /\ new.step = "relook"
      BY <1>3, <2>3, GoneRun
    <3> QED
      BY <1>1, <1>2, <2>3, <3>1, <3>2, RunKept
  <2> QED
    BY <1>6, <2>2, <2>3 DEF Migration!Begin
<1>7. CASE Migration!Scan(o)
  <2>1. index = "building" /\ Migration!Builds(o) /\ \A p \in Operators : Migration!Builds(p) => p = o
    BY <1>7 DEF Migration!Scan, OneBuild, Migration!Builds
  <2>2. CASE Migration!BuildFails(o)
    BY <1>1, <2>1, <2>2, FailedRun DEF Migration!BuildFails
  <2>3. CASE index' = "ready" /\ Migration!Goes(o, "validate")
    <3>1. EnteredOnce'
      BY <1>1, <2>1, <2>3, IndexMoved DEF EnteredOnce, NoneEntered
    <3>2. PICK new \in Migration!Run : script' = [script EXCEPT ![o] = new] /\ new.step = "validate"
      BY <1>3, <2>3, GoneRun
    <3>3. index' \in Migration!Indexes
      BY <2>3 DEF Migration!Indexes, Migration!Building
    <3> QED
      BY <1>1, <2>1, <2>3, <3>1, <3>2, <3>3, RunKept
  <2> QED
    BY <1>7, <2>2, <2>3 DEF Migration!Scan
<1>8. CASE Migration!Validate(o)
  <2>1. index = "ready" /\ Migration!Builds(o) /\ \A p \in Operators : Migration!Builds(p) => p = o
    BY <1>8 DEF Migration!Validate, OneBuild, Migration!Builds
  <2>2. CASE Migration!BuildFails(o)
    BY <1>1, <2>1, <2>2, FailedRun DEF Migration!BuildFails
  <2>3. CASE ~Migration!Duplicates /\ index' = "good" /\ Migration!Goes(o, "relook")
    <3>1. \A h \in Hooks : Writing(h) => Entered(h) /\ logged[hook[h].event] = 0
      BY <1>8 DEF Migration!Validate, Writing, Entered
    <3>2. EnteredOnce'
      BY <1>1, <2>1, <2>3, <3>1, IndexMoved DEF EnteredOnce, EnteredAlone
    <3>3. PICK new \in Migration!Run : script' = [script EXCEPT ![o] = new] /\ new.step = "relook"
      BY <1>3, <2>3, GoneRun
    <3>4. index' \in Migration!Indexes
      BY <2>3 DEF Migration!Indexes
    <3> QED
      BY <1>1, <2>1, <2>3, <3>2, <3>3, <3>4, RunKept
  <2> QED
    BY <1>8, <2>2, <2>3 DEF Migration!Validate
<1>9. CASE Migration!Fail(o)
  BY <1>1, <1>9, FailedRun DEF Migration!Fail
<1> QED
  BY <1>4, <1>5, <1>6, <1>7, <1>8, <1>9

LEMMA OtherIndexStep == ASSUME IndexInv, Migration!Sync \/ Migration!Reconcile PROVE IndexInv'
<1> USE DEF IndexInv
<1>1. CASE Migration!Sync
  <2>1. UNCHANGED <<index, logged, hook, script>>
    BY <1>1 DEF Migration!Sync, Migration!table
  <2> QED
    BY <2>1, EnteredStays DEF IndexTypes, OneBuild, AppliedIsGood, Migration!Builds, Migration!Applied
<1>2. CASE Migration!Reconcile
  <2>1. /\ \A o \in Operators : ~Migration!Builds(o)
        /\ \A h \in Hooks : ~Writing(h)
        /\ UNCHANGED <<hook, script>>
        /\ index' = (IF index = "invalid" THEN "none" ELSE index)
        /\ logged' = [e \in StripeEvents |-> IF logged[e] > 1 THEN 1 ELSE logged[e]]
    BY <1>2 DEF Migration!Reconcile, Migration!Builds, Migration!Steps, Writing
  <2>2. IndexTypes'
    BY <2>1 DEF IndexTypes, Migration!Indexes
  <2>3. OneBuild' /\ AppliedIsGood'
    BY <2>1 DEF OneBuild, AppliedIsGood, Migration!Builds, Migration!Applied
  <2>4. ~Migration!Duplicates'
    BY <2>1 DEF Migration!Duplicates, IndexTypes
  <2>5. EnteredOnce'
    BY <2>1, <2>4 DEF EnteredOnce, Named, NoneEntered, EnteredAlone, GoodHolds, Entered, Writing
  <2> QED
    BY <2>2, <2>3, <2>5
<1> QED
  BY <1>1, <1>2

\* The migration script against the webhooks and the other operators: once any run
\* has ended well with --apply, the index stands and no event of Stripe is logged
\* twice, from then on, whatever the number of operators, requests and events
\* (scripts/migrations/0001_add_provider_event_id_unique.py).
THEOREM AppliedHolds == PlatformSpec => []AppliedIsEnforced
<1>1. IndexInv /\ [Migration!Next]_(Migration!vars) => IndexInv'
  <2> SUFFICES ASSUME IndexInv, [Migration!Next]_(Migration!vars) PROVE IndexInv'
    OBVIOUS
  <2>1. CASE UNCHANGED Migration!vars
    BY <2>1, EnteredStays DEF Migration!vars, Migration!table, Migration!rows, IndexInv, IndexTypes, OneBuild, AppliedIsGood, Migration!Builds, Migration!Applied
  <2> QED
    BY <2>1, WebhookStep, OtherIndexStep, LookStep, BuildStep DEF Migration!Next
<1>2. IndexInv => Migration!AppliedIsEnforced
  BY DEF IndexInv, AppliedIsGood, EnteredOnce, GoodHolds, Migration!AppliedIsEnforced
<1>3. PlatformInit => Migration!Init
  BY DEF PlatformInit
<1>4. [PlatformNext]_allvars => [Migration!Next]_(Migration!vars)
  BY DEF PlatformNext, Quotes, ChartsMove, SchemaMoves, MigrationMoves, SignalsMove, BarsMove, allvars, mvars,
         Migration!vars, Migration!table, Migration!rows
<1> QED
  BY IndexInit, <1>1, <1>2, <1>3, <1>4, PTL DEF PlatformSpec, AppliedIsEnforced

-----------------------------------------------------------------------------
(* The schema.  A process reads its plan against a schema that grows under   *)
(* it; what it has settled stays settled, for a table that comes into being  *)
(* comes with its columns, and every table that lacks an index was there or  *)
(* made before the indexes were looked for.                                  *)

Whole(S) == \A t \in Tables \cap S : Schema!Of(t, ColumnPatches) \subseteq S

\* What a look asks for, and when it is settled.
Required(look) ==
    {i \in Schema!Items : \/ look.kind = "table" /\ i = look.of
                          \/ look.kind = "columns" /\ i \in Schema!Of(look.of, ColumnPatches)
                          \/ look.kind = "indexes" /\ i \in Schema!Of(look.of, IndexPatches)}
SettledIn(S, look) == Required(look) \subseteq S \/ (look.kind = "columns" /\ look.of \notin S)

Complete(p, S, where) ==
    IF where = "production" THEN Schema!Items \subseteq S
    ELSE /\ \A t \in Tables \cap S : Schema!Of(t, Schema!Parts) \subseteq S
         /\ TablePatches \subseteq S /\ (p \in Apis => Tables \subseteq S)

\* What holds of process p at b in schema S.
Reached(p, b, S, where) ==
    /\ Whole(b.own)
    /\ b.pc \in {"create", "look", "alter"} => where # "production"
    /\ b.pc = "create" => Tables \subseteq S \cup b.own \cup b.missing
    /\ b.pc \in {"look", "alter"} =>
          /\ p \in Apis => Tables \subseteq S
          /\ \A j \in DOMAIN Plan : j < b.at => SettledIn(S \cup b.own, Plan[j])
    /\ b.pc = "alter" => b.at \in DOMAIN Plan /\ Required(Plan[b.at]) \subseteq S \cup b.own \cup b.missing
    /\ b.pc = "verify" => where = "production" /\ Schema!Items \subseteq S \cup b.missing
    /\ b.pc = "up" => Complete(p, S, where)

SchemaTypes == place \in Schema!Places /\ schema \subseteq Schema!Items /\ boot \in [Schema!Starters -> Schema!Boot]
SchemaInv == SchemaTypes /\ \A p \in Schema!Starters : Reached(p, boot[p], schema, place)

LEMMA MadeWhole ==
    ASSUME Schema!PlanConstants, NEW i \in Schema!Items
    PROVE  Schema!Made(i) \subseteq Schema!Items /\ Whole(Schema!Made(i)) /\ i \in Schema!Made(i)
<1>1. CASE i \in Tables
  BY <1>1 DEF Schema!PlanConstants, Schema!Made, Whole, Schema!Of, Schema!Items, Schema!Parts
<1>2. CASE i \notin Tables
  BY <1>2 DEF Schema!Made, Whole
<1> QED
  BY <1>1, <1>2

LEMMA WholeUnion == ASSUME NEW S, NEW D, Whole(S), Whole(D) PROVE Whole(S \cup D)
  BY DEF Whole

\* A schema that grows by whole tables unsettles nothing.
LEMMA SettledGrows ==
    ASSUME NEW S, NEW D, Whole(D), NEW look \in Schema!Looks, SettledIn(S, look)
    PROVE  SettledIn(S \cup D, look)
<1>1. CASE Required(look) \subseteq S
  BY <1>1 DEF SettledIn
<1>2. CASE look.kind = "columns" /\ look.of \notin S /\ look.of \in D
  <2>1. look.of \in Tables /\ Schema!Of(look.of, ColumnPatches) \subseteq D
    BY <1>2 DEF Whole, Schema!Looks
  <2>2. Required(look) \subseteq D
    BY <1>2, <2>1 DEF Required
  <2> QED
    BY <2>2 DEF SettledIn
<1> QED
  BY <1>1, <1>2 DEF SettledIn

LEMMA CompleteGrows ==
    ASSUME Schema!PlanConstants, NEW p, NEW S, NEW D, NEW where, Whole(D) \/ where = "production", D \subseteq Schema!Items, Complete(p, S, where)
    PROVE  Complete(p, S \cup D, where)
<1>1. CASE where = "production"
  BY <1>1 DEF Complete
<1>2. CASE where # "production"
  <2>1. ASSUME NEW t \in Tables, t \in D, t \notin S, NEW c \in Schema!Of(t, Schema!Parts) PROVE c \in S \cup D
    <3>1. c \notin IndexPatches
      BY <1>2, <2>1 DEF Schema!PlanConstants, Complete, Schema!Of
    <3>2. c \in Schema!Of(t, ColumnPatches)
      BY <3>1 DEF Schema!Of, Schema!Parts
    <3> QED
      BY <1>2, <2>1, <3>2 DEF Whole
  <2> QED
    BY <1>2, <2>1 DEF Complete
<1> QED
  BY <1>1, <1>2

LEMMA ReachedGrows ==
    ASSUME Schema!PlanConstants, NEW p, NEW b \in Schema!Boot, NEW S, NEW D, NEW where, Whole(D) \/ where = "production", D \subseteq Schema!Items,
           Reached(p, b, S, where)
    PROVE  Reached(p, b, S \cup D, where)
<1>1. \A look \in Schema!Looks : where # "production" /\ SettledIn(S \cup b.own, look) => SettledIn(S \cup D \cup b.own, look)
  <2>1. (S \cup b.own) \cup D = S \cup D \cup b.own
    OBVIOUS
  <2> QED
    BY <2>1, SettledGrows
<1>2. \A j \in DOMAIN Plan : Plan[j] \in Schema!Looks
  BY DEF Schema!PlanConstants
<1>3. b.pc = "up" => Complete(p, S \cup D, where)
  BY CompleteGrows DEF Reached
<1>4. b.pc \in {"look", "alter"} => \A j \in DOMAIN Plan : j < b.at => SettledIn(S \cup D \cup b.own, Plan[j])
  BY <1>1, <1>2 DEF Reached
<1> QED
  BY <1>3, <1>4 DEF Reached

\* A step of one process, by what it makes of its own place and of the schema.
LEMMA StarterStep ==
    ASSUME Schema!PlanConstants, SchemaInv, NEW p \in Schema!Starters, NEW b \in Schema!Boot, boot' = [boot EXCEPT ![p] = b], place' = place,
           NEW D, schema' = schema \cup D, D \subseteq Schema!Items, Whole(D), Reached(p, b, schema', place)
    PROVE  SchemaInv'
<1>1. SchemaTypes'
  BY DEF SchemaInv, SchemaTypes
<1>2. ASSUME NEW q \in Schema!Starters PROVE Reached(q, boot'[q], schema', place')
  <2>1. CASE q = p
    BY <2>1 DEF SchemaInv, SchemaTypes
  <2>2. CASE q # p
    <3>1. boot'[q] = boot[q] /\ boot[q] \in Schema!Boot /\ Reached(q, boot[q], schema, place)
      BY <2>2 DEF SchemaInv, SchemaTypes
    <3>2. Reached(q, boot[q], schema \cup D, place)
      BY <3>1, ReachedGrows
    <3> QED
      BY <3>1, <3>2
  <2> QED
    BY <2>1, <2>2
<1> QED
  BY <1>1, <1>2 DEF SchemaInv

LEMMA DownReached == Schema!Down \in Schema!Boot /\ \A p, S, where : Reached(p, Schema!Down, S, where)
  BY DEF Schema!Down, Schema!Boot, Reached, Whole

\* A process that gives up has changed nothing.
LEMMA AbandonStep == ASSUME Schema!PlanConstants, SchemaInv, NEW p \in Schema!Starters, Schema!Set(p, Schema!Down), UNCHANGED <<place, schema>> PROVE SchemaInv'
<1>1. schema' = schema \cup {} /\ Whole({}) /\ Reached(p, Schema!Down, schema', place) /\ Schema!Down \in Schema!Boot
  BY DownReached DEF Whole
<1> QED
  BY <1>1, StarterStep DEF Schema!Set

\* A statement, in a transaction of its own or in one with those before it.
LEMMA ExecuteStep ==
    ASSUME Schema!PlanConstants, SchemaInv, NEW p \in Schema!Starters, NEW i \in Schema!Items, NEW next \in Schema!Boot, Schema!Execute(p, i, next),
           Whole(next.own), next.pc \in {"create", "look", "alter"},
           Reached(p, [next EXCEPT !.own = @ \cup Schema!Made(i)], schema, place)
    PROVE  SchemaInv'
<1> DEFINE held == [next EXCEPT !.own = @ \cup Schema!Made(i)]
<1>1. Schema!Made(i) \subseteq Schema!Items /\ Whole(Schema!Made(i)) /\ Whole({})
  BY MadeWhole DEF Whole
<1>2. held \in Schema!Boot /\ held.own = next.own \cup Schema!Made(i) /\ held.pc = next.pc /\ held.at = next.at /\ held.missing = next.missing
  BY <1>1 DEF Schema!Boot
<1>3. CASE Schema!Abandon(p)
  BY <1>3, AbandonStep DEF Schema!Abandon
<1>4. CASE place = "sqlite" /\ schema' = schema \cup Schema!Made(i) /\ Schema!Set(p, next) /\ UNCHANGED place
  <2>1. Reached(p, held, schema, place)
    OBVIOUS
  <2> HIDE DEF held
  <2>2. schema \cup held.own = (schema \cup Schema!Made(i)) \cup next.own /\ schema \subseteq schema \cup Schema!Made(i)
    BY <1>2
  <2>3. Reached(p, next, schema \cup Schema!Made(i), place)
    BY <1>2, <2>1, <2>2 DEF Reached
  <2> QED
    BY <1>1, <1>4, <2>3, StarterStep DEF Schema!Set
<1>5. CASE boot' = [boot EXCEPT ![p] = held] /\ UNCHANGED <<schema, place>>
  <2>1. schema' = schema \cup {} /\ Reached(p, held, schema', place)
    BY <1>5
  <2> HIDE DEF held
  <2> QED
    BY <1>1, <1>2, <1>5, <2>1, StarterStep
<1> QED
  BY <1>3, <1>4, <1>5 DEF Schema!Execute, Schema!Set

LEMMA CreateStep == ASSUME Schema!PlanConstants, SchemaInv, NEW p \in Schema!Starters, Schema!Create(p) PROVE SchemaInv'
<1> DEFINE b == boot[p]
<1>1. b \in Schema!Boot /\ Reached(p, b, schema, place) /\ b.pc = "create"
  BY DEF SchemaInv, SchemaTypes, Schema!Create
<1>2. PICK t \in b.missing : Schema!Execute(p, t, [b EXCEPT !.missing = @ \ {t}])
  BY DEF Schema!Create
<1> DEFINE next == [b EXCEPT !.missing = @ \ {t}]
           held == [next EXCEPT !.own = @ \cup Schema!Made(t)]
<1>3. t \in Schema!Items
  BY <1>1 DEF Schema!Boot
<1>4. Schema!Made(t) \subseteq Schema!Items /\ Whole(Schema!Made(t)) /\ t \in Schema!Made(t)
  BY <1>3, MadeWhole
<1>5. next \in Schema!Boot /\ next.pc = "create" /\ next.own = b.own /\ next.missing = b.missing \ {t}
  BY <1>1 DEF Schema!Boot
<1>6. held.pc = "create" /\ held.own = b.own \cup Schema!Made(t) /\ held.missing = b.missing \ {t}
  BY <1>1 DEF Schema!Boot
<1>7. Whole(b.own) /\ place # "production" /\ Tables \subseteq schema \cup b.own \cup b.missing
  BY <1>1 DEF Reached
<1> HIDE DEF b
<1>8. Whole(held.own)
  BY <1>4, <1>6, <1>7, WholeUnion
<1>9. Reached(p, held, schema, place)
  <2> HIDE DEF held
  <2> QED
    BY <1>4, <1>6, <1>7, <1>8 DEF Reached
<1> QED
  BY <1>2, <1>3, <1>5, <1>7, <1>9, ExecuteStep

LEMMA AlteredBoot ==
    ASSUME NEW b \in Schema!Boot, NEW i
    PROVE  /\ Schema!Altered(b, i) \in Schema!Boot /\ Schema!Altered(b, i).own = b.own
           /\ b.missing = {i} => Schema!Altered(b, i).pc = "look" /\ Schema!Altered(b, i).at = b.at + 1
           /\ b.missing # {i} => /\ Schema!Altered(b, i).pc = b.pc /\ Schema!Altered(b, i).at = b.at
                                 /\ Schema!Altered(b, i).missing = b.missing \ {i}
<1> DEFINE next == b.at + 1
<1>1. next \in Nat \ {0}
  BY DEF Schema!Boot
<1> HIDE DEF next
<1>2. CASE b.missing = {i}
  <2>1. Schema!Altered(b, i) = [b EXCEPT !.pc = "look", !.at = next, !.missing = {}]
    BY <1>2 DEF Schema!Altered, next
  <2>2. [b EXCEPT !.pc = "look", !.at = next, !.missing = {}] \in Schema!Boot
    BY <1>1 DEF Schema!Boot
  <2>3. Schema!Altered(b, i).own = b.own /\ Schema!Altered(b, i).pc = "look" /\ Schema!Altered(b, i).at = next
    BY <2>1 DEF Schema!Boot
  <2> QED
    BY <1>2, <2>1, <2>2, <2>3 DEF next
<1>3. CASE b.missing # {i}
  BY <1>3 DEF Schema!Altered, Schema!Boot
<1> QED
  BY <1>2, <1>3

\* A record that holds more.
LEMMA HeldBoot ==
    ASSUME NEW b \in Schema!Boot, NEW D \in SUBSET Schema!Items
    PROVE  LET held == [b EXCEPT !.own = @ \cup D]
           IN  /\ held \in Schema!Boot /\ held.pc = b.pc /\ held.at = b.at
               /\ held.missing = b.missing /\ held.own = b.own \cup D
  BY DEF Schema!Boot

LEMMA AlterStep == ASSUME Schema!PlanConstants, SchemaInv, NEW p \in Schema!Starters, Schema!Alter(p) PROVE SchemaInv'
<1> DEFINE b == boot[p]
<1>1. b \in Schema!Boot /\ Reached(p, b, schema, place) /\ b.pc = "alter"
  BY DEF SchemaInv, SchemaTypes, Schema!Alter
<1>2. PICK i \in b.missing : Schema!Execute(p, i, Schema!Altered(b, i))
  BY DEF Schema!Alter
<1> DEFINE next == Schema!Altered(b, i)
           held == [next EXCEPT !.own = @ \cup Schema!Made(i)]
<1>3. i \in Schema!Items
  BY <1>1 DEF Schema!Boot
<1>4. Schema!Made(i) \subseteq Schema!Items /\ Whole(Schema!Made(i)) /\ i \in Schema!Made(i)
  BY <1>3, MadeWhole
<1>5. /\ Whole(b.own) /\ place # "production" /\ (p \in Apis => Tables \subseteq schema)
      /\ \A j \in DOMAIN Plan : j < b.at => SettledIn(schema \cup b.own, Plan[j])
      /\ b.at \in DOMAIN Plan /\ Required(Plan[b.at]) \subseteq schema \cup b.own \cup b.missing
  BY <1>1 DEF Reached
<1>6. \A j \in DOMAIN Plan : Plan[j] \in Schema!Looks /\ j \in Nat
  BY DEF Schema!PlanConstants
<1>7. b.at \in Nat /\ b.own \subseteq Schema!Items
  BY <1>1 DEF Schema!Boot
<1> HIDE DEF b
<1> DEFINE own == b.own \cup Schema!Made(i)
<1>8. Whole(own)
  BY <1>4, <1>5, WholeUnion
<1>9. \A j \in DOMAIN Plan : j < b.at => SettledIn(schema \cup own, Plan[j])
  <2>1. schema \cup own = (schema \cup b.own) \cup Schema!Made(i)
    OBVIOUS
  <2> HIDE DEF own
  <2> QED
    BY <1>4, <1>5, <1>6, <2>1, SettledGrows
<1>10. held.pc = next.pc /\ held.at = next.at /\ held.missing = next.missing /\ held.own = own
  BY <1>1, <1>4, AlteredBoot, HeldBoot
<1>11. next \in Schema!Boot /\ next.own = b.own
  BY <1>1, AlteredBoot
<1>12. CASE b.missing = {i}
  <2>1. next.pc = "look" /\ next.at = b.at + 1
    BY <1>1, <1>12, AlteredBoot
  <2>2. SettledIn(schema \cup own, Plan[b.at])
    BY <1>4, <1>5, <1>12 DEF SettledIn
  <2> HIDE DEF own, held, next
  <2>3. ASSUME NEW j \in DOMAIN Plan, j < b.at + 1 PROVE SettledIn(schema \cup own, Plan[j])
    <3>1. j < b.at \/ j = b.at
      BY <1>6, <1>7, <2>3
    <3> QED
      BY <1>9, <2>2, <3>1
  <2>4. Reached(p, held, schema, place)
    BY <1>5, <1>8, <1>10, <2>1, <2>3 DEF Reached
  <2> QED
    BY <1>2, <1>3, <1>5, <1>11, <2>1, <2>4, ExecuteStep DEF held, next
<1>13. CASE b.missing # {i}
  <2>1. next.pc = "alter" /\ next.at = b.at /\ next.missing = b.missing \ {i}
    BY <1>1, <1>13, AlteredBoot
  <2>2. Required(Plan[b.at]) \subseteq schema \cup own \cup (b.missing \ {i})
    BY <1>4, <1>5
  <2> HIDE DEF own, held, next
  <2>3. Reached(p, held, schema, place)
    BY <1>5, <1>8, <1>9, <1>10, <2>1, <2>2 DEF Reached
  <2> QED
    BY <1>2, <1>3, <1>5, <1>11, <2>1, <2>3, ExecuteStep DEF held, next
<1> QED
  BY <1>12, <1>13

\* Tables are looked for before the columns and indexes.
LEMMA TablesFirst ==
    ASSUME Schema!PlanConstants, NEW i \in IndexPatches, NEW k \in DOMAIN Plan, Plan[k] = [kind |-> "indexes", of |-> TableOf[i]],
           NEW S, \A j \in DOMAIN Plan : j < k => SettledIn(S, Plan[j])
    PROVE  TableOf[i] \in S
<1> DEFINE t == TableOf[i]
<1>1. PICK j \in DOMAIN Plan : Plan[j] = [kind |-> "table", of |-> t]
  BY DEF Schema!PlanConstants
<1>2. j \in Nat /\ k \in Nat /\ j # k /\ ~(k < j)
  BY <1>1 DEF Schema!PlanConstants
<1>3. SettledIn(S, Plan[j])
  BY <1>2
<1>4. t \in Schema!Items
  BY DEF Schema!PlanConstants, Schema!Items, Schema!Parts
<1> HIDE DEF t
<1> QED
  BY <1>1, <1>3, <1>4 DEF SettledIn, Required, t

LEMMA LookAtStep == ASSUME Schema!PlanConstants, SchemaInv, NEW p \in Schema!Starters, Schema!Look(p) PROVE SchemaInv'
<1> DEFINE b == boot[p]
           look == Plan[b.at]
<1>1. b \in Schema!Boot /\ Reached(p, b, schema, place) /\ b.pc = "look" /\ b.at \in DOMAIN Plan /\ schema \subseteq Schema!Items
  <2>1. b \in Schema!Boot /\ Reached(p, b, schema, place) /\ schema \subseteq Schema!Items /\ b.pc = "look" /\ b.at <= Len(Plan)
    BY DEF SchemaInv, SchemaTypes, Schema!Look
  <2>2. b.at \in Nat \ {0}
    BY <2>1 DEF Schema!Boot
  <2> QED
    BY <2>1, <2>2 DEF Schema!PlanConstants
<1>2. look \in Schema!Looks
  BY <1>1 DEF Schema!PlanConstants
<1>3. /\ Whole(b.own) /\ place # "production" /\ (p \in Apis => Tables \subseteq schema)
      /\ \A j \in DOMAIN Plan : j < b.at => SettledIn(schema \cup b.own, Plan[j])
  BY <1>1 DEF Reached
<1>4. UNCHANGED <<place, schema>> /\ schema' = schema \cup {} /\ Whole({})
  BY DEF Schema!Look, Whole
<1>5. Schema!Set(p, IF Schema!Skipped(p, look) THEN [b EXCEPT !.at = @ + 1]
             ELSE IF Schema!Unreadable(p, look) THEN Schema!Down
             ELSE IF Schema!Missing(look) = {} THEN [b EXCEPT !.at = @ + 1]
             ELSE [b EXCEPT !.pc = "alter", !.missing = Schema!Missing(look)])
  BY DEF Schema!Look
<1>6. \A j \in DOMAIN Plan : j \in Nat
  BY DEF Schema!PlanConstants
<1>7. b.at \in Nat
  BY <1>1 DEF Schema!Boot
<1>8. Schema!Skipped(p, look) => SettledIn(schema \cup b.own, look)
  <2>1. CASE look.kind = "columns"
    BY <2>1 DEF Schema!Skipped, Schema!Seen, SettledIn
  <2>2. CASE look.kind = "indexes"
    <3> SUFFICES ASSUME Schema!Skipped(p, look), NEW i \in Schema!Of(look.of, IndexPatches) PROVE FALSE
      BY <2>2 DEF SettledIn, Required
    <3>1. i \in IndexPatches /\ look = [kind |-> "indexes", of |-> TableOf[i]]
      BY <1>2, <2>2 DEF Schema!Of, Schema!Looks
    <3> QED
      BY <1>1, <1>3, <3>1, TablesFirst DEF Schema!Skipped, Schema!Seen
  <2> QED
    BY <1>2, <2>1, <2>2 DEF Schema!Skipped, Schema!Looks
<1>9. ~Schema!Skipped(p, look) => Required(look) \subseteq schema \cup b.own \cup Schema!Missing(look)
  BY <1>2 DEF Required, Schema!Missing, Schema!Looks
<1>10. Schema!Missing(look) \subseteq Schema!Items
  BY <1>2 DEF Schema!Missing, Schema!Looks, Schema!Of, Schema!Items, Schema!Parts
<1>11. CASE Schema!Set(p, Schema!Down)
  BY <1>4, <1>11, AbandonStep
<1>12. CASE SettledIn(schema \cup b.own, look) /\ Schema!Set(p, [b EXCEPT !.at = @ + 1])
  <2> DEFINE n == b.at + 1
             new == [b EXCEPT !.at = n]
  <2>1. n \in Nat \ {0} /\ \A j \in DOMAIN Plan : j < n => j < b.at \/ j = b.at
    BY <1>6, <1>7
  <2> HIDE DEF n
  <2>2. new \in Schema!Boot /\ new.pc = "look" /\ new.own = b.own /\ new.at = n
    BY <1>1, <2>1 DEF Schema!Boot
  <2>3. boot' = [boot EXCEPT ![p] = new]
    BY <1>12 DEF Schema!Set, n
  <2> HIDE DEF new
  <2>4. \A j \in DOMAIN Plan : j < new.at => SettledIn(schema \cup b.own, Plan[j])
    BY <1>3, <1>12, <2>1, <2>2
  <2>5. Reached(p, new, schema', place)
    BY <1>3, <1>4, <2>2, <2>4 DEF Reached
  <2> QED
    BY <1>4, <2>2, <2>3, <2>5, StarterStep
<1>13. CASE ~Schema!Skipped(p, look) /\ Schema!Set(p, [b EXCEPT !.pc = "alter", !.missing = Schema!Missing(look)])
  <2> DEFINE lacking == Schema!Missing(look)
             new == [b EXCEPT !.pc = "alter", !.missing = lacking]
  <2>1. lacking \subseteq Schema!Items
    BY <1>10
  <2>2. new \in Schema!Boot /\ new.pc = "alter" /\ new.own = b.own /\ new.at = b.at /\ new.missing = lacking
    <3> HIDE DEF lacking
    <3> QED
      BY <1>1, <2>1 DEF Schema!Boot
  <2>3. boot' = [boot EXCEPT ![p] = new]
    BY <1>13 DEF Schema!Set
  <2>4. Required(Plan[b.at]) \subseteq schema \cup b.own \cup lacking
    BY <1>9, <1>13
  <2> HIDE DEF new, lacking
  <2>5. Reached(p, new, schema', place)
    BY <1>1, <1>3, <1>4, <2>2, <2>4 DEF Reached
  <2> QED
    BY <1>4, <2>2, <2>3, <2>5, StarterStep
<1>14. ~Schema!Skipped(p, look) /\ Schema!Missing(look) = {} => SettledIn(schema \cup b.own, look)
  BY <1>9 DEF SettledIn
<1> QED
  BY <1>5, <1>8, <1>11, <1>12, <1>13, <1>14

\* The plan read to its end leaves nothing out.
LEMMA PlanSettles ==
    ASSUME Schema!PlanConstants, NEW p, NEW S, NEW where, where # "production", p \in Apis => Tables \subseteq S,
           \A j \in DOMAIN Plan : SettledIn(S, Plan[j])
    PROVE  Complete(p, S, where)
<1>1. ASSUME NEW t \in TablePatches PROVE t \in S
  <2>1. PICK j \in DOMAIN Plan : Plan[j] = [kind |-> "table", of |-> t]
    BY DEF Schema!PlanConstants
  <2> QED
    BY <2>1 DEF Schema!PlanConstants, SettledIn, Required, Schema!Items
<1>2. ASSUME NEW t \in Tables, t \in S, NEW c \in Schema!Of(t, ColumnPatches) PROVE c \in S
  <2>1. PICK j \in DOMAIN Plan : Plan[j] = [kind |-> "columns", of |-> t]
    BY DEF Schema!PlanConstants, Schema!Of
  <2> QED
    BY <1>2, <2>1 DEF SettledIn, Required, Schema!Of, Schema!Items, Schema!Parts
<1>3. ASSUME NEW t \in Tables, NEW c \in Schema!Of(t, IndexPatches) PROVE c \in S
  <2>1. PICK j \in DOMAIN Plan : Plan[j] = [kind |-> "indexes", of |-> t]
    BY DEF Schema!PlanConstants, Schema!Of
  <2> QED
    BY <2>1 DEF SettledIn, Required, Schema!Of, Schema!Items, Schema!Parts
<1> QED
  BY <1>1, <1>2, <1>3 DEF Complete, Schema!Of, Schema!Parts

LEMMA CommitStep == ASSUME Schema!PlanConstants, SchemaInv, NEW p \in Schema!Starters, Schema!Created(p) \/ Schema!Finish(p) PROVE SchemaInv'
<1> DEFINE b == boot[p]
<1>1. b \in Schema!Boot /\ Reached(p, b, schema, place)
  BY DEF SchemaInv, SchemaTypes
<1>2. schema' = schema \cup b.own /\ Whole(b.own) /\ b.own \subseteq Schema!Items /\ UNCHANGED place
  BY <1>1 DEF Schema!Created, Schema!Finish, Schema!Seen, Reached, Schema!Boot
<1>3. CASE Schema!Created(p)
  <2> DEFINE new == [Schema!Down EXCEPT !.pc = "look"]
  <2>1. new \in Schema!Boot /\ new.pc = "look" /\ new.own = {} /\ new.at = 1
    BY DEF Schema!Down, Schema!Boot
  <2>2. boot' = [boot EXCEPT ![p] = new] /\ b.pc = "create" /\ b.missing = {}
    BY <1>3 DEF Schema!Created, Schema!Set
  <2> HIDE DEF new, b
  <2>3. \A j \in DOMAIN Plan : ~(j < new.at)
    BY <2>1 DEF Schema!PlanConstants
  <2>4. Reached(p, new, schema', place)
    BY <1>1, <1>2, <2>1, <2>2, <2>3 DEF Reached, Whole
  <2> QED
    BY <1>2, <2>1, <2>2, <2>4, StarterStep
<1>4. CASE Schema!Finish(p)
  <2> DEFINE new == [Schema!Down EXCEPT !.pc = "up"]
  <2>1. new \in Schema!Boot /\ new.pc = "up" /\ new.own = {}
    BY DEF Schema!Down, Schema!Boot
  <2>2. boot' = [boot EXCEPT ![p] = new] /\ b.pc = "look" /\ b.at > Len(Plan) /\ b.at \in Nat
    BY <1>1, <1>4 DEF Schema!Finish, Schema!Set, Schema!Boot
  <2> HIDE DEF new, b
  <2>3. \A j \in DOMAIN Plan : j < b.at
    BY <2>2 DEF Schema!PlanConstants
  <2>4. /\ place # "production" /\ (p \in Apis => Tables \subseteq schema')
        /\ \A j \in DOMAIN Plan : SettledIn(schema', Plan[j])
    BY <1>1, <1>2, <2>2, <2>3 DEF Reached
  <2>5. Complete(p, schema', place)
    BY <2>4, PlanSettles
  <2>6. Reached(p, new, schema', place)
    BY <2>1, <2>5 DEF Reached, Whole
  <2> QED
    BY <1>2, <2>1, <2>2, <2>6, StarterStep
<1> QED
  BY <1>3, <1>4

LEMMA AskedBoot ==
    ASSUME NEW pc \in {"create", "verify"}, NEW lacking \in SUBSET Schema!Items
    PROVE  LET b == [Schema!Down EXCEPT !.pc = pc, !.missing = lacking]
           IN  b \in Schema!Boot /\ b.pc = pc /\ b.missing = lacking /\ b.own = {}
<1>1. Schema!Down \in Schema!Boot /\ Schema!Down.own = {}
  BY DEF Schema!Down, Schema!Boot
<1>2. ASSUME NEW d \in Schema!Boot, d.own = {}
      PROVE  LET b == [d EXCEPT !.pc = pc, !.missing = lacking]
             IN  b \in Schema!Boot /\ b.pc = pc /\ b.missing = lacking /\ b.own = {}
  BY <1>2 DEF Schema!Boot
<1> QED
  BY <1>1, <1>2

LEMMA OtherStarterStep ==
    ASSUME Schema!PlanConstants, SchemaInv, NEW p \in Schema!Starters, Schema!Start(p) \/ Schema!Verify(p) \/ Schema!Verified(p) \/ Schema!Restart(p) \/ Schema!Fail(p)
    PROVE  SchemaInv'
<1> DEFINE b == boot[p]
<1>1. b \in Schema!Boot /\ Reached(p, b, schema, place) /\ schema \subseteq Schema!Items
  BY DEF SchemaInv, SchemaTypes
<1>2. UNCHANGED <<place, schema>> /\ schema' = schema \cup {} /\ Whole({})
  BY DEF Schema!Start, Schema!Verify, Schema!Verified, Schema!Restart, Schema!Fail, Schema!Abandon, Whole
<1>3. CASE Schema!Set(p, Schema!Down)
  BY <1>2, <1>3, AbandonStep
<1>4. CASE Schema!Start(p)
  <2> DEFINE read == [Schema!Down EXCEPT !.pc = "verify", !.missing = Schema!Items]
             create == [Schema!Down EXCEPT !.pc = "create", !.missing = Tables \ schema]
             look == [Schema!Down EXCEPT !.pc = "look"]
  <2>1. /\ read \in Schema!Boot /\ read.pc = "verify" /\ read.missing = Schema!Items /\ read.own = {}
        /\ create \in Schema!Boot /\ create.pc = "create" /\ create.missing = Tables \ schema /\ create.own = {}
        /\ look \in Schema!Boot /\ look.pc = "look" /\ look.at = 1 /\ look.own = {}
    <3>1. Schema!Items \in SUBSET Schema!Items /\ Tables \ schema \in SUBSET Schema!Items
      BY DEF Schema!Items
    <3> HIDE DEF b
    <3>2. read \in Schema!Boot /\ read.pc = "verify" /\ read.missing = Schema!Items /\ read.own = {}
      BY <3>1, AskedBoot
    <3>3. create \in Schema!Boot /\ create.pc = "create" /\ create.missing = Tables \ schema /\ create.own = {}
      BY <3>1, AskedBoot
    <3>4. look \in Schema!Boot /\ look.pc = "look" /\ look.at = 1 /\ look.own = {}
      BY DEF Schema!Down, Schema!Boot
    <3> QED
      BY <3>2, <3>3, <3>4
  <2>2. Schema!Set(p, IF place = "production" THEN read ELSE IF p \in Apis THEN create ELSE look)
    BY <1>4 DEF Schema!Start
  <2> HIDE DEF read, create, look
  <2>3. \A j \in DOMAIN Plan : ~(j < look.at)
    BY <2>1 DEF Schema!PlanConstants
  <2>4. place = "production" => Reached(p, read, schema', place)
    BY <2>1 DEF Reached, Whole
  <2>5. place # "production" => Reached(p, create, schema', place)
    BY <1>2, <2>1 DEF Reached, Whole
  <2>6. place # "production" /\ p \notin Apis => Reached(p, look, schema', place)
    BY <2>1, <2>3 DEF Reached, Whole
  <2> QED
    BY <1>2, <2>1, <2>2, <2>4, <2>5, <2>6, StarterStep DEF Schema!Set
<1>5. CASE Schema!Verify(p)
  <2>1. PICK i \in b.missing : IF i \in schema THEN Schema!Set(p, [b EXCEPT !.missing = @ \ {i}]) ELSE Schema!Set(p, Schema!Down)
    BY <1>5 DEF Schema!Verify
  <2> DEFINE new == [b EXCEPT !.missing = @ \ {i}]
  <2>2. CASE i \in schema /\ Schema!Set(p, new)
    <3>1. new \in Schema!Boot /\ new.pc = "verify" /\ new.own = b.own /\ new.missing = b.missing \ {i}
      BY <1>1, <1>5 DEF Schema!Boot, Schema!Verify
    <3>2. Whole(b.own) /\ place = "production" /\ Schema!Items \subseteq schema \cup b.missing
      BY <1>1, <1>5 DEF Reached, Schema!Verify
    <3> HIDE DEF new, b
    <3>3. Reached(p, new, schema', place)
      BY <1>2, <2>2, <3>1, <3>2 DEF Reached
    <3> QED
      BY <1>2, <2>2, <3>1, <3>3, StarterStep DEF Schema!Set
  <2> QED
    BY <1>3, <2>1, <2>2
<1>6. CASE Schema!Verified(p)
  <2> DEFINE new == [Schema!Down EXCEPT !.pc = "up"]
  <2>1. new \in Schema!Boot /\ new.pc = "up" /\ new.own = {}
    BY DEF Schema!Down, Schema!Boot
  <2>2. boot' = [boot EXCEPT ![p] = new] /\ b.pc = "verify" /\ b.missing = {}
    BY <1>6 DEF Schema!Verified, Schema!Set
  <2> HIDE DEF new, b
  <2>3. Complete(p, schema', place)
    BY <1>1, <1>2, <2>2 DEF Reached, Complete
  <2>4. Reached(p, new, schema', place)
    BY <2>1, <2>3 DEF Reached, Whole
  <2> QED
    BY <1>2, <2>1, <2>2, <2>4, StarterStep
<1> QED
  BY <1>3, <1>4, <1>5, <1>6 DEF Schema!Restart, Schema!Fail, Schema!Abandon

LEMMA MigrateStep == ASSUME Schema!PlanConstants, SchemaInv, NEW i \in Schema!Items, Schema!Migrate(i) PROVE SchemaInv'
<1>1. place = "production" /\ schema' = schema \cup {i} /\ UNCHANGED <<place, boot>>
  BY DEF Schema!Migrate
<1>2. SchemaTypes'
  BY <1>1 DEF SchemaInv, SchemaTypes
<1>3. ASSUME NEW p \in Schema!Starters PROVE Reached(p, boot[p], schema', place)
  <2>1. boot[p] \in Schema!Boot /\ Reached(p, boot[p], schema, place)
    BY DEF SchemaInv, SchemaTypes
  <2> QED
    BY <1>1, <2>1, ReachedGrows
<1> QED
  BY <1>1, <1>2, <1>3 DEF SchemaInv

LEMMA SchemaInit == Schema!Init => SchemaInv
<1> SUFFICES ASSUME Schema!Init PROVE SchemaInv
  OBVIOUS
<1>1. PICK S \in SUBSET Tables, New \in SUBSET Tables : schema = S \cup UNION {Schema!Of(t, ColumnPatches) : t \in New}
  BY DEF Schema!Init
<1>2. schema \subseteq Schema!Items
  BY <1>1 DEF Schema!Of, Schema!Items, Schema!Parts
<1>3. place \in Schema!Places /\ boot = [p \in Schema!Starters |-> Schema!Down]
  BY DEF Schema!Init
<1> QED
  BY <1>2, <1>3, DownReached DEF SchemaInv, SchemaTypes

\* The start of every process: whichever APIs and workers create, patch and read the
\* schema at once, wherever their transactions fail and in whatever order the plan
\* has its looks (tables first), one that is up has a schema it can work with
\* (ensure_runtime_schema, validate_production_schema).
THEOREM CompleteHolds == PlatformSpec => []StartedIsComplete
<1>0. Schema!PlanConstants
  BY PlatformConstants
<1>1. SchemaInv /\ [Schema!Next]_(Schema!vars) => SchemaInv'
  <2> SUFFICES ASSUME SchemaInv, [Schema!Next]_(Schema!vars) PROVE SchemaInv'
    OBVIOUS
  <2>1. CASE UNCHANGED Schema!vars
    BY <2>1 DEF Schema!vars, SchemaInv, SchemaTypes
  <2> QED
    BY <1>0, <2>1, CreateStep, AlterStep, LookAtStep, CommitStep, OtherStarterStep, MigrateStep DEF Schema!Next
<1>2. SchemaInv => Schema!StartedIsComplete
  BY DEF SchemaInv, Reached, Complete, Schema!StartedIsComplete, Schema!Patched
<1>3. PlatformInit => Schema!Init
  BY DEF PlatformInit
<1>4. [PlatformNext]_allvars => [Schema!Next]_(Schema!vars)
  BY DEF PlatformNext, Quotes, ChartsMove, SchemaMoves, MigrationMoves, SignalsMove, BarsMove, allvars, svars, Schema!vars
<1> QED
  BY SchemaInit, <1>1, <1>2, <1>3, <1>4, PTL DEF PlatformSpec, StartedIsComplete

-----------------------------------------------------------------------------
(* The bars of many symbols.  What is taken to be covered is in the payload,  *)
(* by name or because it is the only symbol; so an answer is whole as it is   *)
(* given, and only a clock read before the answer's makes it older.           *)

BatchBounds == IsFiniteSet(BatchSymbols) /\ Bars!BatchConstants

BatchTypes ==
    /\ bnow \in Nat /\ batch \in [data : Bars!Payload, key : SUBSET BatchSymbols, at : Nat]
    /\ asker \in [Askers -> [pc : {"idle", "asked", "waiting", "download"}, key : SUBSET BatchSymbols, since : Nat,
                               answer : [from : {"cache", "provider", "nobody"}, data : SUBSET BatchSymbols, at : Nat]]]

Covers(k) ==
    k.key # {} => /\ k.data.multi => k.key \subseteq k.data.symbols
                  /\ ~k.data.multi => k.key = k.data.symbols /\ Cardinality(k.key) = 1

OneDownload == \A c, d \in Askers : Bars!Refreshing(c) /\ Bars!Refreshing(d) => c = d
WholeAnswer(r) == r.answer.from = "cache" => r.key \subseteq r.answer.data /\ r.since - r.answer.at < BatchTtl
Asking(r) ==
    /\ r.since <= bnow /\ (r.pc # "idle" => r.key # {} /\ r.answer.from # "cache")
    /\ WholeAnswer(r)

BatchInv == BatchTypes /\ Covers(batch) /\ OneDownload /\ \A c \in Askers : Asking(asker[c])

LEMMA SameCardinality == ASSUME NEW S PROVE Bars!Cardinality(S) = Cardinality(S)
  BY Zenon DEF Cardinality, Bars!Cardinality

LEMMA PayloadStored ==
    ASSUME BatchBounds, NEW k \in [data : Bars!Payload, key : SUBSET BatchSymbols, at : Nat], batch = k, Covers(k),
           NEW key \in SUBSET BatchSymbols, NEW symbols \in SUBSET key, NEW multi \in BOOLEAN, symbols # {},
           NEW t \in Nat, NEW new \in Bars!Stored([symbols |-> symbols, multi |-> multi], key, t)
    PROVE  Covers(new) /\ new \in [data : Bars!Payload, key : SUBSET BatchSymbols, at : Nat]
<1> DEFINE data == [symbols |-> symbols, multi |-> multi]
           present == Bars!Present(data, key)
<1>1. data \in Bars!Payload /\ data.symbols = symbols /\ data.multi = multi
  BY DEF Bars!Payload
<1>2. present \in SUBSET key /\ (multi => present \subseteq symbols)
  BY DEF Bars!Present
<1>3. ~multi /\ present # {} => present = key /\ Cardinality(key) = 1 /\ key = symbols
  <2>1. ~multi /\ present # {} => present = key /\ Cardinality(key) = 1
    <3>1. Bars!Cardinality(key) = Cardinality(key)
      BY SameCardinality
    <3> QED
      BY <1>1, <3>1 DEF Bars!Present
  <2>2. Cardinality(key) = 1 => \E s : key = {s}
    BY FS_Subset, FS_Singleton DEF BatchBounds, Bars!BatchConstants
  <2> QED
    BY <2>1, <2>2
<1>4. CASE new = batch
  BY <1>4
<1>5. CASE present # {} /\ Cardinality(present) <= BatchLimit /\ new = [data |-> data, key |-> present, at |-> t]
  <2> HIDE DEF data, present
  <2>1. new.data = data /\ new.key = present
    BY <1>5
  <2> QED
    BY <1>1, <1>2, <1>3, <1>5, <2>1 DEF Covers
<1>6. ASSUME present # {}, ~(Cardinality(present) <= BatchLimit), NEW first \in SUBSET present,
             new = [data |-> [data EXCEPT !.symbols = Bars!Subset(data, first)], key |-> first, at |-> t]
      PROVE  Covers(new) /\ new \in [data : Bars!Payload, key : SUBSET BatchSymbols, at : Nat]
  <2>1. multi
    BY <1>3, <1>6 DEF BatchBounds, Bars!BatchConstants
  <2>2. Bars!Subset(data, first) = first
    BY <1>2, <1>6, <2>1 DEF Bars!Subset
  <2>3. [data EXCEPT !.symbols = first] = [symbols |-> first, multi |-> multi]
    OBVIOUS
  <2>4. new = [data |-> [symbols |-> first, multi |-> multi], key |-> first, at |-> t]
    BY <1>6, <2>2, <2>3
  <2> HIDE DEF data, present
  <2>5. new.data.multi = multi /\ new.data.symbols = first /\ new.key = first
    BY <2>4
  <2>6. first \in SUBSET BatchSymbols
    BY <1>2, <1>6
  <2> QED
    BY <2>1, <2>4, <2>5, <2>6 DEF Covers, Bars!Payload
<1>7. \/ new = batch
      \/ present # {} /\ Bars!Cardinality(present) <= BatchLimit /\ new = [data |-> data, key |-> present, at |-> t]
      \/ /\ present # {} /\ ~(Bars!Cardinality(present) <= BatchLimit)
         /\ \E first \in SUBSET present :
               new = [data |-> [data EXCEPT !.symbols = Bars!Subset(data, first)], key |-> first, at |-> t]
  <2> HIDE DEF data
  <2>1. new \in Bars!Stored(data, key, t)
    BY DEF data
  <2> QED
    BY <2>1 DEF Bars!Stored
<1>8. Bars!Cardinality(present) = Cardinality(present)
  BY SameCardinality
<1> HIDE DEF data, present
<1> QED
  BY <1>4, <1>5, <1>6, <1>7, <1>8

\* A caller's step that leaves the payload and the clock alone.
LEMMA CallerStep ==
    ASSUME BatchInv, NEW c \in Askers,
           NEW r \in [pc : {"idle", "asked", "waiting", "download"}, key : SUBSET BatchSymbols, since : Nat,
                      answer : [from : {"cache", "provider", "nobody"}, data : SUBSET BatchSymbols, at : Nat]],
           asker' = [asker EXCEPT ![c] = r], bnow' = bnow,
           batch' \in [data : Bars!Payload, key : SUBSET BatchSymbols, at : Nat], Covers(batch)', Asking(r),
           r.pc = "download" => \A d \in Askers : Bars!Refreshing(d) => d = c
    PROVE  BatchInv'
<1> USE DEF BatchInv, BatchTypes
<1>1. BatchTypes'
  OBVIOUS
<1>2. \A d \in Askers : asker'[d] = IF d = c THEN r ELSE asker[d]
  OBVIOUS
<1>3. OneDownload'
  BY <1>2 DEF OneDownload, Bars!Refreshing
<1>4. ASSUME NEW d \in Askers PROVE Asking(asker[d])'
  BY <1>2 DEF Asking, WholeAnswer
<1> QED
  BY <1>1, <1>3, <1>4

LEMMA AnsweredStep ==
    ASSUME BatchInv, NEW c \in Askers, NEW from \in {"cache", "provider", "nobody"},
           NEW data \in SUBSET BatchSymbols, NEW at \in Nat, Bars!Answered(c, from, data, at), bnow' = bnow,
           batch' \in [data : Bars!Payload, key : SUBSET BatchSymbols, at : Nat], Covers(batch)',
           from = "cache" => asker[c].key \subseteq data /\ asker[c].since - at < BatchTtl
    PROVE  BatchInv'
<1> DEFINE answer == [from |-> from, data |-> data, at |-> at]
           r == [asker[c] EXCEPT !.pc = "idle", !.answer = answer]
<1>1. answer \in [from : {"cache", "provider", "nobody"}, data : SUBSET BatchSymbols, at : Nat]
      /\ answer.from = from /\ answer.data = data /\ answer.at = at
  OBVIOUS
<1>2. asker' = [asker EXCEPT ![c] = r]
  BY DEF Bars!Answered, Bars!Set
<1>3. Asking(asker[c])
  BY DEF BatchInv
<1> HIDE DEF answer
<1>4. /\ r \in [pc : {"idle", "asked", "waiting", "download"}, key : SUBSET BatchSymbols, since : Nat,
                 answer : [from : {"cache", "provider", "nobody"}, data : SUBSET BatchSymbols, at : Nat]]
      /\ r.pc = "idle" /\ r.key = asker[c].key /\ r.since = asker[c].since /\ r.answer = answer
  BY <1>1 DEF BatchInv, BatchTypes
<1> HIDE DEF r
<1>5. Asking(r)
  BY <1>1, <1>3, <1>4 DEF Asking, WholeAnswer
<1> QED
  BY <1>2, <1>4, <1>5, CallerStep

\* The payload answers a caller whose clock is not after the one it is asked with.
LEMMA FromCacheStep ==
    ASSUME BatchBounds, BatchInv, NEW c \in Askers, asker[c].pc # "idle", NEW t \in Nat, asker[c].since <= t,
           Bars!Satisfies(asker[c].key, t), Bars!FromCache(c), UNCHANGED <<bnow, batch>>
    PROVE  BatchInv'
<1> DEFINE key == asker[c].key
           data == Bars!Subset(batch.data, key)
<1>1. key \in SUBSET BatchSymbols /\ key # {} /\ asker[c].since \in Nat
  BY DEF BatchInv, BatchTypes, Asking
<1>2. batch.data \in Bars!Payload /\ batch.at \in Nat /\ batch.key \in SUBSET BatchSymbols
      /\ batch \in [data : Bars!Payload, key : SUBSET BatchSymbols, at : Nat]
  BY DEF BatchInv, BatchTypes
<1>3. key \subseteq batch.key /\ asker[c].since - batch.at < BatchTtl
  BY <1>1, <1>2 DEF Bars!Satisfies, BatchBounds, Bars!BatchConstants
<1> HIDE DEF key
<1>4. data \in SUBSET BatchSymbols
  BY <1>2 DEF Bars!Subset, Bars!Payload
<1>5. key \subseteq data
  <2>1. Covers(batch) /\ batch.key # {}
    BY <1>1, <1>3 DEF BatchInv
  <2>2. CASE batch.data.multi
    BY <1>3, <2>1, <2>2 DEF Covers, Bars!Subset
  <2>3. CASE ~batch.data.multi
    <3>1. batch.key = batch.data.symbols /\ Cardinality(batch.key) = 1
      BY <2>1, <2>3 DEF Covers
    <3>2. PICK s : batch.key = {s}
      BY <1>2, <3>1, FS_Subset, FS_Singleton DEF BatchBounds, Bars!BatchConstants
    <3>3. key = batch.key
      BY <1>1, <1>3, <3>2
    <3>4. Bars!Cardinality(key) = 1
      BY <3>1, <3>3, SameCardinality
    <3> QED
      BY <2>3, <3>1, <3>3, <3>4 DEF Bars!Subset
  <2> QED
    BY <2>2, <2>3
<1>6. Bars!Answered(c, "cache", data, batch.at)
  BY DEF Bars!FromCache, key
<1>7. Covers(batch)' /\ batch' \in [data : Bars!Payload, key : SUBSET BatchSymbols, at : Nat]
  BY <1>2 DEF BatchInv
<1> HIDE DEF data
<1> QED
  BY <1>2, <1>3, <1>4, <1>5, <1>6, <1>7, AnsweredStep DEF key

LEMMA NobodyStep ==
    ASSUME BatchInv, NEW c \in Askers, Bars!Answered(c, "nobody", {}, 0), UNCHANGED <<bnow, batch>>
    PROVE  BatchInv'
<1>1. batch' \in [data : Bars!Payload, key : SUBSET BatchSymbols, at : Nat] /\ Covers(batch)'
  BY DEF BatchInv, BatchTypes
<1>2. {} \in SUBSET BatchSymbols /\ 0 \in Nat
  OBVIOUS
<1> QED
  BY <1>1, <1>2, AnsweredStep

LEMMA BatchStep == ASSUME BatchBounds, BatchInv, Bars!Next PROVE BatchInv'
<1>1. batch \in [data : Bars!Payload, key : SUBSET BatchSymbols, at : Nat] /\ Covers(batch) /\ bnow \in Nat
  BY DEF BatchInv, BatchTypes
<1>2. ASSUME NEW c \in Askers, Bars!Ask(c) PROVE BatchInv'
  <2>1. PICK key \in (SUBSET BatchSymbols) \ {{}} :
            asker' = [asker EXCEPT ![c] = [pc |-> "asked", key |-> key, since |-> bnow, answer |-> Bars!NoAnswer]]
    BY <1>2 DEF Bars!Ask, Bars!Set
  <2> DEFINE r == [pc |-> "asked", key |-> key, since |-> bnow, answer |-> Bars!NoAnswer]
  <2>2. Bars!NoAnswer \in [from : {"cache", "provider", "nobody"}, data : SUBSET BatchSymbols, at : Nat]
        /\ Bars!NoAnswer.from = "nobody"
    BY DEF Bars!NoAnswer
  <2>3. r \in [pc : {"idle", "asked", "waiting", "download"}, key : SUBSET BatchSymbols, since : Nat,
               answer : [from : {"cache", "provider", "nobody"}, data : SUBSET BatchSymbols, at : Nat]]
    BY <1>1, <2>2
  <2>4. Asking(r) /\ r.pc = "asked"
    <3>1. r.pc = "asked" /\ r.key = key /\ key # {} /\ r.since = bnow /\ r.answer.from = "nobody"
      BY <2>2
    <3> HIDE DEF r
    <3> QED
      BY <1>1, <3>1 DEF Asking, WholeAnswer
  <2>5. bnow' = bnow /\ Covers(batch)' /\ batch' \in [data : Bars!Payload, key : SUBSET BatchSymbols, at : Nat]
    BY <1>1, <1>2 DEF Bars!Ask
  <2> HIDE DEF r
  <2> QED
    BY <2>1, <2>3, <2>4, <2>5, CallerStep DEF r
<1>3. ASSUME NEW c \in Askers, Bars!Look(c) PROVE BatchInv'
  <2>1. asker[c].pc = "asked" /\ UNCHANGED <<bnow, batch>>
    BY <1>3 DEF Bars!Look
  <2>2. asker[c].since \in Nat /\ asker[c].since <= asker[c].since
    BY DEF BatchInv, BatchTypes
  <2>3. CASE Bars!Satisfies(asker[c].key, asker[c].since) /\ Bars!FromCache(c)
    BY <2>1, <2>2, <2>3, FromCacheStep
  <2>4. CASE Bars!Set(c, [asker[c] EXCEPT !.pc = "waiting"])
    <3> DEFINE r == [asker[c] EXCEPT !.pc = "waiting"]
    <3>1. /\ r \in [pc : {"idle", "asked", "waiting", "download"}, key : SUBSET BatchSymbols, since : Nat,
                     answer : [from : {"cache", "provider", "nobody"}, data : SUBSET BatchSymbols, at : Nat]]
          /\ r.pc = "waiting" /\ r.key = asker[c].key /\ r.since = asker[c].since /\ r.answer = asker[c].answer
      BY DEF BatchInv, BatchTypes
    <3>2. asker' = [asker EXCEPT ![c] = r]
      BY <2>4 DEF Bars!Set
    <3> HIDE DEF r
    <3>3. Asking(r)
      BY <2>1, <3>1 DEF BatchInv, Asking, WholeAnswer
    <3> QED
      BY <1>1, <2>1, <3>1, <3>2, <3>3, CallerStep
  <2> QED
    BY <1>3, <2>3, <2>4 DEF Bars!Look
<1>4. ASSUME NEW c \in Askers, Bars!Enter(c) PROVE BatchInv'
  <2>1. asker[c].pc = "waiting" /\ UNCHANGED <<bnow, batch>> /\ \A d \in Askers : ~Bars!Refreshing(d)
    BY <1>4 DEF Bars!Enter
  <2>2. asker[c].since <= bnow
    BY DEF BatchInv, Asking
  <2>3. CASE Bars!Satisfies(asker[c].key, bnow) /\ Bars!FromCache(c)
    BY <1>1, <2>1, <2>2, <2>3, FromCacheStep
  <2>4. CASE ~Bars!Satisfies(asker[c].key, bnow) /\ Bars!Answered(c, "nobody", {}, 0)
    BY <2>1, <2>4, NobodyStep
  <2>5. CASE Bars!Set(c, [asker[c] EXCEPT !.pc = "download", !.since = bnow])
    <3> DEFINE r == [asker[c] EXCEPT !.pc = "download", !.since = bnow]
    <3>1. /\ r \in [pc : {"idle", "asked", "waiting", "download"}, key : SUBSET BatchSymbols, since : Nat,
                     answer : [from : {"cache", "provider", "nobody"}, data : SUBSET BatchSymbols, at : Nat]]
          /\ r.pc = "download" /\ r.key = asker[c].key /\ r.since = bnow /\ r.answer = asker[c].answer
      BY <1>1 DEF BatchInv, BatchTypes
    <3>2. asker' = [asker EXCEPT ![c] = r]
      BY <2>5 DEF Bars!Set
    <3> HIDE DEF r
    <3>3. Asking(r)
      BY <1>1, <2>1, <3>1 DEF BatchInv, Asking, WholeAnswer
    <3> QED
      BY <1>1, <2>1, <3>1, <3>2, <3>3, CallerStep
  <2> QED
    BY <1>4, <2>3, <2>4, <2>5 DEF Bars!Enter
<1>5. ASSUME NEW c \in Askers, Bars!Deliver(c) PROVE BatchInv'
  <2> DEFINE key == asker[c].key
             since == asker[c].since
  <2>1. key \in SUBSET BatchSymbols /\ since \in Nat /\ bnow' = bnow
    BY <1>5 DEF BatchInv, BatchTypes, Bars!Deliver
  <2> HIDE DEF key, since
  <2>2. PICK symbols \in (SUBSET key) \ {{}}, multi \in BOOLEAN :
            LET data == [symbols |-> symbols, multi |-> multi]
            IN  /\ batch' \in Bars!Stored(data, key, since)
                /\ Bars!Answered(c, "provider", Bars!Subset(data, key), since)
    BY <1>5 DEF Bars!Deliver, key, since
  <2>3. Covers(batch') /\ batch' \in [data : Bars!Payload, key : SUBSET BatchSymbols, at : Nat]
    BY <1>1, <2>1, <2>2, PayloadStored
  <2>4. Covers(batch)'
    BY <2>3 DEF Covers
  <2>5. Bars!Subset([symbols |-> symbols, multi |-> multi], key) \in SUBSET BatchSymbols
    BY <2>1, <2>2 DEF Bars!Subset
  <2> QED
    BY <2>1, <2>2, <2>3, <2>4, <2>5, AnsweredStep
<1>6. ASSUME NEW c \in Askers, Bars!Fail(c) PROVE BatchInv'
  <2>1. asker[c].pc = "download" /\ UNCHANGED <<bnow, batch>>
    BY <1>6 DEF Bars!Fail, Bars!Refreshing
  <2>2. asker[c].since \in Nat /\ asker[c].since <= asker[c].since
    BY DEF BatchInv, BatchTypes
  <2>3. CASE Bars!Satisfies(asker[c].key, asker[c].since) /\ Bars!FromCache(c)
    BY <2>1, <2>2, <2>3, FromCacheStep
  <2>4. CASE Bars!Answered(c, "nobody", {}, 0)
    BY <2>1, <2>4, NobodyStep
  <2> QED
    BY <1>6, <2>3, <2>4 DEF Bars!Fail
<1>7. CASE Bars!Tick
  <2>1. bnow' = bnow + 1 /\ UNCHANGED <<batch, asker>>
    BY <1>7 DEF Bars!Tick
  <2>2. BatchTypes' /\ Covers(batch)'
    BY <1>1, <2>1 DEF BatchInv, BatchTypes, Covers
  <2>3. OneDownload'
    BY <2>1 DEF BatchInv, OneDownload, Bars!Refreshing
  <2>4. ASSUME NEW c \in Askers PROVE Asking(asker[c])'
    <3>1. asker[c].since \in Nat
      BY DEF BatchInv, BatchTypes
    <3> QED
      BY <1>1, <2>1, <3>1 DEF BatchInv, Asking, WholeAnswer
  <2> QED
    BY <2>2, <2>3, <2>4 DEF BatchInv
<1>8. CASE Bars!Clear
  <2>1. batch' = Bars!Empty /\ UNCHANGED <<bnow, asker>>
    BY <1>8 DEF Bars!Clear
  <2>2. Bars!Empty \in [data : Bars!Payload, key : SUBSET BatchSymbols, at : Nat] /\ Bars!Empty.key = {}
    BY DEF Bars!Empty, Bars!Nothing, Bars!Payload
  <2>3. BatchTypes' /\ Covers(batch)'
    BY <2>1, <2>2 DEF BatchInv, BatchTypes, Covers
  <2> QED
    BY <2>1, <2>3 DEF BatchInv, OneDownload, Bars!Refreshing, Asking, WholeAnswer
<1> QED
  BY <1>2, <1>3, <1>4, <1>5, <1>6, <1>7, <1>8 DEF Bars!Next

LEMMA BatchInit == Bars!Init => BatchInv
<1> SUFFICES ASSUME Bars!Init PROVE BatchInv
  OBVIOUS
<1>1. bnow = 0 /\ batch = Bars!Empty /\ asker = [c \in Askers |-> Bars!Idle]
  BY DEF Bars!Init
<1>2. Bars!Empty \in [data : Bars!Payload, key : SUBSET BatchSymbols, at : Nat] /\ Bars!Empty.key = {}
  BY DEF Bars!Empty, Bars!Nothing, Bars!Payload
<1>3. Bars!NoAnswer \in [from : {"cache", "provider", "nobody"}, data : SUBSET BatchSymbols, at : Nat]
      /\ Bars!NoAnswer.from = "nobody"
  BY DEF Bars!NoAnswer
<1>4. /\ Bars!Idle \in [pc : {"idle", "asked", "waiting", "download"}, key : SUBSET BatchSymbols, since : Nat,
                    answer : [from : {"cache", "provider", "nobody"}, data : SUBSET BatchSymbols, at : Nat]]
      /\ Bars!Idle.pc = "idle" /\ Bars!Idle.since = 0 /\ Bars!Idle.answer = Bars!NoAnswer
  BY <1>3 DEF Bars!Idle
<1>5. BatchTypes /\ Covers(batch)
  BY <1>1, <1>2, <1>4 DEF BatchTypes, Covers
<1>6. OneDownload /\ \A c \in Askers : Asking(asker[c])
  BY <1>1, <1>3, <1>4 DEF OneDownload, Bars!Refreshing, Asking, WholeAnswer
<1> QED
  BY <1>5, <1>6 DEF BatchInv

\* The bars of many symbols: an answer from the cache is whole and young, and one
\* caller downloads at a time, for every set of symbols and callers, every limit
\* on the symbols kept and every time to live (get_market_data).
THEOREM WholeHolds == PlatformSpec => []AnswersAreWhole
<1>0. BatchBounds
  BY PlatformConstants DEF BatchBounds
<1>1. BatchInv /\ [Bars!Next]_(Bars!vars) => BatchInv'
  <2> SUFFICES ASSUME BatchInv, [Bars!Next]_(Bars!vars) PROVE BatchInv'
    OBVIOUS
  <2>1. CASE UNCHANGED Bars!vars
    BY <2>1 DEF Bars!vars, BatchInv, BatchTypes, Covers, OneDownload, Bars!Refreshing, Asking, WholeAnswer
  <2> QED
    BY <1>0, <2>1, BatchStep
<1>2. BatchInv => Bars!AnswersAreWhole
  BY DEF BatchInv, OneDownload, Asking, WholeAnswer, Bars!AnswersAreWhole
<1>3. PlatformInit => Bars!Init
  BY DEF PlatformInit
<1>4. [PlatformNext]_allvars => [Bars!Next]_(Bars!vars)
  BY DEF PlatformNext, Quotes, ChartsMove, SchemaMoves, MigrationMoves, SignalsMove, BarsMove, allvars, bvars, Bars!vars
<1> QED
  BY BatchInit, <1>1, <1>2, <1>3, <1>4, PTL DEF PlatformSpec, AnswersAreWhole

-----------------------------------------------------------------------------
(* The signals of the last cycle.  With one engine the batches reach the file *)
(* in their order, or the file is cleared; a modification time that equals    *)
(* the file's was therefore seen with the file's own batch, or by the engine  *)
(* that had published it.                                                     *)

OneEngine == \A s, t \in Engines : s = t

SignalMemory == [batch : Nat, mtime : Nat, epoch : Nat]
Thread == [pc : {"idle", "publish", "copy", "write", "stat", "read", "install", "clear", "forget"},
           batch : Nat, epoch : Nat, raw : Signals!File]
SignalTypes == snow \in Nat /\ sfile \in Signals!File /\ smem \in [Signals!Processes -> SignalMemory] /\ sthread \in [Signals!Users -> Thread]

FileIsOld == sfile.batch <= snow /\ (sfile.mtime = 0 => sfile.batch = 0)

\* What holds of a memory, and of thread t at f.
Served(m) ==
    m.mtime <= sfile.mtime /\ (m.epoch = 0 /\ m.mtime = sfile.mtime => m.batch >= sfile.batch)
Underway(t, f) ==
    /\ f.pc \in {"publish", "copy", "write", "stat"} => t \in Engines /\ sfile.batch <= f.batch /\ f.batch <= snow
    /\ f.pc = "install" => f.raw.mtime <= sfile.mtime /\ (f.raw.mtime = sfile.mtime => f.raw.batch = sfile.batch)
    /\ f.pc \in {"clear", "forget"} => smem[SignalProc[t]].epoch > 0

SignalInv ==
    /\ SignalTypes /\ FileIsOld
    /\ \A p \in Signals!Processes : Served(smem[p])
    /\ \A t \in Signals!Users : Underway(t, sthread[t])

LEMMA IdleUnderway == Signals!Idle \in Thread /\ \A t : Underway(t, Signals!Idle)
<1>1. Signals!NoFile \in Signals!File
  BY DEF Signals!NoFile, Signals!File
<1>2. Signals!Idle \in Thread /\ Signals!Idle.pc = "idle"
  BY <1>1 DEF Signals!Idle, Thread
<1> QED
  BY <1>2 DEF Underway

\* A step of one thread that writes neither clock nor file, and clears no more
\* than its own process's memory.
LEMMA ThreadStep ==
    ASSUME SignalInv, NEW t \in Signals!Users, NEW f \in Thread, sthread' = [sthread EXCEPT ![t] = f],
           NEW m \in SignalMemory, smem' = [smem EXCEPT ![SignalProc[t]] = m], m.epoch >= smem[SignalProc[t]].epoch,
           UNCHANGED <<snow, sfile>>, Served(m), Underway(t, f)'
    PROVE  SignalInv'
<1> USE DEF SignalInv, SignalTypes
<1>1. SignalProc[t] \in Signals!Processes
  BY DEF Signals!Processes
<1>2. SignalTypes' /\ FileIsOld'
  BY <1>1 DEF FileIsOld
<1>3. ASSUME NEW p \in Signals!Processes PROVE Served(smem[p])'
  BY <1>1 DEF Served
<1>4. ASSUME NEW u \in Signals!Users PROVE Underway(u, sthread[u])'
  <2>1. CASE u = t
    BY <2>1
  <2>2. CASE u # t
    <3>1. sthread'[u] = sthread[u] /\ Underway(u, sthread[u]) /\ SignalProc[u] \in Signals!Processes
      BY <2>2 DEF Signals!Processes
    <3>2. smem'[SignalProc[u]].epoch >= smem[SignalProc[u]].epoch /\ smem'[SignalProc[u]].epoch \in Nat /\ smem[SignalProc[u]].epoch \in Nat
      BY <1>1, <3>1 DEF SignalMemory
    <3>3. smem[SignalProc[u]].epoch > 0 => smem'[SignalProc[u]].epoch > 0
      BY <3>2
    <3> QED
      BY <3>1, <3>3 DEF Underway
  <2> QED
    BY <2>1, <2>2
<1> QED
  BY <1>2, <1>3, <1>4

LEMMA ThreadOnlyStep ==
    ASSUME SignalInv, NEW t \in Signals!Users, NEW f \in Thread, Signals!Set(t, f), UNCHANGED <<snow, sfile, smem>>, Underway(t, f)
    PROVE  SignalInv'
<1> DEFINE m == smem[SignalProc[t]]
<1>1. SignalProc[t] \in Signals!Processes /\ m \in SignalMemory /\ smem \in [Signals!Processes -> SignalMemory]
  BY DEF Signals!Processes, SignalInv, SignalTypes
<1>2. smem' = [smem EXCEPT ![SignalProc[t]] = m] /\ m.epoch >= smem[SignalProc[t]].epoch /\ Served(m)
  BY <1>1 DEF SignalMemory, SignalInv
<1>3. Underway(t, f)'
  BY DEF Underway
<1> HIDE DEF m
<1> QED
  BY <1>1, <1>2, <1>3, ThreadStep DEF Signals!Set

\* The file is replaced: whatever anybody knew is of a time before.
LEMMA FileStep ==
    ASSUME SignalInv, NEW t \in Signals!Users, NEW f \in Thread, Signals!Set(t, f), NEW n \in Nat,
           sfile' = Signals!Replaced(n), UNCHANGED <<snow, smem>>, n <= snow, Underway(t, f)',
           n = 0 \/ \A u \in Engines : u = t
    PROVE  SignalInv'
<1>1. sfile'.batch = n /\ sfile'.mtime = sfile.mtime + 1 /\ sfile' \in Signals!File /\ sfile.mtime \in Nat /\ sfile.batch \in Nat
  BY DEF SignalInv, SignalTypes, Signals!Replaced, Signals!File
<1>2. sthread' = [sthread EXCEPT ![t] = f]
  BY DEF Signals!Set
<1>3. SignalTypes' /\ FileIsOld'
  BY <1>1, <1>2 DEF SignalInv, SignalTypes, FileIsOld
<1>4. ASSUME NEW p \in Signals!Processes PROVE Served(smem[p])'
  <2>1. smem[p].mtime \in Nat /\ smem[p].mtime <= sfile.mtime
    BY DEF SignalInv, SignalTypes, SignalMemory, Served
  <2> QED
    BY <1>1, <2>1 DEF Served
<1>5. ASSUME NEW u \in Signals!Users PROVE Underway(u, sthread[u])'
  <2>1. CASE u = t
    BY <1>2, <2>1 DEF SignalInv, SignalTypes
  <2>2. CASE u # t
    <3>1. sthread'[u] = sthread[u] /\ Underway(u, sthread[u]) /\ sthread[u] \in Thread
      BY <1>2, <2>2 DEF SignalInv, SignalTypes
    <3>2. sthread[u].batch \in Nat /\ sthread[u].raw.mtime \in Nat
      BY <3>1 DEF Thread, Signals!File
    <3> QED
      BY <1>1, <2>2, <3>1, <3>2 DEF Underway
  <2> QED
    BY <2>1, <2>2
<1> QED
  BY <1>3, <1>4, <1>5 DEF SignalInv

LEMMA EngineStep ==
    ASSUME OneEngine, SignalInv, NEW t \in Engines,
           Signals!Stamp(t) \/ Signals!Publish(t) \/ Signals!Copy(t) \/ Signals!Write(t) \/ Signals!Finish(t)
    PROVE  SignalInv'
<1> DEFINE b == sthread[t]
           m == smem[SignalProc[t]]
<1>1. t \in Signals!Users /\ SignalProc[t] \in Signals!Processes
  BY DEF Signals!Users, Signals!Processes
<1>2. /\ b \in Thread /\ m \in SignalMemory /\ Underway(t, b) /\ Served(m) /\ FileIsOld /\ snow \in Nat /\ sfile \in Signals!File
      /\ smem \in [Signals!Processes -> SignalMemory] /\ sthread \in [Signals!Users -> Thread]
  BY <1>1 DEF SignalInv, SignalTypes
<1>3. /\ b.batch \in Nat /\ b.epoch \in Nat /\ m.batch \in Nat /\ m.mtime \in Nat /\ m.epoch \in Nat
      /\ sfile.batch \in Nat /\ sfile.mtime \in Nat
  BY <1>2 DEF Thread, SignalMemory, Signals!File
<1>4. Signals!Idle \in Thread /\ Underway(t, Signals!Idle) /\ Underway(t, Signals!Idle)'
  BY IdleUnderway DEF Underway, Signals!Idle
<1>5. CASE Signals!Stamp(t)
  <2> DEFINE n == snow + 1
             new == [Signals!Idle EXCEPT !.pc = "publish", !.batch = n]
  <2>1. sthread' = [sthread EXCEPT ![t] = new] /\ snow' = n /\ UNCHANGED <<sfile, smem>>
    BY <1>5 DEF Signals!Stamp, Signals!Set
  <2>2. n \in Nat /\ n > snow /\ sfile.batch <= n
    BY <1>2, <1>3 DEF FileIsOld
  <2> HIDE DEF n
  <2>3. new \in Thread /\ new.pc = "publish" /\ new.batch = n
    BY <1>4, <2>2 DEF Thread
  <2> HIDE DEF new
  <2>4. SignalTypes' /\ FileIsOld' /\ \A p \in Signals!Processes : Served(smem[p])'
    BY <1>2, <1>3, <2>1, <2>2, <2>3 DEF SignalInv, SignalTypes, FileIsOld, Served
  <2>5. ASSUME NEW u \in Signals!Users PROVE Underway(u, sthread[u])'
    <3>1. CASE u = t
      BY <1>1, <1>2, <2>1, <2>2, <2>3, <3>1 DEF Underway
    <3>2. CASE u # t
      <4>1. sthread'[u] = sthread[u] /\ Underway(u, sthread[u]) /\ sthread[u].batch \in Nat
        BY <2>1, <3>2 DEF SignalInv, SignalTypes, Thread
      <4> QED
        BY <1>2, <2>1, <2>2, <4>1 DEF Underway
    <3> QED
      BY <3>1, <3>2
  <2> QED
    BY <2>4, <2>5 DEF SignalInv
<1>6. CASE Signals!Publish(t)
  <2> DEFINE new == [b EXCEPT !.pc = "copy", !.epoch = m.epoch]
             served == [m EXCEPT !.batch = b.batch]
  <2>1. /\ sthread' = [sthread EXCEPT ![t] = new] /\ smem' = [smem EXCEPT ![SignalProc[t]] = served]
        /\ UNCHANGED <<snow, sfile>> /\ b.pc = "publish"
    BY <1>6 DEF Signals!Publish, Signals!Set, Signals!SetMem, Signals!M, Signals!At
  <2>2. new \in Thread /\ new.pc = "copy" /\ new.batch = b.batch
    BY <1>2, <1>3 DEF Thread
  <2>3. served \in SignalMemory /\ served.batch = b.batch /\ served.mtime = m.mtime /\ served.epoch = m.epoch
    BY <1>2, <1>3 DEF SignalMemory
  <2>10. PICK f \in Thread : f = new
    BY <2>2
  <2> HIDE DEF new, served, b, m
  <2>4. Served(served)
    BY <1>2, <1>3, <2>1, <2>3 DEF Served, Underway
  <2>5. Underway(t, f)'
    BY <1>2, <2>1, <2>2, <2>10 DEF Underway
  <2>6. served.epoch >= smem[SignalProc[t]].epoch
    BY <1>3, <2>3 DEF m
  <2> QED
    BY <1>1, <2>1, <2>2, <2>3, <2>4, <2>5, <2>6, <2>10, ThreadStep
<1>7. CASE Signals!Copy(t)
  <2> DEFINE new == [b EXCEPT !.pc = "write"]
  <2>1. UNCHANGED <<snow, sfile, smem>> /\ b.pc = "copy" /\ (Signals!Set(t, new) \/ Signals!Set(t, Signals!Idle))
    BY <1>7 DEF Signals!Copy, Signals!At
  <2>2. new \in Thread /\ new.pc = "write" /\ new.batch = b.batch
    BY <1>2 DEF Thread
  <2> HIDE DEF new, b
  <2>3. Underway(t, new)
    BY <1>2, <2>1, <2>2 DEF Underway
  <2> QED
    BY <1>1, <1>4, <2>1, <2>2, <2>3, ThreadOnlyStep
<1>8. CASE Signals!Write(t)
  <2> DEFINE new == [b EXCEPT !.pc = "stat"]
  <2>1. UNCHANGED <<snow, smem>> /\ b.pc = "write" /\ Signals!Set(t, new) /\ sfile' = Signals!Replaced(b.batch)
    BY <1>8 DEF Signals!Write, Signals!At
  <2>2. new \in Thread /\ new.pc = "stat" /\ new.batch = b.batch
    BY <1>2 DEF Thread
  <2>10. PICK f \in Thread : f = new
    BY <2>2
  <2> HIDE DEF new, b
  <2>3. sfile'.batch = b.batch
    BY <2>1 DEF Signals!Replaced
  <2>4. b.batch <= snow
    BY <1>2, <2>1 DEF Underway
  <2>5. Underway(t, f)'
    BY <1>3, <2>1, <2>2, <2>3, <2>4, <2>10 DEF Underway
  <2>6. \A u \in Engines : u = t
    BY DEF OneEngine
  <2>7. PICK n \in Nat : n = b.batch
    BY <1>3
  <2> QED
    BY <1>1, <2>1, <2>4, <2>5, <2>6, <2>7, <2>10, FileStep DEF Signals!Replaced
<1>9. CASE Signals!Finish(t)
  <2> DEFINE known == [m EXCEPT !.mtime = sfile.mtime]
             served == IF m.batch = b.batch THEN known ELSE m
  <2>1. /\ sthread' = [sthread EXCEPT ![t] = Signals!Idle] /\ smem' = [smem EXCEPT ![SignalProc[t]] = served]
        /\ UNCHANGED <<snow, sfile>> /\ b.pc = "stat"
    BY <1>9 DEF Signals!Finish, Signals!Stat, Signals!Set, Signals!SetMem, Signals!M, Signals!At
  <2>2. known \in SignalMemory /\ known.batch = m.batch /\ known.mtime = sfile.mtime /\ known.epoch = m.epoch
    BY <1>2, <1>3 DEF SignalMemory
  <2> HIDE DEF known, b
  <2>3. served \in SignalMemory /\ served.epoch = m.epoch
    BY <1>2, <2>2
  <2>4. Served(served)
    BY <1>2, <1>3, <2>1, <2>2 DEF Served, Underway
  <2>5. served.epoch >= smem[SignalProc[t]].epoch
    BY <1>3, <2>3
  <2> HIDE DEF served, m
  <2> QED
    BY <1>1, <1>4, <2>1, <2>3, <2>4, <2>5, ThreadStep
<1> QED
  BY <1>5, <1>6, <1>7, <1>8, <1>9

LEMMA ReaderStep ==
    ASSUME SignalInv, NEW t \in Clients, Signals!Look(t) \/ Signals!Read(t) \/ Signals!Install(t)
    PROVE  SignalInv'
<1> DEFINE b == sthread[t]
           m == smem[SignalProc[t]]
<1>1. t \in Signals!Users /\ SignalProc[t] \in Signals!Processes
  BY DEF Signals!Users, Signals!Processes
<1>2. b \in Thread /\ m \in SignalMemory /\ Underway(t, b) /\ Served(m) /\ sfile \in Signals!File
  BY <1>1 DEF SignalInv, SignalTypes
<1>3. m.epoch \in Nat /\ sfile.batch \in Nat /\ sfile.mtime \in Nat
  BY <1>2 DEF SignalMemory, Signals!File
<1>4. Signals!Idle \in Thread /\ Underway(t, Signals!Idle)'
  BY IdleUnderway DEF Underway, Signals!Idle
<1>5. CASE Signals!Look(t)
  <2> DEFINE new == [Signals!Idle EXCEPT !.pc = "read"]
  <2>1. new \in Thread /\ new.pc = "read"
    BY <1>4 DEF Thread
  <2>2. Signals!Set(t, new) /\ UNCHANGED <<snow, sfile, smem>>
    BY <1>5 DEF Signals!Look
  <2> HIDE DEF new
  <2> QED
    BY <1>1, <2>1, <2>2, ThreadOnlyStep DEF Underway
<1>6. CASE Signals!Read(t)
  <2> DEFINE new == [b EXCEPT !.pc = "install", !.raw = sfile]
  <2>1. new \in Thread /\ new.pc = "install" /\ new.raw = sfile
    BY <1>2 DEF Thread
  <2>2. Signals!Set(t, new) /\ UNCHANGED <<snow, sfile, smem>>
    BY <1>6 DEF Signals!Read
  <2> HIDE DEF new
  <2>3. Underway(t, new)
    BY <1>3, <2>1 DEF Underway
  <2> QED
    BY <1>1, <2>1, <2>2, <2>3, ThreadOnlyStep
<1>7. CASE Signals!Install(t)
  <2> DEFINE raw == b.raw
             served == [m EXCEPT !.batch = raw.batch, !.mtime = raw.mtime]
  <2>1. /\ sthread' = [sthread EXCEPT ![t] = Signals!Idle] /\ smem' = [smem EXCEPT ![SignalProc[t]] = served]
        /\ UNCHANGED <<snow, sfile>> /\ b.pc = "install"
    BY <1>7 DEF Signals!Install, Signals!Set, Signals!SetMem, Signals!M, Signals!At
  <2>2. raw.batch \in Nat /\ raw.mtime \in Nat
    BY <1>2 DEF Thread, Signals!File
  <2>3. raw.mtime <= sfile.mtime /\ (raw.mtime = sfile.mtime => raw.batch = sfile.batch)
    BY <1>2, <2>1 DEF Underway
  <2> HIDE DEF raw
  <2>4. served \in SignalMemory /\ served.batch = raw.batch /\ served.mtime = raw.mtime /\ served.epoch = m.epoch
    BY <1>2, <2>2 DEF SignalMemory
  <2> HIDE DEF served
  <2>5. Served(served)
    BY <1>3, <2>2, <2>3, <2>4 DEF Served
  <2>6. served.epoch >= smem[SignalProc[t]].epoch
    BY <1>3, <2>4
  <2> HIDE DEF m
  <2> QED
    BY <1>1, <1>4, <2>1, <2>4, <2>5, <2>6, ThreadStep
<1> QED
  BY <1>5, <1>6, <1>7

LEMMA KeeperStep ==
    ASSUME SignalInv, NEW t \in Keepers, Signals!Clear(t) \/ Signals!ClearFile(t) \/ Signals!Forget(t)
    PROVE  SignalInv'
<1> DEFINE b == sthread[t]
           m == smem[SignalProc[t]]
<1>1. t \in Signals!Users /\ SignalProc[t] \in Signals!Processes
  BY DEF Signals!Users, Signals!Processes
<1>2. b \in Thread /\ m \in SignalMemory /\ Underway(t, b) /\ Served(m) /\ sfile \in Signals!File /\ snow \in Nat
  BY <1>1 DEF SignalInv, SignalTypes
<1>3. m.epoch \in Nat /\ m.mtime \in Nat /\ m.batch \in Nat /\ sfile.batch \in Nat /\ sfile.mtime \in Nat
  BY <1>2 DEF SignalMemory, Signals!File
<1>4. Signals!Idle \in Thread /\ Underway(t, Signals!Idle)'
  BY IdleUnderway DEF Underway, Signals!Idle
<1>5. CASE Signals!Clear(t)
  <2> DEFINE new == [Signals!Idle EXCEPT !.pc = "clear"]
             n == m.epoch + 1
             served == [m EXCEPT !.batch = 0, !.epoch = n]
  <2>1. /\ sthread' = [sthread EXCEPT ![t] = new] /\ smem' = [smem EXCEPT ![SignalProc[t]] = served]
        /\ UNCHANGED <<snow, sfile>>
    BY <1>5 DEF Signals!Clear, Signals!Set, Signals!SetMem, Signals!M
  <2>2. new \in Thread /\ new.pc = "clear"
    BY <1>4 DEF Thread
  <2>3. n \in Nat /\ n > 0 /\ n >= m.epoch
    BY <1>3
  <2> HIDE DEF n
  <2>4. served \in SignalMemory /\ served.epoch = n /\ served.mtime = m.mtime
    BY <1>2, <2>3 DEF SignalMemory
  <2>5. smem'[SignalProc[t]] = served
    BY <1>1, <2>1 DEF SignalInv, SignalTypes
  <2> HIDE DEF served, new
  <2>6. Served(served)
    BY <1>2, <2>3, <2>4 DEF Served
  <2>7. Underway(t, new)'
    BY <2>2, <2>3, <2>4, <2>5 DEF Underway
  <2>8. served.epoch >= smem[SignalProc[t]].epoch
    BY <2>3, <2>4
  <2> HIDE DEF m
  <2> QED
    BY <1>1, <2>1, <2>2, <2>4, <2>6, <2>7, <2>8, ThreadStep
<1>6. CASE Signals!ClearFile(t)
  <2> DEFINE new == [b EXCEPT !.pc = "forget"]
  <2>1. new \in Thread /\ new.pc = "forget"
    BY <1>2 DEF Thread
  <2>2. Signals!Set(t, new) /\ UNCHANGED <<snow, smem>> /\ b.pc = "clear" /\ (sfile' = Signals!Replaced(0) \/ UNCHANGED sfile)
    BY <1>6 DEF Signals!ClearFile, Signals!At
  <2>10. PICK f \in Thread : f = new
    BY <2>1
  <2> HIDE DEF new, b
  <2>3. Underway(t, f) /\ Underway(t, f)'
    BY <1>2, <2>1, <2>2, <2>10 DEF Underway
  <2>4. 0 \in Nat /\ 0 <= snow
    BY <1>2
  <2> QED
    BY <1>1, <2>2, <2>3, <2>4, <2>10, FileStep, ThreadOnlyStep
<1>7. CASE Signals!Forget(t)
  <2> DEFINE served == [m EXCEPT !.mtime = sfile.mtime]
  <2>1. /\ sthread' = [sthread EXCEPT ![t] = Signals!Idle] /\ smem' = [smem EXCEPT ![SignalProc[t]] = served]
        /\ UNCHANGED <<snow, sfile>> /\ b.pc = "forget"
    BY <1>7 DEF Signals!Forget, Signals!Set, Signals!SetMem, Signals!M, Signals!At
  <2>2. served \in SignalMemory /\ served.epoch = m.epoch /\ served.mtime = sfile.mtime
    BY <1>2, <1>3 DEF SignalMemory
  <2>3. m.epoch > 0
    BY <1>2, <2>1 DEF Underway
  <2>4. served.epoch >= smem[SignalProc[t]].epoch
    BY <1>3, <2>2
  <2> HIDE DEF served, m
  <2>5. Served(served)
    BY <1>3, <2>2, <2>3 DEF Served
  <2> QED
    BY <1>1, <1>4, <2>1, <2>2, <2>4, <2>5, ThreadStep
<1> QED
  BY <1>5, <1>6, <1>7

LEMMA SignalFailStep == ASSUME SignalInv, NEW t \in Signals!Users, Signals!Fail(t) PROVE SignalInv'
  BY IdleUnderway, ThreadOnlyStep DEF Signals!Fail

LEMMA SignalRestartStep == ASSUME SignalInv, NEW p \in Signals!Processes, Signals!Restart(p) PROVE SignalInv'
<1> USE DEF SignalInv, SignalTypes
<1>1. /\ smem' = [smem EXCEPT ![p] = Signals!FreshMemory] /\ UNCHANGED <<snow, sfile>>
      /\ sthread' = [t \in Signals!Users |-> IF SignalProc[t] = p THEN Signals!Idle ELSE sthread[t]]
  BY DEF Signals!Restart
<1>2. Signals!FreshMemory \in SignalMemory /\ Signals!FreshMemory.mtime = 0 /\ Signals!FreshMemory.batch = 0 /\ Signals!FreshMemory.epoch = 0
  BY DEF Signals!FreshMemory, SignalMemory
<1>3. sfile.batch \in Nat /\ sfile.mtime \in Nat
  BY DEF Signals!File
<1>4. SignalTypes' /\ FileIsOld'
  BY <1>1, <1>2, IdleUnderway DEF FileIsOld
<1>5. ASSUME NEW q \in Signals!Processes PROVE Served(smem[q])'
  BY <1>1, <1>2, <1>3 DEF Served, FileIsOld
<1>6. ASSUME NEW t \in Signals!Users PROVE Underway(t, sthread[t])'
  <2>1. CASE SignalProc[t] = p
    <3>1. sthread'[t] = Signals!Idle
      BY <1>1, <2>1
    <3> QED
      BY <3>1 DEF Underway, Signals!Idle
  <2>2. CASE SignalProc[t] # p
    BY <1>1, <2>2 DEF Underway
  <2> QED
    BY <2>1, <2>2
<1> QED
  BY <1>4, <1>5, <1>6

LEMMA SignalInit == Signals!Init => SignalInv
<1> SUFFICES ASSUME Signals!Init PROVE SignalInv
  OBVIOUS
<1>1. snow = 0 /\ sfile = Signals!NoFile /\ smem = [p \in Signals!Processes |-> Signals!FreshMemory] /\ sthread = [t \in Signals!Users |-> Signals!Idle]
  BY DEF Signals!Init
<1>2. Signals!NoFile \in Signals!File /\ Signals!NoFile.batch = 0 /\ Signals!NoFile.mtime = 0
  BY DEF Signals!NoFile, Signals!File
<1>3. Signals!FreshMemory \in SignalMemory /\ Signals!FreshMemory.mtime = 0 /\ Signals!FreshMemory.batch = 0
  BY DEF Signals!FreshMemory, SignalMemory
<1> QED
  BY <1>1, <1>2, <1>3, IdleUnderway DEF SignalInv, SignalTypes, FileIsOld, Served

\* The signals: with one engine, a process that has not cleared them never counts a
\* file as known that holds newer ones than it serves, for every number of threads
\* and processes, batches, clears, failures and restarts (signal_cache_layer.py).
THEOREM KnownHolds == ASSUME OneEngine PROVE PlatformSpec => []KnownIsServed
<1>1. SignalInv /\ [Signals!Next]_(Signals!vars) => SignalInv'
  <2> SUFFICES ASSUME SignalInv, [Signals!Next]_(Signals!vars) PROVE SignalInv'
    OBVIOUS
  <2>1. CASE UNCHANGED Signals!vars
    BY <2>1 DEF Signals!vars, SignalInv, SignalTypes, FileIsOld, Served, Underway
  <2> QED
    BY <2>1, EngineStep, ReaderStep, KeeperStep, SignalFailStep, SignalRestartStep DEF Signals!Next
<1>2. SignalInv => Signals!KnownIsServed
  BY DEF SignalInv, Served, Signals!KnownIsServed
<1>3. PlatformInit => Signals!Init
  BY DEF PlatformInit
<1>4. [PlatformNext]_allvars => [Signals!Next]_(Signals!vars)
  BY DEF PlatformNext, Quotes, ChartsMove, SchemaMoves, MigrationMoves, SignalsMove, BarsMove, allvars, gvars, Signals!vars
<1> QED
  BY SignalInit, <1>1, <1>2, <1>3, <1>4, PTL DEF PlatformSpec, KnownIsServed

-----------------------------------------------------------------------------
(* The charts.  Whoever rewrites the request file holds the lock of its       *)
(* process, so what it read is what the file holds, but for the charts that   *)
(* other processes changed since: a chart that neither it nor they count has  *)
(* no request in the file where it has none in what it writes.                *)

CallFields == {"pc", "runs", "chart", "todo", "calls", "warmed", "seen", "raw", "asked", "missed", "shared"}
Asks(t) ==
    thread[t].pc = "ask" =>
        thread[t].chart \in Charts /\ thread[t].asked \in [Charts -> Nat] /\ thread[t].asked[thread[t].chart] > 0
Informed(t) ==
    /\ thread[t].asked \in [Charts -> Nat]
    /\ \A c \in Charts : thread[t].asked[c] = 0 /\ requests[c] > 0 =>
          c \in thread[t].warmed \/ c \in thread[t].missed \/ thread[t].shared
    /\ thread[t].pc = "save" => ~thread[t].shared
OneRewrites ==
    \A t, u \in Threads : C!Rewrites(t) /\ C!Rewrites(u) /\ ChartProc[t] = ChartProc[u] => t = u
RequestsInv ==
    /\ cnow \in Nat /\ cnow > 0 /\ requests \in [Charts -> Nat]
    /\ DOMAIN thread = Threads
    /\ \A t \in Threads : DOMAIN thread[t] = CallFields /\ Asks(t) /\ (C!Rewrites(t) => Informed(t))
    /\ OneRewrites

LEMMA RequestsStart == ASSUME C!Init PROVE RequestsInv
<1>1. DOMAIN C!Idle = CallFields /\ C!Idle.pc = "idle"
  BY DEF C!Idle, CallFields
<1>2. thread = [t \in Threads |-> C!Idle] /\ cnow = 1 /\ requests = [c \in Charts |-> 0]
  BY DEF C!Init, C!Unasked
<1> QED
  BY <1>1, <1>2 DEF RequestsInv, Asks, OneRewrites, C!Rewrites

\* Steps that leave the request file alone and lock nothing.
LEMMA CalmStep ==
    ASSUME RequestsInv, NEW t \in Threads, NEW f, C!Set(t, f), ~C!Rewrites(t),
           DOMAIN f = CallFields, f.pc \notin {"ask", "save", "swap"}, UNCHANGED <<requests, cnow>>
    PROVE  RequestsInv' /\ C!KeptUntilWarm
<1>1. \A u \in Threads : thread'[u] = IF u = t THEN f ELSE thread[u]
  BY DEF C!Set, RequestsInv
<1>2. DOMAIN thread' = Threads
  BY DEF C!Set, RequestsInv
<1>3. \A u \in Threads : C!Rewrites(u)' => C!Rewrites(u) /\ u # t
  BY <1>1 DEF C!Rewrites
<1>4. \A u \in Threads : DOMAIN thread'[u] = CallFields /\ Asks(u)' /\ (C!Rewrites(u)' => Informed(u)')
  BY <1>1, <1>3 DEF RequestsInv, Asks, Informed
<1>5. OneRewrites'
  BY <1>3 DEF RequestsInv, OneRewrites
<1> QED
  BY <1>2, <1>4, <1>5 DEF RequestsInv, C!KeptUntilWarm

\* A call that writes a request down.
LEMMA RequestStep ==
    ASSUME RequestsInv, NEW t \in Threads, NEW c \in Charts, C!Request(t, c)
    PROVE  RequestsInv' /\ C!KeptUntilWarm
<1> DEFINE f == [C!Idle EXCEPT !.pc = "ask", !.runs = thread[t].runs + 1, !.chart = c, !.asked[c] = cnow]
<1>1. thread' = [thread EXCEPT ![t] = f] /\ thread[t].pc = "idle" /\ UNCHANGED <<requests, cnow>>
  BY DEF C!Request, C!Begins, C!Set
<1>2. DOMAIN f = CallFields /\ f.pc = "ask" /\ f.chart = c
  BY DEF C!Idle, CallFields
<1>3. f.asked = [[d \in Charts |-> 0] EXCEPT ![c] = cnow]
  BY DEF C!Idle, C!Unasked
<1>4. \A u \in Threads : thread'[u] = IF u = t THEN f ELSE thread[u]
  BY <1>1 DEF RequestsInv
<1>5. DOMAIN thread' = Threads
  BY <1>1 DEF RequestsInv
<1> HIDE DEF f
<1>6. f.asked \in [Charts -> Nat] /\ f.asked[c] > 0
  BY <1>3 DEF RequestsInv
<1>7. \A u \in Threads : C!Rewrites(u)' => C!Rewrites(u) /\ u # t
  BY <1>2, <1>4 DEF C!Rewrites
<1>8. \A u \in Threads : DOMAIN thread'[u] = CallFields /\ Asks(u)' /\ (C!Rewrites(u)' => Informed(u)')
  BY <1>1, <1>2, <1>4, <1>6, <1>7 DEF RequestsInv, Asks, Informed
<1>9. OneRewrites'
  BY <1>7 DEF RequestsInv, OneRewrites
<1> QED
  BY <1>1, <1>5, <1>8, <1>9 DEF RequestsInv, C!KeptUntilWarm

\* The request file is read under the lock.
LEMMA TakeStep ==
    ASSUME RequestsInv, NEW t \in Threads, C!Take(t)
    PROVE  RequestsInv' /\ C!KeptUntilWarm
<1>1. thread[t].pc \in {"ask", "drop"} /\ ~C!Locked(ChartProc[t]) /\ UNCHANGED <<requests, cnow>>
  BY DEF C!Take
<1>2. ~C!Rewrites(t) /\ DOMAIN thread[t] = CallFields
  BY <1>1 DEF C!Rewrites, RequestsInv
<1>3. CASE C!Set(t, C!Dropped(t))
  <2>1. DOMAIN C!Dropped(t) = CallFields /\ C!Dropped(t).pc \notin {"ask", "save", "swap"}
    BY DEF C!Dropped, C!Over, C!Idle, CallFields
  <2> QED
    BY <1>1, <1>2, <1>3, <2>1, CalmStep
<1>4. ASSUME NEW read \in C!Readable, NEW left,
             left = IF thread[t].pc = "ask" THEN C!Add(t, read) ELSE C!Drop(t, read),
             C!Set(t, [thread[t] EXCEPT !.pc = "save", !.asked = left, !.shared = FALSE,
                                        !.missed = IF read = requests THEN {} ELSE Charts])
      PROVE  RequestsInv' /\ C!KeptUntilWarm
  <2> DEFINE f == [thread[t] EXCEPT !.pc = "save", !.asked = left, !.shared = FALSE,
                                    !.missed = IF read = requests THEN {} ELSE Charts]
  <2>1. read \in [Charts -> Nat]
    BY DEF C!Readable, C!Unasked, RequestsInv
  <2>2. left \in [Charts -> Nat] /\ \A c \in Charts : left[c] = 0 /\ read[c] > 0 => c \in thread[t].warmed
    <3>1. CASE thread[t].pc = "ask"
      <4>1. left = [read EXCEPT ![thread[t].chart] = thread[t].asked[thread[t].chart]]
        BY <1>4, <3>1 DEF C!Add
      <4>2. thread[t].chart \in Charts /\ thread[t].asked[thread[t].chart] \in Nat /\ thread[t].asked[thread[t].chart] > 0
        BY <3>1 DEF RequestsInv, Asks
      <4> QED
        BY <2>1, <4>1, <4>2
    <3>2. CASE thread[t].pc = "drop"
      <4>1. left = [c \in Charts |-> IF c \in thread[t].warmed THEN 0 ELSE read[c]]
        BY <1>4, <3>2 DEF C!Drop
      <4> QED
        BY <2>1, <4>1
    <3> QED
      BY <1>1, <3>1, <3>2
  <2>3. /\ DOMAIN f = CallFields /\ f.pc = "save" /\ f.asked = left /\ ~f.shared
        /\ f.warmed = thread[t].warmed /\ f.missed = IF read = requests THEN {} ELSE Charts
    BY <1>2 DEF CallFields
  <2>4. \A u \in Threads : thread'[u] = IF u = t THEN f ELSE thread[u]
    BY <1>4 DEF RequestsInv, C!Set
  <2>5. DOMAIN thread' = Threads
    BY <1>4 DEF RequestsInv, C!Set
  <2> HIDE DEF f
  <2>6. Informed(t)'
    BY <1>1, <2>2, <2>3, <2>4 DEF Informed
  <2>7. \A u \in Threads : C!Rewrites(u)' => u = t \/ (C!Rewrites(u) /\ ChartProc[u] # ChartProc[t])
    BY <1>1, <2>4 DEF C!Rewrites, C!Locked
  <2>8. \A u \in Threads : DOMAIN thread'[u] = CallFields /\ Asks(u)' /\ (C!Rewrites(u)' => Informed(u)')
    BY <1>1, <2>3, <2>4, <2>6, <2>7 DEF RequestsInv, Asks, Informed
  <2>9. OneRewrites'
    BY <2>7 DEF RequestsInv, OneRewrites
  <2> QED
    BY <1>1, <2>5, <2>8, <2>9 DEF RequestsInv, C!KeptUntilWarm
<1> QED
  BY <1>3, <1>4 DEF C!Take

\* The temporary file is opened.
LEMMA PutStep ==
    ASSUME RequestsInv, NEW t \in Threads, C!Put(t)
    PROVE  RequestsInv' /\ C!KeptUntilWarm
<1>1. thread[t].pc = "save" /\ UNCHANGED <<requests, cnow>> /\ DOMAIN thread' = Threads
  BY DEF C!Put
<1>2. \A u \in Threads :
         /\ DOMAIN thread'[u] = CallFields
         /\ thread'[u].pc = IF u = t THEN "swap" ELSE thread[u].pc
         /\ thread'[u].chart = thread[u].chart /\ thread'[u].asked = thread[u].asked
         /\ thread'[u].warmed = thread[u].warmed /\ thread'[u].missed = thread[u].missed
  BY DEF C!Put, RequestsInv, CallFields
<1>3. \A u \in Threads : u # t => thread'[u].shared = thread[u].shared \/ (thread[u].pc = "swap" /\ thread'[u].shared)
  BY DEF C!Put, RequestsInv, CallFields
<1>4. ~thread[t].shared
  BY <1>1 DEF RequestsInv, C!Rewrites, Informed
<1>5. \A u \in Threads : C!Rewrites(u)' <=> C!Rewrites(u)
  BY <1>1, <1>2 DEF C!Rewrites
<1>6. \A u \in Threads : C!Rewrites(u)' => Informed(u)'
  BY <1>1, <1>2, <1>3, <1>4, <1>5 DEF RequestsInv, Informed
<1>7. \A u \in Threads : Asks(u)'
  BY <1>2 DEF RequestsInv, Asks
<1>8. OneRewrites'
  BY <1>5 DEF RequestsInv, OneRewrites
<1> QED
  BY <1>1, <1>2, <1>6, <1>7, <1>8 DEF RequestsInv, C!KeptUntilWarm

\* The file is replaced and the lock released.
LEMMA SwapStep ==
    ASSUME RequestsInv, NEW t \in Threads, C!Swap(t)
    PROVE  RequestsInv' /\ C!KeptUntilWarm
<1> DEFINE g == IF thread[t].warmed # {} THEN C!Dropped(t) ELSE [C!Over(t) EXCEPT !.pc = "start", !.chart = thread[t].chart]
<1>1. thread[t].pc = "swap" /\ requests' \in C!Left(t) /\ UNCHANGED cnow /\ DOMAIN thread' = Threads
  BY DEF C!Swap
<1>2. DOMAIN g = CallFields /\ g.pc \notin {"ask", "save", "swap"}
  BY DEF C!Dropped, C!Over, C!Idle, CallFields
<1>3. thread'[t] = g
  BY DEF C!Swap
<1>4. C!Rewrites(t) /\ Informed(t)
  BY <1>1 DEF RequestsInv, C!Rewrites
<1>5. requests' \in [Charts -> Nat]
  BY <1>1, <1>4 DEF C!Left, RequestsInv, Informed
<1>6. \A u \in Threads \ {t} :
         /\ DOMAIN thread'[u] = CallFields /\ thread'[u].pc = thread[u].pc /\ thread'[u].chart = thread[u].chart
         /\ thread'[u].asked = thread[u].asked /\ thread'[u].warmed = thread[u].warmed
         /\ thread'[u].shared = thread[u].shared
  BY DEF C!Swap, RequestsInv, CallFields
<1>7. \A u \in Threads \ {t} : C!Rewrites(u) =>
         thread'[u].missed = thread[u].missed \cup {c \in Charts : requests'[c] # requests[c]}
  <2> SUFFICES ASSUME NEW u \in Threads \ {t}, C!Rewrites(u)
               PROVE  thread'[u].missed = thread[u].missed \cup {c \in Charts : requests'[c] # requests[c]}
    OBVIOUS
  <2>1. ChartProc[u] # ChartProc[t]
    BY <1>4 DEF RequestsInv, OneRewrites
  <2>2. thread'[u] = [thread[u] EXCEPT !.missed = @ \cup {c \in Charts : requests'[c] # requests[c]}]
    BY <2>1 DEF C!Swap
  <2> QED
    BY <2>2 DEF RequestsInv, CallFields
<1> HIDE DEF g
<1>8. \A u \in Threads : C!Rewrites(u)' => u # t /\ C!Rewrites(u)
  BY <1>2, <1>3, <1>6 DEF C!Rewrites
<1>9. \A u \in Threads : C!Rewrites(u)' => Informed(u)'
  BY <1>5, <1>6, <1>7, <1>8 DEF RequestsInv, Informed
<1>10. \A u \in Threads : DOMAIN thread'[u] = CallFields /\ Asks(u)'
  BY <1>2, <1>3, <1>6 DEF RequestsInv, Asks
<1>11. OneRewrites'
  BY <1>8 DEF RequestsInv, OneRewrites
<1>12. RequestsInv'
  BY <1>1, <1>5, <1>9, <1>10, <1>11 DEF RequestsInv
<1>13. ASSUME NEW c \in Charts, requests[c] > 0, requests'[c] = 0
       PROVE  c \in thread[t].warmed \/ c \in thread[t].missed \/ thread[t].shared
  BY <1>1, <1>4, <1>13 DEF C!Left, Informed
<1>14. thread'[t].pc # "swap"
  BY <1>2, <1>3
<1> QED
  BY <1>1, <1>12, <1>13, <1>14 DEF C!KeptUntilWarm

\* Every other step of a call.
LEMMA OtherStep ==
    ASSUME RequestsInv, NEW t \in Threads,
           C!Cycle(t) \/ (\E c \in Charts : C!Read(t, c) \/ C!Turn(t, c))
             \/ (C!Step(t) /\ ~C!Take(t) /\ ~C!Put(t) /\ ~C!Swap(t))
    PROVE  RequestsInv' /\ C!KeptUntilWarm
<1> DEFINE Calm(f) == DOMAIN f = CallFields /\ f.pc \notin {"ask", "save", "swap"}
           Goes == ~C!Rewrites(t) /\ UNCHANGED <<requests, cnow>> /\ \E f : C!Set(t, f) /\ Calm(f)
<1>1. DOMAIN thread[t] = CallFields
  BY DEF RequestsInv
<1>2. DOMAIN C!Idle = CallFields
  BY DEF C!Idle, CallFields
<1>3. Calm(C!Over(t)) /\ Calm(C!Warmed(t))
  BY <1>1, <1>2 DEF C!Over, C!Warmed, C!Idle, CallFields
<1>4. CASE C!Cycle(t)
  BY <1>4, <1>2, CalmStep DEF C!Cycle, C!Begins, C!Rewrites, CallFields
<1>5. ASSUME NEW c \in Charts, C!Read(t, c) PROVE RequestsInv' /\ C!KeptUntilWarm
  BY <1>5, <1>2, CalmStep DEF C!Read, C!Begins, C!Begun, C!Rewrites, CallFields
<1>6. ASSUME NEW c \in Charts, C!Turn(t, c) PROVE RequestsInv' /\ C!KeptUntilWarm
  BY <1>6, <1>1, CalmStep DEF C!Turn, C!Rewrites, CallFields
<1>7. CASE C!Look(t) \/ C!Parse(t)
  BY <1>7, <1>1, CalmStep DEF C!Look, C!Parse, C!Rewrites, CallFields
<1>8. CASE C!Install(t)
  BY <1>8, <1>1, CalmStep DEF C!Install, C!Rewrites, CallFields
<1>9. CASE C!Found(t)
  BY <1>9, <1>1, <1>3, CalmStep DEF C!Found, C!Done, C!Rewrites, CallFields
<1>10. CASE C!Fetch(t)
  BY <1>10, <1>1, <1>3, CalmStep DEF C!Fetch, C!Rewrites, CallFields
<1>11. CASE C!FetchNothing(t)
  BY <1>11, <1>1, CalmStep DEF C!FetchNothing, C!Rewrites, CallFields
<1>12. CASE C!End(t)
  BY <1>12, <1>1, <1>3, CalmStep DEF C!End, C!Done, C!Rewrites, CallFields
<1>13. CASE C!Start(t)
  <2>1. Calm([C!Idle EXCEPT !.pc = "look", !.runs = thread[t].runs, !.chart = thread[t].chart, !.todo = {thread[t].chart}])
    BY <1>2 DEF CallFields
  <2> QED
    BY <1>13, <1>3, <2>1, CalmStep DEF C!Start, C!Done, C!Rewrites
<1>14. CASE C!Copy(t) \/ C!Prune(t) \/ C!Replace(t)
  BY <1>14, <1>1, CalmStep DEF C!Copy, C!Prune, C!Replace, C!Rewrites, CallFields
<1>15. CASE C!Stat(t)
  BY <1>15, <1>3, CalmStep DEF C!Stat, C!Done, C!Rewrites
<1> QED
  BY <1>4, <1>5, <1>6, <1>7, <1>8, <1>9, <1>10, <1>11, <1>12, <1>13, <1>14, <1>15 DEF C!Step

LEMMA ChartStep ==
    ASSUME RequestsInv, [C!Next]_(C!vars)
    PROVE  RequestsInv' /\ C!KeptUntilWarm
<1>1. CASE C!Tick \/ UNCHANGED C!vars
  BY <1>1 DEF C!Tick, C!vars, RequestsInv, Asks, Informed, OneRewrites, C!Rewrites, C!KeptUntilWarm
<1>2. ASSUME NEW t \in Threads, C!Call(t) PROVE RequestsInv' /\ C!KeptUntilWarm
  BY <1>2, OtherStep, RequestStep DEF C!Call
<1>3. ASSUME NEW t \in Threads, C!Step(t) PROVE RequestsInv' /\ C!KeptUntilWarm
  BY <1>3, OtherStep, TakeStep, PutStep, SwapStep
<1> QED
  BY <1>1, <1>2, <1>3 DEF C!Next

\* A request leaves the file only by the write of a call that found or fetched the
\* chart, or that another process or an unreadable file misled, for every number of
\* processes, threads, charts, calls and ages (_drop_warmed_requests, chart_warmup.py).
THEOREM RequestsHold == PlatformSpec => RequestedUntilWarm
<1>1. PlatformInit => RequestsInv
  BY RequestsStart DEF PlatformInit
<1>2. [PlatformNext]_allvars => [C!Next]_(C!vars)
  BY DEF PlatformNext, Quotes, ChartsMove, SchemaMoves, MigrationMoves, SignalsMove, BarsMove, allvars, cvars, C!vars
<1>3. RequestsInv /\ [PlatformNext]_allvars => RequestsInv' /\ [C!KeptUntilWarm]_allvars
  BY <1>2, ChartStep
<1> QED
  BY <1>1, <1>3, PTL DEF PlatformSpec, RequestedUntilWarm
=============================================================================
