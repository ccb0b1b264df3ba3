------------------------------ MODULE WeeklyPolls ------------------------------
(***************************************************************************)
(* The weekly polls (app/services/poll_service.py): one JSON file, written *)
(* under a lock of the process and a lock between processes, and in every  *)
(* process a copy that is good as long as the file carries its time.       *)
(***************************************************************************)
EXTENDS Integers, FiniteSets

CONSTANTS
    Requests, Workers, Proc,  \* requests, AI workers, and the process of each
    Users, Symbols,  \* symbols are numbers, which stand for their order
    Events,          \* what a poll may be about: a result, a date of the calendar
    FirstDay, LastDay,  \* days since a Sunday
    MaxPolls,        \* polls that are kept
    MaxWrites, MaxErrors  \* bounds: times of the file, failed reads

VARIABLES
    day,
    file,    \* the polls, and the time the file was written at
    cache,   \* the same in the memory of each process
    call,    \* what each caller is at
    errors
vars == <<day, file, cache, call, errors>>

Callers == Requests \cup Workers
Procs == {Proc[c] : c \in Callers}
Options == {"A", "B"}
Week(d) == d \div 7
Open(d) == d % 7 < 5                     \* Sunday to Thursday
Ids == (Week(FirstDay)..Week(LastDay)) \X Symbols

NoPoll == [event |-> "none", created |-> 0, votes |-> [o \in Options |-> 0], voters |-> [u \in Users |-> "none"], total |-> 0]
NoPolls == [id \in Ids |-> NoPoll]
Stored(polls) == {id \in Ids : polls[id] # NoPoll}

Idle == [at |-> "idle", op |-> "read", id |-> <<0, 0>>, user |-> "none", option |-> "A", event |-> "none",
         day |-> 0, poll |-> NoPoll, polls |-> NoPolls, mtime |-> 0]
Init ==
    /\ day = FirstDay /\ errors = 0
    /\ file = [mtime |-> 0, polls |-> NoPolls]
    /\ cache = [p \in Procs |-> file]
    /\ call = [c \in Callers |-> Idle]

---------------------------------------------------------------------------
(* What the mutators do to the store.                                        *)

\* _build_poll
Built(event, d) == [NoPoll EXCEPT !.event = event, !.created = d]

\* _prune_polls: the oldest go, but never the one just stored.
Older(polls, i, j) == \/ polls[i].created < polls[j].created
                      \/ polls[i].created = polls[j].created /\ (i[1] < j[1] \/ (i[1] = j[1] /\ i[2] < j[2]))
Pruned(polls, keep) ==
    LET rest == Stored(polls) \ {keep}
        excess == Cardinality(Stored(polls)) - MaxPolls
    IN [id \in Ids |-> IF id \in rest /\ Cardinality({j \in rest : Older(polls, j, id)}) < excess THEN NoPoll ELSE polls[id]]

\* ensure_weekly_poll: a poll about another event replaces the one of the week.
Ensured(polls, l) ==
    IF polls[l.id].event = l.event THEN polls ELSE Pruned([polls EXCEPT ![l.id] = Built(l.event, l.day)], l.id)

\* A user has one vote, and may move it.
Voted(poll, u, o) ==
    LET left == IF poll.voters[u] \in Options \ {o} /\ poll.votes[poll.voters[u]] > 0
                THEN [poll.votes EXCEPT ![poll.voters[u]] = @ - 1] ELSE poll.votes
        votes == [left EXCEPT ![o] = @ + 1]
    IN IF poll.voters[u] = o THEN poll
       ELSE [poll EXCEPT !.votes = votes, !.voters[u] = o, !.total = votes["A"] + votes["B"]]

\* vote_poll: on the poll in the store or, when it has gone, on the one the
\* caller was given, which is then stored again.
Counted(polls, l) ==
    [polls EXCEPT ![l.id] = Voted(IF @ # NoPoll THEN @ ELSE l.poll, l.user, l.option)]

---------------------------------------------------------------------------
(* The file and the locks.                                                   *)

Set(c, l) == call' = [call EXCEPT ![c] = l]

\* _lock is held while a caller reads the file, or changes it.
Holds(c) == call[c].at \in {"reading", "ensuring", "voting"}
ThreadFree(c) == \A o \in Callers \ {c} : Proc[o] = Proc[c] => ~Holds(o)

\* Mutant: the lock is one of the process.
Unlocked(c) == TRUE

\* interprocess_file_lock
FileFree(c) == \A o \in Callers \ {c} : call[o].at \notin {"ensuring", "voting"}

\* _load_store: the copy in memory, if the file still carries its time.  A file
\* that cannot be read is an empty one, and remembered so.
Fails(n) == errors + n <= MaxErrors /\ errors' = errors + n
Content(n) == IF n = 1 THEN NoPolls ELSE file.polls
Loaded(c, n) == IF cache[Proc[c]].mtime = file.mtime THEN cache[Proc[c]] ELSE [mtime |-> file.mtime, polls |-> Content(n)]

---------------------------------------------------------------------------
(* get_weekly_poll, for a page or for a vote: it looks at the time of the    *)
(* file, and then reads it.                                                  *)

Got(c, l, polls) == Set(c, [l EXCEPT !.at = "got", !.poll = polls[l.id], !.mtime = 0])

Ask(c) ==
    /\ call[c].at = "idle" /\ c \in Requests /\ ThreadFree(c)
    /\ \E s \in Symbols, u \in Users, o \in Options, op \in {"read", "vote"} :
        LET l == [Idle EXCEPT !.op = op, !.id = <<Week(day), s>>, !.user = u, !.option = o, !.day = day]
        IN /\ op = "read" => u = CHOOSE v \in Users : TRUE
           /\ op = "read" => o = "A"
           /\ IF cache[Proc[c]].mtime = file.mtime THEN Got(c, l, cache[Proc[c]].polls)
              ELSE Set(c, [l EXCEPT !.at = "reading", !.mtime = file.mtime])
    /\ UNCHANGED <<day, file, cache, errors>>

Fetch(c) ==
    /\ call[c].at = "reading"
    /\ \E n \in {0, 1} :
        /\ Fails(n)
        /\ cache' = [cache EXCEPT ![Proc[c]] = [mtime |-> call[c].mtime, polls |-> Content(n)]]
        /\ Got(c, call[c], Content(n))
    /\ UNCHANGED <<day, file>>

\* _is_active_event_poll: a poll of this week that is open.
Active(l) == l.poll # NoPoll /\ Open(l.day)

\* With a poll, the page is done and the vote goes on; without one, a poll is
\* made if there is something to ask this week (_resolve_poll_event).
Decide(c) ==
    /\ call[c].at = "got"
    /\ IF Active(call[c]) THEN Set(c, IF call[c].op = "vote" THEN [call[c] EXCEPT !.at = "vote"] ELSE Idle)
       ELSE \E e \in Events \cup {"none"} :
               Set(c, IF Open(call[c].day) /\ e # "none" THEN [call[c] EXCEPT !.at = "ensure", !.event = e] ELSE Idle)
    /\ UNCHANGED <<day, file, cache, errors>>

\* generate_weekly_polls_for_top_symbols: the AI worker, for one symbol.
Generate(c) ==
    /\ call[c].at = "idle" /\ c \in Workers /\ Open(day)
    /\ \E s \in Symbols, e \in Events :
        Set(c, [Idle EXCEPT !.at = "ensure", !.op = "generate", !.id = <<Week(day), s>>, !.event = e, !.day = day])
    /\ UNCHANGED <<day, file, cache, errors>>

---------------------------------------------------------------------------
(* _mutate_store                                                             *)

Enter(c) ==
    /\ call[c].at \in {"ensure", "vote"} /\ ThreadFree(c) /\ FileFree(c)
    /\ \E n \in {0, 1} :
        /\ Fails(n)
        /\ n = 1 => cache[Proc[c]].mtime # file.mtime
        /\ cache' = [cache EXCEPT ![Proc[c]] = Loaded(c, n)]
        /\ Set(c, [call[c] EXCEPT !.at = IF @ = "vote" THEN "voting" ELSE "ensuring", !.polls = Loaded(c, n).polls])
    /\ UNCHANGED <<day, file>>

\* The new file may carry the time of the old one: the clock of the file system
\* is not as fine as its numbers.
Save(c) ==
    LET polls == IF call[c].at = "voting" THEN Counted(call[c].polls, call[c]) ELSE Ensured(call[c].polls, call[c])
    IN /\ call[c].at \in {"ensuring", "voting"}
       /\ \E t \in {file.mtime, file.mtime + 1} :
            /\ t \in 1..MaxWrites
            /\ file' = [mtime |-> t, polls |-> polls]
            /\ cache' = [cache EXCEPT ![Proc[c]] = file']
       /\ Set(c, IF call[c].at = "ensuring" /\ call[c].op = "vote"
                 THEN [call[c] EXCEPT !.at = "vote", !.event = "none", !.poll = polls[call[c].id], !.polls = NoPolls] ELSE Idle)
       /\ UNCHANGED <<day, errors>>

\* The lock is not given in five seconds, or the file cannot be written: the
\* call raises.
Raise(c) ==
    /\ \/ call[c].at \in {"ensure", "vote"} /\ ~FileFree(c)
       \/ call[c].at \in {"ensuring", "voting"}
    /\ Set(c, Idle) /\ UNCHANGED <<day, file, cache, errors>>

Restart(p) ==
    /\ cache' = [cache EXCEPT ![p] = [mtime |-> 0, polls |-> NoPolls]]
    /\ call' = [c \in Callers |-> IF Proc[c] = p THEN Idle ELSE call[c]]
    /\ UNCHANGED <<day, file, errors>>

NextDay == day < LastDay /\ day' = day + 1 /\ UNCHANGED <<file, cache, call, errors>>

Next == NextDay \/ (\E p \in Procs : Restart(p))
        \/ \E c \in Callers : Ask(c) \/ Fetch(c) \/ Decide(c) \/ Generate(c) \/ Enter(c) \/ Save(c) \/ Raise(c)
Spec == Init /\ [][Next]_vars

---------------------------------------------------------------------------
\* A copy that carries the time of the file without being it.
Misled(p) == cache[p].mtime = file.mtime /\ cache[p].polls # file.polls

\* No write loses a vote on a poll it keeps, however processes overlap, but for
\* one: a process whose copy has the time of the file and not its content, after
\* two writes at one time or a read that failed (_mutate_store).
VoteKept ==
    \A id \in Ids, u \in Users :
        /\ file.polls[id].voters[u] # "none" /\ file'.polls[id].voters[u] = "none"
        /\ file'.polls[id].event = file.polls[id].event
        => \E p \in Procs : Misled(p)
VotesAreKept == [][VoteKept]_vars

\* What the user was asked is what the vote counts for.  The code does not keep
\* it: the poll may have been replaced between the page and the vote.
VoteIsOnItsQuestion ==
    [][\A c \in Callers : call[c].at = "voting" /\ file' # file /\ call'[c].at = "idle"
         => file'.polls[call[c].id].event = call[c].poll.event]_vars
===============================================================================
