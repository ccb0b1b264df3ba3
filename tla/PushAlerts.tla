------------------------------ MODULE PushAlerts ------------------------------
(***************************************************************************)
(* Push alerts: the tokens of devices in a file that the API and the       *)
(* worker change (app/services/push_service.py), and the worker's cycles   *)
(* over the signals of a snapshot (app/system/push_dispatcher.py).         *)
(* The kill switches are environment variables                             *)
(* (app/system/kill_switches.py).                                          *)
(***************************************************************************)
EXTENDS Integers, FiniteSets, Sequences, SequencesExt

CONSTANTS
    Users, Tokens, Tickers,
    Cooldown,            \* seconds between two alerts of one ticker
    MaxSignals,          \* signals of one cycle
    MaxTime, MaxCrashes  \* bounds: ticks of the clock, dispatches cut short

VARIABLES
    now, crashes,
    switch,  \* the push kill switch is on
    file,    \* tokens of each user: "active", "inactive" or "none"
    edit,    \* per process: a change of the token file between read and write
    stamps,  \* the file of the last alert of each ticker
    cycle,   \* the running dispatch
    log      \* alerts that left, but those whose stamps were lost: the ticker, the
             \* device, the start of the cycle
vars == <<now, crashes, switch, file, edit, stamps, cycle, log>>

NoEdit == [pc |-> "idle"]
Idle == [pc |-> "idle"]
NeverSent == [s \in Tickers |-> 0]
NoTokens == [u \in Users |-> [t \in Tokens |-> "none"]]

Init ==
    /\ now = Cooldown /\ crashes = 0 /\ switch = FALSE
    /\ file = NoTokens
    /\ edit = [p \in {"api", "worker"} |-> NoEdit]
    /\ stamps = NeverSent /\ cycle = Idle /\ log = {}

---------------------------------------------------------------------------
(* The token file.  The lock of an edit is one of its process.               *)

Bound(store, u, t) == [v \in Users |-> [store[v] EXCEPT ![t] = IF v = u THEN "active" ELSE "none"]]
Unbound(store, u, t) == [store EXCEPT ![u][t] = "none"]
Deactivated(store, u, t) == [store EXCEPT ![u][t] = IF @ = "active" THEN "inactive" ELSE @]

\* register_push_token and unregister_push_token: a token belongs to one user.  A
\* trial message from the API to a token the provider does not know gives it up.
\* A file that cannot be read is taken for an empty one.
ApiReads(u, t) ==
    /\ edit["api"] = NoEdit
    /\ \E known \in {file, NoTokens} :
       \E store \in {Bound(known, u, t), Unbound(known, u, t)}
                     \cup IF known[u][t] = "active" THEN {Deactivated(known, u, t)} ELSE {} :
           edit' = [edit EXCEPT !["api"] = [pc |-> "write", store |-> store]]
    /\ UNCHANGED <<now, crashes, switch, file, stamps, cycle, log>>

Writes(p) ==
    /\ edit[p].pc = "write"
    /\ file' = edit[p].store
    /\ edit' = [edit EXCEPT ![p] = NoEdit]
    /\ UNCHANGED <<now, crashes, switch, stamps, cycle, log>>

\* The request fails.
ApiFails ==
    /\ edit["api"].pc = "write" /\ edit' = [edit EXCEPT !["api"] = NoEdit]
    /\ UNCHANGED <<now, crashes, switch, file, stamps, cycle, log>>

---------------------------------------------------------------------------
(* dispatch_signal_pushes                                                    *)

Active(store) == {d \in Users \X Tokens : store[d[1]][d[2]] = "active"}
AnyToken(store) == \E u \in Users, t \in Tokens : store[u][t] # "none"

\* The best signals of the snapshot, at most MaxSignals of them, best first.
Best(signals) == {s \in [1..Cardinality(signals) -> signals] : Cardinality({s[i] : i \in DOMAIN s}) = Cardinality(signals)}

\* The worker reads both files once; the token file is not read again.  Stamps that
\* cannot be read are taken for none.
Dispatch ==
    /\ cycle = Idle /\ ~switch /\ AnyToken(file)
    /\ \E signals \in {S \in SUBSET Tickers : Cardinality(S) \in 1..MaxSignals} :
       \E queue \in Best(signals), known \in {stamps, NeverSent} :
           /\ cycle' = [pc |-> "signal", at |-> now, queue |-> queue, stamps |-> known, tokens |-> Active(file),
                        left |-> {}, sent |-> 0]
           /\ log' = IF known = stamps THEN log ELSE {}
    /\ UNCHANGED <<now, crashes, switch, file, edit, stamps>>

Next1(c) == [c EXCEPT !.pc = "signal", !.queue = Tail(@), !.left = {}]

\* A ticker that is cooling down, or switched off, is passed over.
Cooling(c, s) == c.at - c.stamps[s] < Cooldown
Skip ==
    /\ cycle.pc = "signal" /\ cycle.queue # <<>>
    /\ \/ Cooling(cycle, Head(cycle.queue))
       \/ TRUE  \* DISABLE_SYMBOL_...
    /\ cycle' = Next1(cycle)
    /\ UNCHANGED <<now, crashes, switch, file, edit, stamps, log>>

Take ==
    /\ cycle.pc = "signal" /\ cycle.queue # <<>> /\ ~Cooling(cycle, Head(cycle.queue))
    /\ cycle' = [cycle EXCEPT !.pc = "send", !.left = cycle.tokens, !.sent = 0]
    /\ UNCHANGED <<now, crashes, switch, file, edit, stamps, log>>

Turn(d) == cycle.pc = "send" /\ d \in cycle.left /\ edit["worker"] = NoEdit

\* send_push_notification: one try of one token.  The switch is read again.
Sent(d) ==
    /\ Turn(d) /\ ~switch
    /\ cycle' = [cycle EXCEPT !.left = @ \ {d}, !.sent = @ + 1]
    /\ log' = log \cup {[ticker |-> Head(cycle.queue), token |-> d[2], at |-> cycle.at]}
    /\ UNCHANGED <<now, crashes, switch, file, edit, stamps>>

Unsent(d) ==
    /\ Turn(d)
    /\ cycle' = [cycle EXCEPT !.left = @ \ {d}]
    /\ UNCHANGED <<now, crashes, switch, file, edit, stamps, log>>

\* The provider does not know the token any more: deactivate_push_token.
Invalid(d) ==
    /\ Turn(d) /\ ~switch
    /\ cycle' = [cycle EXCEPT !.left = @ \ {d}]
    /\ edit' = [edit EXCEPT !["worker"] =
           IF file[d[1]][d[2]] = "active" THEN [pc |-> "write", store |-> Deactivated(file, d[1], d[2])] ELSE NoEdit]
    /\ UNCHANGED <<now, crashes, switch, file, stamps, log>>

\* Mutant: the cooldown starts only if every device was reached.
StampedIfAll(c) == IF c.sent = Cardinality(c.tokens) THEN [c.stamps EXCEPT ![Head(c.queue)] = c.at] ELSE c.stamps

\* The cooldown of the ticker starts if any device was reached.
Stamped(c) == IF c.sent > 0 THEN [c.stamps EXCEPT ![Head(c.queue)] = c.at] ELSE c.stamps

Close ==
    /\ cycle.pc = "send" /\ cycle.left = {} /\ edit["worker"] = NoEdit
    /\ cycle' = [Next1(cycle) EXCEPT !.stamps = Stamped(cycle)]
    /\ UNCHANGED <<now, crashes, switch, file, edit, stamps, log>>

\* The stamps are written when all signals are done.
Saving == cycle.pc = "signal" /\ cycle.queue = <<>>
Save ==
    /\ Saving
    /\ stamps' = cycle.stamps /\ cycle' = Idle
    /\ UNCHANGED <<now, crashes, switch, file, edit, log>>

---------------------------------------------------------------------------
Tick == now < MaxTime /\ now' = now + 1 /\ UNCHANGED <<crashes, switch, file, edit, stamps, cycle, log>>
Switch == switch' = ~switch /\ UNCHANGED <<now, crashes, file, edit, stamps, cycle, log>>

\* A dispatch that does not come to its end: the stamps of its alerts are lost.
\* They are not written atomically, and the file may be left so that it reads empty.
Unsaved == IF cycle = Idle THEN {} ELSE {a \in log : a.at = cycle.at}
CutShort ==
    /\ crashes < MaxCrashes /\ crashes' = crashes + 1
    /\ cycle' = Idle /\ edit' = [edit EXCEPT !["worker"] = NoEdit]
    /\ \/ stamps' = stamps /\ log' = log \ Unsaved
       \/ Saving /\ stamps' = NeverSent /\ log' = {}
    /\ UNCHANGED <<now, switch, file>>

Crash == CutShort

\* The stamps, or a token that is given up, cannot be written: the worker logs the
\* exception and goes on.
Raise == (Saving \/ edit["worker"].pc = "write") /\ CutShort

Trying == Skip \/ Take \/ Close \/ Save \/ \E d \in Users \X Tokens : Sent(d) \/ Unsent(d) \/ Invalid(d)

Next ==
    \/ Tick \/ Switch \/ Crash \/ Raise \/ Dispatch \/ Trying \/ ApiFails
    \/ \E u \in Users, t \in Tokens : ApiReads(u, t)
    \/ \E p \in {"api", "worker"} : Writes(p)

Spec == Init /\ [][Next]_vars

---------------------------------------------------------------------------
\* Two alerts of a ticker reach a device in cycles at least a cooldown apart, whatever
\* became of the other devices, as long as the stamp of the first is not lost: by its
\* own dispatch that was cut short, or with a file that was torn or not readable
\* (dispatch_signal_pushes).
OneAlertPerCooldown ==
    \A a, b \in log : a.ticker = b.ticker /\ a.token = b.token /\ a.at < b.at => b.at - a.at >= Cooldown

\* A device that the user registered stays registered until it is unregistered or
\* given to another user, or the provider gives it up (register_push_token).  The
\* code does not keep it: the worker writes back what it read.
RegisteredDeviceStays ==
    [][edit["worker"].pc = "write" /\ edit'["worker"] = NoEdit /\ crashes' = crashes
          => \A u \in Users, t \in Tokens : file[u][t] = "active" => file'[u][t] # "none"]_vars
=============================================================================
