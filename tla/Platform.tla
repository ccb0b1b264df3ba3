------------------------------ MODULE Platform ------------------------------
(***************************************************************************)
(* What the pages and requests stand on, each part on its own since they   *)
(* share no state: quotes, charts and the batch of bars of one process,    *)
(* the signals of the last cycle, the database schema that API and AI      *)
(* worker look after, and the migration beside a webhook.  The values of   *)
(* the small instance are at the end.                                      *)
(***************************************************************************)
EXTENDS QuoteCache

CONSTANTS
    Charts, Defaults, Threads, Crews, ChartProc, ChartKind, ChartTtl, ChartRetention, ChartRest, MaxCharts, MaxResident, MaxCalls,
    Apis, Workers, Tables, ColumnPatches, IndexPatches, Rules, TableOf, References, TablePatches, Plan, MaxFails,
    Operators, Hooks, StripeEvents, MaxRunsOfScript,
    Engines, Clients, Keepers, SignalProc, MaxBatches, MaxClears, MaxWrites,
    BatchSymbols, Askers, BatchLimit, BatchTtl, BatchCooldown, BatchHours

VARIABLES part, cnow, cfile, requests, cmem, resting, thread
cvars == <<cnow, cfile, requests, cmem, resting, thread>>

C == INSTANCE ChartCache WITH
        Procs <- {ChartProc[t] : t \in Threads}, Proc <- ChartProc, Kind <- ChartKind,
        now <- cnow, file <- cfile, mem <- cmem,
        Ttl <- ChartTtl, Retention <- ChartRetention, RestFor <- ChartRest, MaxTime <- 2, MaxRuns <- 1

VARIABLES place, schema, boot, fails, dialect, sound, column, index, logged, unnamed, hook, script, scripts
svars == <<place, schema, boot, fails>>
mvars == <<dialect, sound, column, index, logged, unnamed, hook, script, scripts>>

Schema == INSTANCE RuntimeSchema WITH Columns <- ColumnPatches, Indexes <- IndexPatches
Migration == INSTANCE EventIndex WITH MaxRuns <- MaxRunsOfScript, run <- script, runs <- scripts

VARIABLES snow, sfile, smem, sthread, bnow, batch, bresting, asker
gvars == <<snow, sfile, smem, sthread>>
bvars == <<bnow, batch, bresting, asker>>

Signals == INSTANCE SignalCache WITH
        Proc <- SignalProc, now <- snow, file <- sfile, mem <- smem, thread <- sthread
Bars == INSTANCE BatchCache WITH
        Symbols <- BatchSymbols, Callers <- Askers, Limit <- BatchLimit, Ttl <- BatchTtl, Cooldown <- BatchCooldown,
        MaxTime <- BatchHours, now <- bnow, cache <- batch, rest <- bresting, caller <- asker

ASSUME PlatformConstants ==
    /\ Schema!PlanConstants /\ Signals!SignalConstants
    /\ IsFiniteSet(BatchSymbols) /\ Bars!BatchConstants

allvars == <<part, vars, cvars, svars, mvars, gvars, bvars>>

\* A part that does not move starts in one way only.
PlatformInit ==
    /\ part \in {"quotes", "charts", "schema", "migration", "signals", "bars"}
    /\ Init /\ C!Init /\ Schema!Init /\ Migration!Init /\ Signals!Init /\ Bars!Init
    /\ part # "schema" => place = "sqlite" /\ schema = {}
    /\ part # "migration" =>
          /\ dialect = "sqlite" /\ sound /\ column = "none" /\ index = "none" /\ ~unnamed
          /\ \A e \in StripeEvents : logged[e] = 0
Quotes == part = "quotes" /\ Next /\ UNCHANGED <<part, cvars, svars, mvars, gvars, bvars>>
\* Bound: the threads of one crew alone are called.
ChartsMove ==
    /\ part = "charts" /\ C!Next /\ UNCHANGED <<part, vars, svars, mvars, gvars, bvars>>
    /\ \E crew \in Crews : \A t \in Threads \ crew : thread'[t].runs = 0
SchemaMoves == part = "schema" /\ Schema!Next /\ UNCHANGED <<part, vars, cvars, mvars, gvars, bvars>>
MigrationMoves == part = "migration" /\ Migration!Next /\ UNCHANGED <<part, vars, cvars, svars, gvars, bvars>>
SignalsMove == part = "signals" /\ Signals!Next /\ UNCHANGED <<part, vars, cvars, svars, mvars, bvars>>
BarsMove == part = "bars" /\ Bars!Next /\ UNCHANGED <<part, vars, cvars, svars, mvars, gvars>>
PlatformNext == Quotes \/ ChartsMove \/ SchemaMoves \/ MigrationMoves \/ SignalsMove \/ BarsMove
PlatformSpec == PlatformInit /\ [][PlatformNext]_allvars

\* Every refresh ends within the tick it began in.
PromptNext == Next /\ (now' # now => \A t \in Warmers : job[t].pc = "idle")
PromptSpec ==
    /\ part = "quotes" /\ PlatformInit
    /\ [][PromptNext /\ UNCHANGED <<part, cvars, svars, mvars, gvars, bvars>>]_allvars

\* A request leaves the file only by the write of a call that has found or fetched the
\* chart, or that another process or an unreadable file misled (request_chart_warmup,
\* _drop_warmed_requests).
RequestedUntilWarm == [][C!KeptUntilWarm]_allvars

\* Whoever runs, whichever of its transactions were refused, has the schema it
\* needs (_create_tables_if_needed, _ensure_worker_schema).
StartedIsComplete == Schema!StartedIsComplete

\* A run that ended well after --apply left an index in force and no event logged
\* twice (apply_migration).
AppliedIsEnforced == Migration!AppliedIsEnforced

\* A process that takes the file of signals for known serves nothing older
\* (_write_to_disk, _load_from_disk_if_needed).
KnownIsServed == Signals!KnownIsServed

\* The batch of bars answers with every symbol asked for, and in time
\* (get_market_data, _store_cache_locked).
AnswersAreWhole == Bars!AnswersAreWhole

---------------------------------------------------------------------------
(* Values for platform.cfg.                                                *)

OneWriter == [t \in Warmers |-> "web"]
MiniFuture == [s \in Symbols |-> IF s = "WIN" THEN "IBOV" ELSE "none"]
WarmerChunks == [t \in Warmers |-> IF t = "warmup" THEN {Symbols} ELSE {{"WIN"}}]

CycleBesideRequests == {{"request", "cycle", "strip"}, {"request", "again"}}
ChartHome == [t \in Threads |-> IF t = "cycle" THEN "worker" ELSE "web"]
ChartDuty == [t \in Threads |-> IF t = "again" THEN "request" ELSE t]

\* "role" and "expires" came later than their tables, "event" is a patched index and
\* "policy" one that only a migration brings.
TableOfItem ==
    [i \in Tables \cup {"role", "expires", "event", "policy"} |->
        CASE i = "role" -> "users" [] i \in {"expires", "policy"} -> "sessions"
          [] i = "event" -> "events" [] OTHER -> i]
UsersFirst == [t \in Tables |-> {"users"} \ {t}]
LookFor(kind, t) == [kind |-> kind, of |-> t]
FiveLooks ==
    <<LookFor("table", "sessions"), LookFor("table", "events"), LookFor("columns", "users"),
      LookFor("columns", "sessions"), LookFor("indexes", "events")>>

SignalHome == [t \in {"engine", "stream", "page", "keeper"} |-> IF t = "page" THEN "web" ELSE "worker"]
=============================================================================
