----------------------------- MODULE EventIndex -----------------------------
(***************************************************************************)
(* The migration that makes the Stripe webhook idempotent for good         *)
(* (scripts/migrations/0001_add_provider_event_id_unique.py): it adds the  *)
(* column subscription_audit_logs.provider_event_id and the partial unique *)
(* index on (provider, provider_event_id), while the API keeps writing the *)
(* table.  What it leaves behind is the constant UniqueIndex of Billing.   *)
(*                                                                         *)
(* A preflight reads in two parts what other sessions change in between;   *)
(* a normal migration is one transaction under a lock that excludes the    *)
(* writers; a concurrent index passes through three states of its own that *)
(* any session can see.                                                    *)
(***************************************************************************)
EXTENDS Naturals

CONSTANTS
    Operators,      \* the operators who run the script
    Hooks,          \* webhook requests, each served by a process of its own
    StripeEvents,   \* provider_event_id of the events Stripe delivers
    MaxRuns         \* bound on the runs of the script

VARIABLES
    dialect,    \* of DATABASE_URL
    sound,      \* the table exists, provider is NOT NULL, no redundant constraint
    column,     \* the column provider_event_id
    index,      \* the index uq_subscription_audit_provider_event
    logged,     \* committed Stripe rows, by provider_event_id
    unnamed,    \* is there a Stripe row without one?
    hook,       \* the webhook requests
    run,        \* the operators' runs
    runs        \* runs begun

table == <<sound, column, index>>
rows == <<logged, unnamed>>
vars == <<dialect, table, rows, hook, run, runs>>

Dialects == {"postgresql", "sqlite"}
Columns == {"none", "text", "other"}    \* "other": not nullable, or of another type

\* "building" and "ready" are the phases of a concurrent build, which leaves the
\* index "invalid" when it fails; "wrong" has other columns or another predicate.
Building == {"building", "ready"}
Indexes == {"none", "wrong", "good", "invalid"} \cup Building

Strategies == {"none", "normal", "concurrent"}
Steps == {"look", "inspect", "normal", "column", "index", "scan", "validate", "relook", "reinspect"}

Hook == [stage : {"idle", "read", "written"}, event : StripeEvents \cup {"none"}, indexed : BOOLEAN]
IdleHook == [stage |-> "idle", event |-> "none", indexed |-> FALSE]

\* What the first part of the last preflight saw, and how the run ended.
Run == [step : Steps \cup {"new", "ended"}, apply : BOOLEAN, strategy : Strategies,
        column : BOOLEAN, index : BOOLEAN, clean : BOOLEAN, exit : {0, 2, 3}]
NewRun == [step |-> "new", apply |-> FALSE, strategy |-> "none", column |-> FALSE, index |-> FALSE,
           clean |-> FALSE, exit |-> 0]

Duplicates == \E e \in StripeEvents : logged[e] > 1

Init ==
    /\ dialect \in Dialects /\ sound \in BOOLEAN /\ column \in Columns /\ index \in Indexes \ Building
    /\ logged \in [StripeEvents -> 0..2] /\ unnamed \in BOOLEAN
    /\ column # "text" => index \in {"none", "wrong"} /\ \A e \in StripeEvents : logged[e] = 0
    /\ index = "invalid" => dialect = "postgresql"
    /\ index = "good" => ~Duplicates
    /\ hook = [h \in Hooks |-> IdleHook]
    /\ run = [o \in Operators |-> NewRun] /\ runs = 0

-----------------------------------------------------------------------------
(* The webhook, which inserts a row per event and checks first that it has  *)
(* none (stripe_webhook).  Without the column its first query fails.        *)

Receive(h, e) ==
    /\ hook[h].stage = "idle" /\ column # "none" /\ logged[e] = 0
    /\ hook' = [hook EXCEPT ![h] = [stage |-> "read", event |-> e, indexed |-> FALSE]]
    /\ UNCHANGED <<dialect, table, rows, run, runs>>

Written(e) == {h \in Hooks : hook[h].stage = "written" /\ hook[h].event = e}

\* A row that another transaction has written and not committed is waited for.
Free(e) == \A h \in Written(e) : ~hook[h].indexed

\* An index in a phase, or left by a build that failed, may or may not refuse.
Accepts(e) == index \in {"good", "ready"} => Free(e) /\ (index = "good" => logged[e] = 0)
Refuses(e) == index \in {"good", "ready", "invalid"} /\ logged[e] > 0

Insert(h) ==
    /\ hook[h].stage = "read" /\ Accepts(hook[h].event)
    /\ hook' = [hook EXCEPT ![h].stage = "written", ![h].indexed = index \in {"good", "ready"}]
    /\ UNCHANGED <<dialect, table, rows, run, runs>>

\* IntegrityError: the event is answered as a duplicate.
Refused(h) ==
    /\ hook[h].stage = "read" /\ Refuses(hook[h].event)
    /\ hook' = [hook EXCEPT ![h] = IdleHook]
    /\ UNCHANGED <<dialect, table, rows, run, runs>>

Commit(h) ==
    /\ hook[h].stage = "written"
    /\ logged' = [logged EXCEPT ![hook[h].event] = @ + 1]
    /\ hook' = [hook EXCEPT ![h] = IdleHook]
    /\ UNCHANGED <<dialect, table, unnamed, run, runs>>

Rollback(h) ==
    /\ hook[h].stage # "idle"
    /\ hook' = [hook EXCEPT ![h] = IdleHook]
    /\ UNCHANGED <<dialect, table, rows, run, runs>>

\* subscription_sync logs under the provider its caller names, with no event id.
Sync ==
    /\ column # "none" /\ unnamed' = TRUE
    /\ UNCHANGED <<dialect, table, logged, hook, run, runs>>

-----------------------------------------------------------------------------
(* The script. *)

Goes(o, step) == run' = [run EXCEPT ![o].step = step]
Ends(o, code) == run' = [run EXCEPT ![o] = [NewRun EXCEPT !.step = "ended", !.apply = run[o].apply, !.exit = code]]

\* Without --apply the strategy is not looked at.
Start(o, apply, strategy) ==
    /\ run[o].step \in {"new", "ended"} /\ runs < MaxRuns /\ (apply \/ strategy = "none")
    /\ run' = [run EXCEPT ![o] = [NewRun EXCEPT !.step = "look", !.apply = apply, !.strategy = strategy]]
    /\ runs' = runs + 1
    /\ UNCHANGED <<dialect, table, rows, hook>>

\* _collect_common_preflight, with what _validate_preflight_state makes of it
Clean == sound /\ column # "other" /\ ~unnamed /\ ~Duplicates

Look(o) ==
    /\ run[o].step \in {"look", "relook"}
    /\ run' = [run EXCEPT ![o].step = IF @ = "look" THEN "inspect" ELSE "reinspect",
                          ![o].column = column # "none", ![o].index = index # "none", ![o].clean = Clean]
    /\ UNCHANGED <<dialect, table, rows, hook, runs>>

\* planned_actions: the table is clean whenever the plan is followed.
NeedsColumn(o) == ~run[o].column
NeedsIndex(o) == ~run[o].index
NothingPlanned(o) == ~NeedsColumn(o) /\ ~NeedsIndex(o)

\* Mutant: IF NOT EXISTS is taken for a good index.
UnsafeByName(o, barred) ==
    \/ ~run[o].clean
    \/ run[o].index /\ (index \in {"none", "wrong"} \/ ~run[o].column)
    \/ ~NothingPlanned(o) /\ barred /\ dialect = "postgresql"

\* _collect_postgresql_preflight, _validate_preflight_state: "barred" by a long
\* transaction, or because the user may not alter the table
Unsafe(o, barred) ==
    \/ ~run[o].clean
    \/ run[o].index /\ (index \in {"none", "wrong"} \/ ~run[o].column)
    \/ index \in Building \cup {"invalid"}
    \/ ~NothingPlanned(o) /\ barred /\ dialect = "postgresql"

Builds(o) == run[o].step \in {"scan", "validate"}
NoBuild == \A o \in Operators : ~Builds(o)
NoWriter == \A h \in Hooks : hook[h].stage # "written"

\* No other transaction has touched the table: neither a request nor a preflight
\* between its two parts.
Alone(o) ==
    /\ NoBuild /\ \A h \in Hooks : hook[h].stage = "idle"
    /\ \A p \in Operators \ {o} : run[p].step \notin {"inspect", "reinspect"}

\* _conflicting_active_locks: a concurrent build conflicts with another alone.
Locked(o) ==
    /\ dialect = "postgresql"
    /\ IF NeedsColumn(o) \/ run[o].strategy # "concurrent" THEN ~Alone(o) ELSE ~NoBuild

\* _assert_safe_for_apply
Blocked(o) ==
    \/ NeedsIndex(o) /\ run[o].strategy = "none"
    \/ run[o].strategy = "concurrent" /\ dialect # "postgresql"
    \/ Locked(o)

\* run, apply_migration up to its first statement
Inspect(o) ==
    /\ run[o].step = "inspect"
    /\ \E barred \in BOOLEAN :
        IF Unsafe(o, barred) THEN Ends(o, 2)
        ELSE IF ~run[o].apply \/ NothingPlanned(o) THEN Ends(o, 0)
        ELSE IF Blocked(o) THEN Ends(o, 2)
        ELSE Goes(o, CASE run[o].strategy = "normal" -> "normal"
                       [] NeedsColumn(o) -> "column"
                       [] OTHER -> "index")
    /\ UNCHANGED <<dialect, table, rows, hook, runs>>

\* The validation after the last statement.
Reinspect(o) ==
    /\ run[o].step = "reinspect"
    /\ \E barred \in BOOLEAN :
        Ends(o, IF Unsafe(o, barred) \/ ~run[o].column \/ ~run[o].index THEN 3 ELSE 0)
    /\ UNCHANGED <<dialect, table, rows, hook, runs>>

\* _apply_normal_migration: both statements under one lock, and IF NOT EXISTS;
\* the column is looked up again, the index is not.
Migrate(o) ==
    /\ run[o].step = "normal" /\ NoBuild /\ NoWriter
    /\ NeedsColumn(o) /\ column = "none" => Alone(o)
    /\ \/ /\ index = "none" => ~Duplicates
          /\ column' = (IF column = "none" THEN "text" ELSE column)
          /\ index' = (IF index = "none" THEN "good" ELSE index)
          /\ Goes(o, "relook")
       \/ /\ index = "none" /\ Duplicates
          /\ Ends(o, 3) /\ UNCHANGED <<column, index>>
    /\ UNCHANGED <<dialect, sound, rows, hook, runs>>

\* _add_column
AddColumn(o) ==
    /\ run[o].step = "column"
    /\ column = "none" => Alone(o)
    /\ column' = (IF column = "none" THEN "text" ELSE column)
    /\ Goes(o, "index")
    /\ UNCHANGED <<dialect, sound, index, rows, hook, runs>>

\* _create_index_concurrently: IF NOT EXISTS accepts an index in any state.
Begin(o) ==
    /\ run[o].step = "index" /\ NoBuild
    /\ IF index = "none" THEN index' = "building" /\ Goes(o, "scan")
       ELSE Goes(o, "relook") /\ UNCHANGED index
    /\ UNCHANGED <<dialect, sound, column, rows, hook, runs>>

BuildFails(o) == index' = "invalid" /\ Ends(o, 3)

\* The rows committed by now; from here on a new row is entered as well.
Scan(o) ==
    /\ run[o].step = "scan"
    /\ IF Duplicates THEN BuildFails(o) ELSE index' = "ready" /\ Goes(o, "validate")
    /\ UNCHANGED <<dialect, sound, column, rows, hook, runs>>

\* The rows missed, once no transaction is left that writes without the index
\* or has entered a row that one of them excludes.
Validate(o) ==
    /\ run[o].step = "validate"
    /\ \A h \in Hooks : hook[h].stage = "written" => hook[h].indexed /\ logged[hook[h].event] = 0
    /\ IF Duplicates THEN BuildFails(o) ELSE index' = "good" /\ Goes(o, "relook")
    /\ UNCHANGED <<dialect, sound, column, rows, hook, runs>>

\* SQLAlchemyError: a lock or statement timeout, a deadlock, a lost connection.
\* SQLite commits each statement of the normal migration by itself.
Fail(o) ==
    /\ run[o].step \in Steps /\ Ends(o, 3)
    /\ index' = (IF Builds(o) THEN "invalid" ELSE index)
    /\ \/ UNCHANGED column
       \/ /\ dialect = "sqlite" /\ run[o].step = "normal" /\ column = "none"
          /\ column' = "text"
    /\ UNCHANGED <<dialect, sound, rows, hook, runs>>

\* Between two runs the operators drop an invalid index and settle the rows that
\* stand in the way.
Reconcile ==
    /\ \A o \in Operators : run[o].step \notin Steps
    /\ \A h \in Hooks : hook[h].stage = "idle"
    /\ index' = (IF index = "invalid" THEN "none" ELSE index)
    /\ logged' = [e \in StripeEvents |-> IF logged[e] > 1 THEN 1 ELSE logged[e]]
    /\ unnamed' = FALSE
    /\ UNCHANGED <<dialect, sound, column, hook, run, runs>>

Next ==
    \/ \E h \in Hooks : \/ \E e \in StripeEvents : Receive(h, e)
                        \/ Insert(h) \/ Refused(h) \/ Commit(h) \/ Rollback(h)
    \/ Sync \/ Reconcile
    \/ \E o \in Operators :
          \/ \E apply \in BOOLEAN, strategy \in Strategies : Start(o, apply, strategy)
          \/ Look(o) \/ Inspect(o) \/ Reinspect(o) \/ Fail(o)
          \/ Migrate(o) \/ AddColumn(o) \/ Begin(o) \/ Scan(o) \/ Validate(o)

Spec == Init /\ [][Next]_vars

-----------------------------------------------------------------------------
TypeOK ==
    /\ dialect \in Dialects /\ sound \in BOOLEAN /\ column \in Columns /\ index \in Indexes
    /\ logged \in [StripeEvents -> Nat] /\ unnamed \in BOOLEAN
    /\ hook \in [Hooks -> Hook] /\ run \in [Operators -> Run] /\ runs \in Nat

\* Once a run has ended well with --apply, no event is logged twice, whatever was
\* written or run while it worked: a build that failed, a run of another operator
\* or an index that IF NOT EXISTS passed over never counts as applied.
Applied(o) == run[o].step = "ended" /\ run[o].apply /\ run[o].exit = 0
AppliedIsEnforced == (\E o \in Operators : Applied(o)) => index = "good" /\ ~Duplicates
=============================================================================
