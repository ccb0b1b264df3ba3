---------------------------- MODULE RuntimeSchema ----------------------------
(***************************************************************************)
(* How a process makes sure of its database before it uses it              *)
(* (app/database_schema.py).  Outside production the API creates what the  *)
(* models name and is not there (create_all), then it and every cycle of   *)
(* the AI worker patch what an older release left (ensure_runtime_schema); *)
(* in production both only read, and refuse a schema that is not the       *)
(* contract's (validate_production_schema).                                *)
(*                                                                         *)
(* Each looks through one connection and alters through another.  On       *)
(* PostgreSQL a patch run is one transaction, whose statements wait for    *)
(* the locks of the others; on SQLite every statement commits by itself.   *)
(***************************************************************************)
EXTENDS Naturals, Sequences

CONSTANTS
    Apis, Workers,      \* the processes that start, or begin a cycle
    Tables,             \* of the models
    Columns, Indexes,   \* SCHEMA_PATCHES and INDEX_PATCHES: what older tables lack
    Rules,              \* keys, constraints and policies that only migrations bring
    TableOf,            \* the table of each of them, a table's own for itself
    References,         \* the tables a table has foreign keys to
    TablePatches,       \* the tables ensure_runtime_schema creates itself
    Plan,               \* its looks in their order: [kind, of]
    MaxFails            \* bound on the errors that no other process causes

Starters == Apis \cup Workers
Parts == Columns \cup Indexes
Items == Tables \cup Parts \cup Rules

Looks == [kind : {"table", "columns", "indexes"}, of : Tables]

\* Tables are looked for first; whatever is patched is looked for; and a table
\* with a patched index is one of those ensure_runtime_schema creates.
PlanConstants ==
    /\ Tables \cap (Parts \cup Rules) = {} /\ Columns \cap Indexes = {}
    /\ TableOf \in [Items -> Tables] /\ \A t \in Tables : TableOf[t] = t
    /\ References \in [Tables -> SUBSET Tables]
    /\ TablePatches \subseteq Tables /\ \A i \in Indexes : TableOf[i] \in TablePatches
    /\ Plan \in Seq(Looks) /\ MaxFails \in Nat
    /\ \A i, j \in DOMAIN Plan : i < j /\ Plan[j].kind = "table" => Plan[i].kind = "table"
    /\ \A t \in TablePatches : \E i \in DOMAIN Plan : Plan[i] = [kind |-> "table", of |-> t]
    /\ \A c \in Columns : \E i \in DOMAIN Plan : Plan[i] = [kind |-> "columns", of |-> TableOf[c]]
    /\ \A c \in Indexes : \E i \in DOMAIN Plan : Plan[i] = [kind |-> "indexes", of |-> TableOf[c]]
    /\ \A i \in DOMAIN Plan : Plan[i].kind = "table" => Plan[i].of \in TablePatches

VARIABLES
    place,   \* of the database
    schema,  \* what is committed of it
    boot,    \* where each process is: see Boot
    fails    \* errors so far
vars == <<place, schema, boot, fails>>

Places == {"production", "postgresql", "sqlite"}

\* "create" is create_all, "look" and "alter" ensure_runtime_schema, "verify"
\* validate_production_schema; "up" is an API that serves, or a worker whose last
\* cycle found its schema in order.  missing is what it saw missing and has not
\* altered (or read) yet, own what its open transaction has made.
Boot == [pc : {"down", "create", "look", "alter", "verify", "up"}, at : Nat \ {0},
         missing : SUBSET Items, own : SUBSET Items]
Down == [pc |-> "down", at |-> 1, missing |-> {}, own |-> {}]

Of(t, S) == {i \in S : TableOf[i] = t}

\* A schema an earlier release left: some tables, with all their columns or none.
Init ==
    /\ place \in Places /\ fails = 0
    /\ \E S \in SUBSET Tables, New \in SUBSET Tables :
        /\ New \subseteq S /\ \A t \in S : References[t] \subseteq S
        /\ schema = S \cup UNION {Of(t, Columns) : t \in New}
    /\ boot = [p \in Starters |-> Down]

\* What exists for a connection of p inside its transaction.
Seen(p) == schema \cup boot[p].own

\* A statement creates a table with its columns; the patched indexes belong to
\* neither the models nor the tables' own patches.
Made(i) == IF i \in Tables THEN {i} \cup Of(i, Columns) ELSE {i}

\* A foreign key locks the table it refers to as well.
Locks(i) == {TableOf[i]} \cup IF i \in Tables THEN References[i] ELSE {}

Waits(p, i) ==
    /\ place = "postgresql"
    /\ \E q \in Starters \ {p} : \E j \in boot[q].own : Locks(i) \cap Locks(j) # {}

\* The table, column or index is there already, or refers to a table that is not.
Refused(p, i) ==
    \/ i \in Seen(p)
    \/ place = "postgresql" /\ i \in Tables /\ ~(References[i] \subseteq Seen(p) \cup {i})

-----------------------------------------------------------------------------
Set(p, b) == boot' = [boot EXCEPT ![p] = b]

\* The transaction is rolled back: an API does not start, a worker reports its
\* schema check as failed and looks again in its next cycle.
Abandon(p) == Set(p, Down) /\ UNCHANGED <<place, schema>>

\* _create_tables_if_needed, _ensure_worker_schema
Start(p) ==
    /\ boot[p].pc = "down"
    /\ Set(p, IF place = "production" THEN [Down EXCEPT !.pc = "verify", !.missing = Items]
              ELSE IF p \in Apis THEN [Down EXCEPT !.pc = "create", !.missing = Tables \ schema]
              ELSE [Down EXCEPT !.pc = "look"])
    /\ UNCHANGED <<place, schema, fails>>

\* conn.execute(text(ddl)), or a CREATE TABLE of create_all
Execute(p, i, next) ==
    /\ ~Waits(p, i)
    /\ IF Refused(p, i) THEN Abandon(p)
       ELSE /\ IF place = "sqlite"
               THEN schema' = schema \cup Made(i) /\ Set(p, next)
               ELSE Set(p, [next EXCEPT !.own = @ \cup Made(i)]) /\ UNCHANGED schema
            /\ UNCHANGED place
    /\ UNCHANGED fails

\* create_all: referred tables first, all in one transaction
Create(p) ==
    /\ boot[p].pc = "create"
    /\ \E t \in boot[p].missing :
        /\ (References[t] \ {t}) \cap boot[p].missing = {}
        /\ Execute(p, t, [boot[p] EXCEPT !.missing = @ \ {t}])

Created(p) ==
    /\ boot[p].pc = "create" /\ boot[p].missing = {}
    /\ schema' = Seen(p) /\ Set(p, [Down EXCEPT !.pc = "look"])
    /\ UNCHANGED <<place, fails>>

\* Tables are looked for from outside the transaction.  Columns and indexes too,
\* but the table itself from inside: one that this transaction has created is
\* there and cannot be read (NoSuchTableError).
Missing(look) ==
    CASE look.kind = "table" -> {look.of} \ schema
      [] look.kind = "columns" -> Of(look.of, Columns) \ schema
      [] look.kind = "indexes" -> Of(look.of, Indexes) \ schema

\* Mutant: looked for from outside the transaction, as the tables before.
SkippedOutside(p, look) == look.kind # "table" /\ look.of \notin schema

Skipped(p, look) == look.kind # "table" /\ look.of \notin Seen(p)
Unreadable(p, look) == look.kind # "table" /\ look.of \in boot[p].own \ schema

Look(p) ==
    /\ boot[p].pc = "look" /\ boot[p].at <= Len(Plan)
    /\ LET look == Plan[boot[p].at] IN
        Set(p, IF Skipped(p, look) THEN [boot[p] EXCEPT !.at = @ + 1]
               ELSE IF Unreadable(p, look) THEN Down
               ELSE IF Missing(look) = {} THEN [boot[p] EXCEPT !.at = @ + 1]
               ELSE [boot[p] EXCEPT !.pc = "alter", !.missing = Missing(look)])
    /\ UNCHANGED <<place, schema, fails>>

\* The missing ones of a look, one statement each.
Altered(b, i) ==
    IF b.missing = {i} THEN [b EXCEPT !.pc = "look", !.at = @ + 1, !.missing = {}]
    ELSE [b EXCEPT !.missing = @ \ {i}]

Alter(p) ==
    /\ boot[p].pc = "alter"
    /\ \E i \in boot[p].missing : Execute(p, i, Altered(boot[p], i))

Finish(p) ==
    /\ boot[p].pc = "look" /\ boot[p].at > Len(Plan)
    /\ schema' = Seen(p) /\ Set(p, [Down EXCEPT !.pc = "up"])
    /\ UNCHANGED <<place, fails>>

\* validate_production_schema reads the catalogue part by part.
Verify(p) ==
    /\ boot[p].pc = "verify"
    /\ \E i \in boot[p].missing :
        IF i \in schema THEN Set(p, [boot[p] EXCEPT !.missing = @ \ {i}]) ELSE Set(p, Down)
    /\ UNCHANGED <<place, schema, fails>>

Verified(p) ==
    /\ boot[p].pc = "verify" /\ boot[p].missing = {}
    /\ Set(p, [Down EXCEPT !.pc = "up"])
    /\ UNCHANGED <<place, schema, fails>>

\* A restart of the API, the next cycle of the worker.
Restart(p) ==
    /\ boot[p].pc = "up" /\ Set(p, Down)
    /\ UNCHANGED <<place, schema, fails>>

\* The process dies, its connection does, or PostgreSQL breaks a deadlock with it.
Fail(p) ==
    /\ boot[p].pc \notin {"down", "up"} /\ fails < MaxFails
    /\ fails' = fails + 1 /\ Abandon(p)

\* The operators' migrations, which only add.
Migrate(i) ==
    /\ place = "production" /\ i \notin schema
    /\ TableOf[i] \in schema \cup {i}
    /\ schema' = schema \cup {i}
    /\ UNCHANGED <<place, boot, fails>>

Next ==
    \/ \E p \in Starters : Start(p) \/ Create(p) \/ Created(p) \/ Look(p) \/ Alter(p) \/ Finish(p)
                            \/ Verify(p) \/ Verified(p) \/ Restart(p) \/ Fail(p)
    \/ \E i \in Items : Migrate(i)

Spec == Init /\ [][Next]_vars

-----------------------------------------------------------------------------
TypeOK ==
    /\ place \in Places /\ schema \subseteq Items /\ fails \in 0..MaxFails
    /\ boot \in [Starters -> Boot]

\* Nothing that the code is to add to an older table is left out of one that exists.
Patched == \A t \in Tables \cap schema : Of(t, Parts) \subseteq schema

\* A process that serves, or whose schema check ended well, has a schema it can
\* work with, whoever altered it meanwhile and wherever its transactions failed:
\* in production the contract's, elsewhere the API every table of the models and
\* both every patched part of the tables there are (_create_tables_if_needed,
\* _ensure_worker_schema).
StartedIsComplete ==
    \A p \in Starters : boot[p].pc = "up" =>
        IF place = "production" THEN Items \subseteq schema
        ELSE Patched /\ TablePatches \subseteq schema /\ (p \in Apis => Tables \subseteq schema)
=============================================================================
