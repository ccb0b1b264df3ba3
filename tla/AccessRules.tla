---------------------------- MODULE AccessRules ----------------------------
(***************************************************************************)
(* The entitlement rules of app/services/access_service.py, as operators   *)
(* on one row of the `users` table.  Time is counted in days, which is the *)
(* granularity of every duration the service uses.                         *)
(***************************************************************************)
EXTENDS Integers

CONSTANTS
    TrialDays,      \* INITIAL_TRIAL_DAYS = POST_LAUNCH_TRIAL_DAYS (30 by default)
    MonthDays,      \* MONTHLY_PLAN_DAYS (31)
    AnnualDays,     \* ANNUAL_PLAN_DAYS (365)
    Subs,           \* Stripe subscription identifiers
    Custs,          \* Stripe customer identifiers
    None            \* SQL NULL / Python None in an identifier column

ASSUME DaysAssumption ==
    /\ TrialDays \in Nat \ {0}
    /\ MonthDays \in Nat \ {0}
    /\ AnnualDays \in Nat \ {0}
    /\ MonthDays <= AnnualDays

ASSUME NoneAssumption == None \notin Subs \cup Custs

\* NULL in a date column.
NoDay == -1

Channels == {"app", "web", "telegram"}
PaidPlans == {"premium", "enterprise"}
Products == {"monthly", "annual"}

Plans == {"none", "trial", "free", "expired"} \cup PaidPlans
Statuses == {"none", "trialing", "active", "inactive", "trial_ended",
             "premium_expired", "premium_inactive"}

\* A row of `users`, as far as entitlement goes; plan "none": there is no row.
Row == [plan : Plans, status : Statuses,
        trialEnd : Nat \cup {NoDay}, planEnd : Nat \cup {NoDay},
        access : SUBSET Channels, enabled : BOOLEAN,
        cust : Custs \cup {None}, sub : Subs \cup {None}]

Absent == [plan |-> "none", status |-> "none", trialEnd |-> NoDay,
           planEnd |-> NoDay, access |-> {}, enabled |-> TRUE,
           cust |-> None, sub |-> None]

DefaultPlanDays(product) ==
    IF product = "annual" THEN AnnualDays ELSE MonthDays

GrantTrialAccess(row, today) ==
    [row EXCEPT !.plan = "trial", !.status = "trialing",
                !.trialEnd = IF @ = NoDay THEN today + TrialDays ELSE @,
                !.access = Channels]

\* Mutant: the plan itself is not reset.
DowngradeKeepsPlan(row, reason) ==
    [row EXCEPT !.status = reason, !.planEnd = NoDay, !.access = {"app"}]

DowngradeToFree(row, reason) ==
    [row EXCEPT !.plan = "free", !.status = reason, !.planEnd = NoDay,
                !.access = {"app"}]

ExpireAccess(row, reason) ==
    [row EXCEPT !.plan = "expired", !.status = reason, !.access = {}]

\* Mutant: a new period is stacked on the running one.
ActivateStacking(row, product, today) ==
    [row EXCEPT !.plan = "premium", !.status = "active",
                !.planEnd = (IF @ = NoDay THEN today ELSE @) + DefaultPlanDays(product),
                !.trialEnd = NoDay,
                !.access = Channels]

\* A running plan keeps its end: only a missing or past one is replaced.
ActivateSubscription(row, product, today) ==
    [row EXCEPT !.plan = "premium", !.status = "active",
                !.planEnd = IF @ = NoDay \/ @ < today
                            THEN today + DefaultPlanDays(product) ELSE @,
                !.trialEnd = NoDay,
                !.access = Channels]

TrialOver(row, today) ==
    row.plan = "trial" /\ row.trialEnd # NoDay /\ today > row.trialEnd

PremiumOver(row, today) ==
    row.plan \in PaidPlans /\ row.planEnd # NoDay /\ today > row.planEnd

\* refresh_user_access: the lazy normalisation every authenticated request runs.
RefreshUserAccess(row, today) ==
    CASE ~row.enabled             -> ExpireAccess(row, "inactive")
      [] row.enabled /\ TrialOver(row, today)
                                  -> DowngradeToFree(row, "trial_ended")
      [] row.enabled /\ PremiumOver(row, today)
                                  -> DowngradeToFree(row, "premium_expired")
      [] row.enabled /\ row.plan \in PaidPlans /\ ~PremiumOver(row, today)
                                  -> [row EXCEPT !.status = "active", !.access = Channels]
      [] row.enabled /\ row.plan = "trial" /\ ~TrialOver(row, today)
                                  -> [row EXCEPT !.status = "trialing", !.access = Channels]
      [] row.enabled /\ row.plan = "free"
                                  -> [row EXCEPT !.status = "active", !.access = {"app"}]
      [] OTHER                    -> row

\* referrals._is_paid_active
IsPaidActive(row, today) ==
    /\ row.plan \in PaidPlans
    /\ row.status \in {"active", "trialing"}
    /\ row.planEnd = NoDay \/ row.planEnd > today

(***************************************************************************)
(* An ORM session flushes only the columns whose value differs from the    *)
(* one it loaded: `mine` was loaded as `base`, the table now holds `db`.   *)
(***************************************************************************)
\* Mutant: the whole row is written back.
FlushWholeRow(db, base, mine) == mine

FlushRow(db, base, mine) ==
    [f \in DOMAIN db |-> IF mine[f] # base[f] THEN mine[f] ELSE db[f]]
=============================================================================
