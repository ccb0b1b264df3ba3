------------------------------ MODULE Billing ------------------------------
(***************************************************************************)
(* Subscriptions: the Stripe webhook (app/api/stripe_webhook.py), the      *)
(* request paths that normalise or cancel a user's access                  *)
(* (app/dependencies.py, app/auth.py) and the referral worker (main.py),   *)
(* all writing the same `users`, `referrals`, `referral_stats` and         *)
(* `subscription_audit_logs` tables through sessions of their own.         *)
(*                                                                         *)
(* A session reads, computes on its private copy and writes at commit:     *)
(* reading and committing are separate actions, and everything another     *)
(* session commits in between is visible only where the code reads again.  *)
(* A commit, and the statements that run under the row locks it releases,  *)
(* are one action.                                                         *)
(***************************************************************************)
EXTENDS ReferralRules, FiniteSets, Sequences

CONSTANTS
    Users,
    Code,           \* Code[u]: the user whose referral code u signs up with, or None
    Hooks,          \* concurrent webhook requests
    Procs,          \* API processes
    Proc,           \* Proc[h]: the process that serves request h
    Workers,        \* referral workers (START_REFERRAL_WORKER)
    Reqs,           \* concurrent API requests of signed-in users
    UniqueIndex,    \* TRUE once scripts/migrations/0001 has been applied
    Purchases,      \* what may be bought at Stripe: [sub, user, cust, product, state]
    Expanded,       \* subset of BOOLEAN: may the payload embed the subscription?
    Sound,          \* subset of BOOLEAN: may the payload pass the static checks?
    Managed,        \* users whose is_active flag an operator toggles in the database
    MaxEvents,      \* bound on the events Stripe creates
    MaxAudit,       \* bound on the audit log (the requests append to it too)
    MaxDay          \* bound on the clock

ASSUME BillingAssumption ==
    /\ IsFiniteSet(Users) /\ None \notin Users
    /\ Code \in [Users -> Users \cup {None}]
    /\ Proc \in [Hooks -> Procs]
    /\ Hooks \cap Workers = {}
    /\ UniqueIndex \in BOOLEAN
    /\ Purchases \subseteq [sub : Subs, user : Users, cust : Custs, product : Products,
                            state : {"active", "trialing"}]
    /\ Managed \subseteq Users
    /\ Expanded \subseteq BOOLEAN
    /\ Sound \subseteq BOOLEAN
    /\ MaxEvents \in Nat /\ MaxAudit \in Nat /\ MaxDay \in Nat

VARIABLES
    now,        \* the day
    rows,       \* table users
    referral,   \* table referrals, by referred user
    stats,      \* table referral_stats, by referrer
    audit,      \* table subscription_audit_logs, in commit order
    sub,        \* Stripe: the subscriptions
    events,     \* Stripe: the events created so far; an event's id is its index
    hook,       \* the webhook requests
    scan,       \* the referrals each open transaction has locked and validated
    worker,     \* the referral workers
    req         \* the API requests

vars == <<now, rows, referral, stats, audit, sub, events, hook, scan, worker, req>>

Activations == {"checkout.session.completed", "invoice.payment_succeeded"}
Downgrades == {"customer.subscription.deleted", "invoice.payment_failed"}
OtherEvents == {"customer.updated"}
PaymentEvents == Activations \cup {"subscription_sync"}

AuditTypes == Activations \cup Downgrades \cup OtherEvents \cup {"subscription_sync"}

SubStates == {"none", "active", "trialing", "past_due", "canceled"}
AllowedSubStates == {"active", "trialing"}

Event == [type : Activations \cup Downgrades \cup OtherEvents,
          meta : Users \cup {None}, sub : Subs, cust : Custs, product : Products,
          inline : SubStates,   \* the embedded status, "none" when not embedded
          ok : BOOLEAN]         \* livemode, product, amount and mode checks pass

\* event 0: the row was not written for a Stripe event.
AuditRow == [event : Nat, user : Users \cup {None}, type : AuditTypes,
             status : Statuses \cup {"unresolved"}, day : Nat,
             sub : Subs \cup {None}]

Referral == [referrer : Users \cup {None}, status : {"none", "pending", "validated"},
             validatedAt : Nat \cup {NoDay}]

NoReferral == [referrer |-> None, status |-> "none", validatedAt |-> NoDay]

Hook == [stage : {"idle", "received", "verified", "open"}, event : Nat,
         user : Users \cup {None}, base : Row, row : Row]

IdleHook == [stage |-> "idle", event |-> 0, user |-> None, base |-> Absent, row |-> Absent]

Scan == [locked : SUBSET Users, qualified : SUBSET Users]

NoScan == [locked |-> {}, qualified |-> {}]

Req == [kind : {"idle", "refresh", "sync"}, user : Users \cup {None}, base : Row, row : Row]

IdleReq == [kind |-> "idle", user |-> None, base |-> Absent, row |-> Absent]

Init ==
    /\ now = 0
    /\ rows = [u \in Users |-> Absent]
    /\ referral = [u \in Users |-> NoReferral]
    /\ stats = [u \in Users |-> NoStats]
    /\ audit = <<>>
    /\ sub = [s \in Subs |-> [state |-> "none", user |-> None, cust |-> None,
                               product |-> "monthly"]]
    /\ events = <<>>
    /\ hook = [h \in Hooks |-> IdleHook]
    /\ scan = [a \in Hooks \cup Workers |-> NoScan]
    /\ worker = [w \in Workers |-> "idle"]
    /\ req = [r \in Reqs |-> IdleReq]

-----------------------------------------------------------------------------
(* Reads of the committed tables. *)

Registered(u) == rows[u].plan # "none"

\* _stripe_event_already_processed
Processed(e) == \E i \in 1..Len(audit) : audit[i].event = e

PaidDays(u) ==
    {audit[i].day : i \in {j \in 1..Len(audit) :
        /\ audit[j].user = u
        /\ audit[j].status = "active"
        /\ audit[j].type \in PaymentEvents}}

\* _first_paid_at
FirstPaid(u) ==
    IF PaidDays(u) = {} THEN NoDay
    ELSE CHOOSE d \in PaidDays(u) : \A x \in PaidDays(u) : d <= x

Validated(f) == {r \in Users : /\ referral[r].referrer = f
                               /\ referral[r].status = "validated"}

\* Rows another transaction holds FOR UPDATE are skipped.
Unlocked(a) ==
    {r \in Users : /\ referral[r].status = "pending"
                   /\ \A b \in DOMAIN scan \ {a} : r \notin scan[b].locked}

(***************************************************************************)
(* The webhook body between its second lock and its commit contains no     *)
(* await, and takes the process-wide _STRIPE_WEBHOOK_LOCK.                 *)
(***************************************************************************)
LockFree(h) == \A k \in Hooks : Proc[k] = Proc[h] => hook[k].stage # "open"

-----------------------------------------------------------------------------
(* Sign-up, the clock, and Stripe. *)

Register(u) ==
    /\ ~Registered(u)
    /\ rows' = [rows EXCEPT ![u] = GrantTrialAccess(@, now)]
    /\ referral' = IF Code[u] # None /\ Code[u] # u /\ Registered(Code[u])
                   THEN [referral EXCEPT ![u] = [referrer |-> Code[u], status |-> "pending",
                                                 validatedAt |-> NoDay]]
                   ELSE referral
    /\ UNCHANGED <<now, stats, audit, sub, events, hook, scan, worker, req>>

\* is_active is a column no code path writes; refresh_user_access obeys it.
SetEnabled(u) ==
    /\ u \in Managed /\ Registered(u)
    /\ rows' = [rows EXCEPT ![u].enabled = ~@]
    /\ UNCHANGED <<now, referral, stats, audit, sub, events, hook, scan, worker, req>>

\* No transaction lasts a day.
Tick ==
    /\ now < MaxDay
    /\ \A h \in Hooks : hook[h].stage # "open"
    /\ \A w \in Workers : worker[w] = "idle"
    /\ \A r \in Reqs : req[r].kind = "idle"
    /\ now' = now + 1
    /\ UNCHANGED <<rows, referral, stats, audit, sub, events, hook, scan, worker, req>>

\* Stripe creates an event about subscription s, as the API version of its day renders it.
Emit(type, s, state, meta, expanded, ok) ==
    events' = Append(events,
        [type |-> type, meta |-> meta, sub |-> s, cust |-> sub'[s].cust,
         product |-> sub'[s].product,
         inline |-> IF expanded THEN state ELSE "none", ok |-> ok])

StripeSubscribe(p) ==
    /\ Len(events) < MaxEvents
    /\ sub[p.sub].state = "none"
    /\ Registered(p.user)
    /\ sub' = [sub EXCEPT ![p.sub] = [state |-> p.state, user |-> p.user,
                                      cust |-> p.cust, product |-> p.product]]
    /\ \E expanded \in Expanded, ok \in Sound :
           Emit("checkout.session.completed", p.sub, p.state, p.user, expanded, ok)
    /\ UNCHANGED <<now, rows, referral, stats, audit, hook, scan, worker, req>>

\* A later event of a running subscription: paid, unpaid, ended, or merely updated.
StripeAdvance(s, type, state) ==
    /\ Len(events) < MaxEvents
    /\ sub[s].state \in {"active", "trialing", "past_due"}
    /\ sub' = [sub EXCEPT ![s].state = state]
    /\ \E expanded \in Expanded, ok \in Sound : Emit(type, s, state, None, expanded, ok)
    /\ UNCHANGED <<now, rows, referral, stats, audit, hook, scan, worker, req>>

StripeInvoice(s) == StripeAdvance(s, "invoice.payment_succeeded", "active")
StripePaymentFails(s) == StripeAdvance(s, "invoice.payment_failed", "past_due")
StripeCancel(s) == StripeAdvance(s, "customer.subscription.deleted", "canceled")
StripeUpdate(s) == StripeAdvance(s, "customer.updated", sub[s].state)

-----------------------------------------------------------------------------
(* The webhook.  Stripe delivers an event any number of times, in any order. *)

\* First duplicate check, then the await of _validate_activation_event.
HookReceive(h, e) ==
    /\ hook[h].stage = "idle"
    /\ e \in 1..Len(events)
    /\ events[e].type \in Activations
    /\ LockFree(h)
    /\ ~Processed(e)
    /\ hook' = [hook EXCEPT ![h] = [IdleHook EXCEPT !.stage = "received", !.event = e]]
    /\ UNCHANGED <<now, rows, referral, stats, audit, sub, events, scan, worker, req>>

\* The embedded status wins; otherwise Stripe is asked for the current one.
SubscriptionStatus(ev) == IF ev.inline # "none" THEN ev.inline ELSE sub[ev.sub].state

HookVerify(h) ==
    /\ hook[h].stage = "received"
    /\ LET ev == events[hook[h].event] IN
           hook' = [hook EXCEPT ![h] =
               IF ev.ok /\ SubscriptionStatus(ev) \in AllowedSubStates
               THEN [@ EXCEPT !.stage = "verified"]
               ELSE IdleHook]
    /\ UNCHANGED <<now, rows, referral, stats, audit, sub, events, scan, worker, req>>

\* Mutant: the owner is looked up by the metadata only.
ResolveByMeta(ev) == {u \in Users : u = ev.meta /\ Registered(u)}

\* _resolve_user: the users .first() may return, none when the event is unresolved.
Resolve(ev) ==
    LET byMeta == {u \in Users : u = ev.meta /\ Registered(u)}
        bySub  == {u \in Users : rows[u].sub = ev.sub}
        byCust == {u \in Users : rows[u].cust = ev.cust}
        order  == IF ev.type \in Downgrades THEN <<bySub, byCust, byMeta>>
                                            ELSE <<byMeta, bySub, byCust>>
    IN  IF order[1] # {} THEN order[1]
        ELSE IF order[2] # {} THEN order[2] ELSE order[3]

\* Mutant: only the user's own identifiers are compared.
MayActivateOwnOnly(u, ev) ==
    rows[u].cust \in {None, ev.cust} /\ rows[u].sub \in {None, ev.sub}

\* _ensure_customer_ownership
MayActivate(u, ev) ==
    /\ \A v \in Users \ {u} : rows[v].cust # ev.cust /\ rows[v].sub # ev.sub
    /\ rows[u].cust \in {None, ev.cust}
    /\ rows[u].sub \in {None, ev.sub}

\* _ensure_downgrade_event_ownership
MayDowngrade(u, ev) ==
    /\ rows[u].cust \in {None, ev.cust}
    /\ rows[u].sub = ev.sub

Activated(row, ev) ==
    [ActivateSubscription(row, ev.product, now) EXCEPT !.cust = ev.cust, !.sub = ev.sub]

\* Mutant: only the referrals of paying referrers are validated.
ScanPaidReferrers(a, seen) ==
    [locked |-> Unlocked(a),
     qualified |-> {r \in Unlocked(a) :
                       /\ Qualifies(seen[r], FirstPaid(r), now)
                       /\ IsPaidActive(seen[referral[r].referrer], now)}]

\* The referral rows a transaction locks, and the ones it marks validated;
\* `seen` is the session's own view of the users.
ScanReferrals(a, seen) ==
    [locked |-> Unlocked(a),
     qualified |-> {r \in Unlocked(a) : Qualifies(seen[r], FirstPaid(r), now)}]

\* Mutant: no second duplicate check.
AtLockUnchecked(h, e) ==
    /\ LockFree(h)
    /\ e \in 1..Len(events)
    /\ \/ hook[h].stage = "verified" /\ hook[h].event = e
       \/ hook[h].stage = "idle" /\ events[e].type \notin Activations

\* The request that enters the second locked section with event e.
AtLock(h, e) ==
    /\ LockFree(h)
    /\ e \in 1..Len(events)
    /\ \/ hook[h].stage = "verified" /\ hook[h].event = e
       \/ hook[h].stage = "idle" /\ events[e].type \notin Activations
    /\ ~Processed(e)

HookActivate(h, e) ==
    /\ AtLock(h, e)
    /\ events[e].type \in Activations
    /\ \E u \in Resolve(events[e]) :
        /\ MayActivate(u, events[e])
        /\ LET row == Activated(rows[u], events[e]) IN
            /\ hook' = [hook EXCEPT ![h] = [stage |-> "open", event |-> e, user |-> u,
                                            base |-> rows[u], row |-> row]]
            /\ scan' = [scan EXCEPT ![h] = ScanReferrals(h, [rows EXCEPT ![u] = row])]
    /\ UNCHANGED <<now, rows, referral, stats, audit, sub, events, worker, req>>

HookDowngrade(h, e) ==
    /\ AtLock(h, e)
    /\ events[e].type \in Downgrades
    /\ events[e].ok
    /\ \E u \in Resolve(events[e]) :
        /\ MayDowngrade(u, events[e])
        /\ hook' = [hook EXCEPT ![h] = [stage |-> "open", event |-> e, user |-> u,
                        base |-> rows[u], row |-> DowngradeToFree(rows[u], "premium_inactive")]]
    /\ UNCHANGED <<now, rows, referral, stats, audit, sub, events, scan, worker, req>>

\* Any other event is only written to the audit log.
HookNote(h, e) ==
    /\ AtLock(h, e)
    /\ events[e].type \in OtherEvents
    /\ \E u \in Users \cup {None} :
        /\ IF Resolve(events[e]) = {} THEN u = None ELSE u \in Resolve(events[e])
        /\ LET row == IF u = None THEN Absent ELSE rows[u] IN
               hook' = [hook EXCEPT ![h] = [stage |-> "open", event |-> e, user |-> u,
                                            base |-> row, row |-> row]]
    /\ UNCHANGED <<now, rows, referral, stats, audit, sub, events, scan, worker, req>>

\* Answers that leave the tables alone: a duplicate, an unresolved user, a
\* refused owner, an unreachable Stripe, a failing database, a dying process.
HookGiveUp(h) ==
    /\ hook[h].stage # "idle"
    /\ hook' = [hook EXCEPT ![h] = IdleHook]
    /\ scan' = [scan EXCEPT ![h] = NoScan]
    /\ UNCHANGED <<now, rows, referral, stats, audit, sub, events, worker, req>>

-----------------------------------------------------------------------------
(* The end of apply_referral_validation, and the commit around it. *)

Touched(a) == {referral[r].referrer : r \in scan[a].qualified}

(***************************************************************************)
(* _lock_referrers_for_update reads the referrers again (populate_existing)*)
(* and so drops what the session had changed on them; _sync_referrer_stats *)
(* then queries the referrals, and the session does not flush before a     *)
(* query (autoflush=False): the ones just validated are not counted.       *)
(***************************************************************************)
MonthsFor(f) == NewMonths(stats[f], Cardinality(Validated(f)), rows[f], now)

CommitReferrals(a, seen) ==
    /\ referral' = [r \in Users |->
           IF r \in scan[a].qualified
           THEN [referral[r] EXCEPT !.status = "validated", !.validatedAt = now]
           ELSE referral[r]]
    /\ stats' = [f \in Users |->
           IF f \in Touched(a)
           THEN SyncStats(stats[f], Cardinality(Validated(f)),
                          Cardinality({r \in Validated(f) : IsPaidActive(seen[r], now)}),
                          MonthsFor(f))
           ELSE stats[f]]
    /\ scan' = [scan EXCEPT ![a] = NoScan]

HookAudit(h) ==
    [event |-> hook[h].event, user |-> hook[h].user,
     type |-> events[hook[h].event].type,
     status |-> IF hook[h].user = None THEN "unresolved" ELSE hook[h].row.status,
     day |-> now, sub |-> events[hook[h].event].sub]

\* The session's view of the users when it commits.
SessionView(h) ==
    [u \in Users |-> IF u = hook[h].user /\ u \notin Touched(h)
                     THEN FlushRow(rows[u], hook[h].base, hook[h].row)
                     ELSE rows[u]]

\* The database refuses a second audit row for the event (IntegrityError).
Conflicts(h) == UniqueIndex /\ Processed(hook[h].event)

HookCommit(h) ==
    /\ hook[h].stage = "open"
    /\ ~Conflicts(h)
    /\ Len(audit) < MaxAudit
    /\ rows' = [u \in Users |->
           IF u \in Touched(h) THEN RewardRow(rows[u], MonthsFor(u), now)
                               ELSE SessionView(h)[u]]
    /\ CommitReferrals(h, SessionView(h))
    /\ audit' = Append(audit, HookAudit(h))
    /\ hook' = [hook EXCEPT ![h] = IdleHook]
    /\ UNCHANGED <<now, sub, events, worker, req>>

-----------------------------------------------------------------------------
(* validate_referrals, run by the hourly referral worker. *)

WorkerScan(w) ==
    /\ worker[w] = "idle"
    /\ worker' = [worker EXCEPT ![w] = "open"]
    /\ scan' = [scan EXCEPT ![w] = ScanReferrals(w, rows)]
    /\ UNCHANGED <<now, rows, referral, stats, audit, sub, events, hook, req>>

WorkerCommit(w) ==
    /\ worker[w] = "open"
    /\ rows' = [u \in Users |->
           IF u \in Touched(w) THEN RewardRow(rows[u], MonthsFor(u), now) ELSE rows[u]]
    /\ CommitReferrals(w, rows)
    /\ worker' = [worker EXCEPT ![w] = "idle"]
    /\ UNCHANGED <<now, audit, sub, events, hook, req>>

WorkerRollback(w) ==
    /\ worker[w] = "open"
    /\ scan' = [scan EXCEPT ![w] = NoScan]
    /\ worker' = [worker EXCEPT ![w] = "idle"]
    /\ UNCHANGED <<now, rows, referral, stats, audit, sub, events, hook, req>>

-----------------------------------------------------------------------------
(* Requests of signed-in users. *)

\* _refresh_and_touch_user_access: nothing is written unless access changes.
ReqRefresh(r, u) ==
    /\ req[r].kind = "idle"
    /\ Registered(u)
    /\ RefreshUserAccess(rows[u], now) # rows[u]
    /\ req' = [req EXCEPT ![r] = [kind |-> "refresh", user |-> u, base |-> rows[u],
                                  row |-> RefreshUserAccess(rows[u], now)]]
    /\ UNCHANGED <<now, rows, referral, stats, audit, sub, events, hook, scan, worker>>

\* POST /auth/subscription/sync, which only ever takes access away.
ReqSync(r, u) ==
    /\ req[r].kind = "idle"
    /\ Registered(u)
    /\ req' = [req EXCEPT ![r] = [kind |-> "sync", user |-> u, base |-> rows[u],
                                  row |-> DowngradeToFree(rows[u], "premium_inactive")]]
    /\ UNCHANGED <<now, rows, referral, stats, audit, sub, events, hook, scan, worker>>

ReqCommit(r) ==
    /\ req[r].kind # "idle"
    /\ LET u == req[r].user IN
        /\ rows' = [rows EXCEPT ![u] = FlushRow(@, req[r].base, req[r].row)]
        /\ \/ req[r].kind = "refresh" /\ audit' = audit
           \/ /\ req[r].kind = "sync"
              /\ Len(audit) < MaxAudit
              /\ audit' = Append(audit, [event |-> 0, user |-> u, type |-> "subscription_sync",
                                         status |-> req[r].row.status, day |-> now,
                                         sub |-> None])
    /\ req' = [req EXCEPT ![r] = IdleReq]
    /\ UNCHANGED <<now, referral, stats, sub, events, hook, scan, worker>>

\* A request may also fail before its commit.
ReqGiveUp(r) ==
    /\ req[r].kind # "idle"
    /\ req' = [req EXCEPT ![r] = IdleReq]
    /\ UNCHANGED <<now, rows, referral, stats, audit, sub, events, hook, scan, worker>>

-----------------------------------------------------------------------------
Stripe ==
    \/ \E p \in Purchases : StripeSubscribe(p)
    \/ \E s \in Subs : \/ StripeInvoice(s)
                       \/ StripePaymentFails(s)
                       \/ StripeCancel(s)
                       \/ StripeUpdate(s)

Webhook(h) ==
    \/ \E e \in 1..MaxEvents : \/ HookReceive(h, e)
                               \/ HookActivate(h, e)
                               \/ HookDowngrade(h, e)
                               \/ HookNote(h, e)
    \/ HookVerify(h)
    \/ HookCommit(h)
    \/ HookGiveUp(h)

Request(r) ==
    \/ \E u \in Users : ReqRefresh(r, u) \/ ReqSync(r, u)
    \/ ReqCommit(r)
    \/ ReqGiveUp(r)

Next ==
    \/ Tick
    \/ \E u \in Users : Register(u) \/ SetEnabled(u)
    \/ Stripe
    \/ \E h \in Hooks : Webhook(h)
    \/ \E w \in Workers : WorkerScan(w) \/ WorkerCommit(w) \/ WorkerRollback(w)
    \/ \E r \in Reqs : Request(r)

Spec == Init /\ [][Next]_vars

-----------------------------------------------------------------------------
TypeOK ==
    /\ now \in Nat
    /\ rows \in [Users -> Row]
    /\ referral \in [Users -> Referral]
    /\ stats \in [Users -> Stats]
    /\ audit \in Seq(AuditRow)
    /\ sub \in [Subs -> [state : SubStates, user : Users \cup {None},
                         cust : Custs \cup {None}, product : Products]]
    /\ events \in Seq(Event)
    /\ hook \in [Hooks -> Hook]
    /\ scan \in [Hooks \cup Workers -> Scan]
    /\ worker \in [Workers -> {"idle", "open"}]
    /\ req \in [Reqs -> Req]

\* However often Stripe delivers an event, and whatever runs concurrently, it
\* changes the tables once (docs/mission_31d: replay, and replay across processes).
EventOnce ==
    \A i, j \in 1..Len(audit) :
        audit[i].event = audit[j].event /\ audit[i].event # 0 => i = j

\* No two accounts live on one Stripe subscription or customer: the columns have
\* no unique constraint, only the webhook's own check keeps them apart.
SubscriptionOwnedOnce ==
    \A u, v \in Users : u # v =>
        /\ rows[u].sub # None => rows[u].sub # rows[v].sub
        /\ rows[u].cust # None => rows[u].cust # rows[v].cust

\* Paid access rests on an activation of the user's own subscription that no
\* later cancellation or failed payment of the user has followed.
PremiumIsCurrent ==
    \A u \in Users : rows[u].plan \in PaidPlans =>
        \E i \in 1..Len(audit) :
            /\ audit[i].user = u
            /\ audit[i].type \in Activations
            /\ audit[i].sub = rows[u].sub
            /\ \A j \in (i+1)..Len(audit) :
                   audit[j].user = u => audit[j].type \notin Downgrades

\* A paid period never reaches beyond one plan length after some payment, plus
\* one month for each full group of validated referrals.
EntitlementBounded ==
    \A u \in Users : rows[u].planEnd # NoDay =>
        \E i \in 1..Len(audit) :
            /\ audit[i].user = u
            /\ audit[i].type \in Activations
            /\ rows[u].planEnd <=
                   audit[i].day + DefaultPlanDays(sub[audit[i].sub].product)
                   + RewardDays * EarnedMonths(Cardinality(Validated(u)))

\* The webhook and the worker both pay rewards; a group of referrals pays once.
RewardOnce ==
    \A u \in Users :
        /\ stats[u].balance = stats[u].level
        /\ stats[u].level <= EarnedMonths(Cardinality(Validated(u)))
        /\ stats[u].total <= Cardinality(Validated(u))

\* A user becomes a paying one only in the transaction that records the payment.
AccessIsBought ==
    [][\A u \in Users :
        rows[u].plan \notin PaidPlans /\ rows'[u].plan \in PaidPlans =>
            /\ Len(audit') = Len(audit) + 1
            /\ audit'[Len(audit')].user = u
            /\ audit'[Len(audit')].type \in Activations]_vars

-----------------------------------------------------------------------------
(***************************************************************************)
(* Fairness.  Stripe redelivers an event until it is acknowledged; a       *)
(* request that keeps being served is not always the one that fails; the   *)
(* referral worker runs every hour.                                        *)
(***************************************************************************)
Fairness ==
    /\ \A e \in 1..MaxEvents :
          /\ SF_vars(\E h \in Hooks : HookReceive(h, e))
          /\ SF_vars(\E h \in Hooks : HookActivate(h, e))
          /\ SF_vars(\E h \in Hooks : HookDowngrade(h, e))
    /\ \A h \in Hooks : SF_vars(HookVerify(h)) /\ SF_vars(HookCommit(h))
    /\ \A w \in Workers : WF_vars(WorkerScan(w)) /\ SF_vars(WorkerCommit(w))

FairSpec == Spec /\ Fairness

\* The cancellation of a subscription some account holds reaches that account,
\* however often its delivery fails and whatever else is being processed.
CancelLands ==
    \A e \in 1..MaxEvents :
        (/\ e <= Len(events)
         /\ events[e].type = "customer.subscription.deleted"
         /\ events[e].ok
         /\ \E u \in Users : rows[u].sub = events[e].sub)
        ~> Processed(e)

\* A referral that qualifies is validated although the scans skip rows that
\* other transactions have locked, unless the user stops paying first.
QualifiedIsValidated ==
    \A u \in Users :
        (referral[u].status = "pending" /\ Qualifies(rows[u], FirstPaid(u), now))
        ~> (referral[u].status = "validated" \/ ~Qualifies(rows[u], FirstPaid(u), now))

-----------------------------------------------------------------------------
(* What the tests and documents expect and the code does not keep. *)

\* The user's newest billing decision, when it is an activation.
CurrentActivation(u) ==
    {i \in 1..Len(audit) :
        /\ audit[i].user = u
        /\ audit[i].type \in Activations
        /\ \A j \in (i+1)..Len(audit) :
               audit[j].user = u => audit[j].type \in OtherEvents}

PaidUntil(i) == audit[i].day + DefaultPlanDays(sub[audit[i].sub].product)

\* Who has paid, and not cancelled since, has the paid plan
\* (tests/test_31d_atomicity_referrals.py: the plan beside the audit row).
PaidUserIsPremium ==
    \A u \in Users : \A i \in CurrentActivation(u) :
        now <= PaidUntil(i) => rows[u].plan \in PaidPlans

\* Each payment buys a whole plan length of access (PROJECT_STATUS.md, Etapa 8).
PaymentExtendsPlan ==
    \A u \in Users : \A i \in CurrentActivation(u) :
        rows[u].plan \in PaidPlans => rows[u].planEnd >= PaidUntil(i)

\* A paid plan ends by itself (PROJECT_STATUS.md, Etapa 8: automatic downgrade).
PremiumExpires ==
    \A u \in Users : rows[u].plan \in PaidPlans => rows[u].planEnd # NoDay

\* A subscription whose end is on record activates nothing any more
\* (tests/test_stripe_webhook.py: stripe_subscription_not_active).
EndedStaysEnded ==
    \A i, j \in 1..Len(audit) :
        i < j /\ audit[i].type = "customer.subscription.deleted"
              /\ audit[j].type \in Activations
        => audit[i].sub # audit[j].sub

\* A customer whose subscription has ended may buy another
\* (PROJECT_STATUS.md, Etapa 8: access follows payment).
CustomerMayReturn ==
    \A h \in Hooks : hook[h].stage = "verified" =>
        LET ev == events[hook[h].event]
            u  == ev.meta
        IN  /\ u # None
            /\ rows[u].sub # None /\ sub[rows[u].sub].state = "canceled"
            /\ rows[u].cust = ev.cust
            /\ \A v \in Users \ {u} : rows[v].cust # ev.cust /\ rows[v].sub # ev.sub
            => MayActivate(u, ev)

\* The statistics count every validated referral
\* (tests/test_referral_service.py: three validated in one run, total 3).
StatsMatchReferrals ==
    \A u \in Users : stats[u].total = Cardinality(Validated(u))
=============================================================================
