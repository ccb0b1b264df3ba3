--------------------------- MODULE BillingProofs ---------------------------
(***************************************************************************)
(* Theorems about Billing, for every number of users, requests, processes, *)
(* workers and events.                                                     *)
(***************************************************************************)
EXTENDS Billing, FiniteSetTheorems, TLAPS

-----------------------------------------------------------------------------
(* The rules keep the shape of a row. *)

LEMMA AbsentType == Absent \in Row
BY DEF Absent, Row, Plans, Statuses, NoDay, PaidPlans

LEMMA GrantType ==
    ASSUME NEW row \in Row, NEW d \in Nat
    PROVE  GrantTrialAccess(row, d) \in Row
<1> DEFINE end == IF row.trialEnd = NoDay THEN d + TrialDays ELSE row.trialEnd
<1>1. end \in Nat \cup {NoDay}
  BY DaysAssumption DEF Row
<1>2. GrantTrialAccess(row, d) = [row EXCEPT !.plan = "trial", !.status = "trialing",
                                            !.trialEnd = end, !.access = Channels]
  BY DEF GrantTrialAccess
<1> HIDE DEF end
<1> QED
  BY <1>1, <1>2 DEF Row, Plans, Statuses

LEMMA DowngradeType ==
    ASSUME NEW row \in Row, NEW reason \in Statuses
    PROVE  DowngradeToFree(row, reason) \in Row
BY DEF DowngradeToFree, Row, Plans, Channels, NoDay

LEMMA PlanDaysType ==
    ASSUME NEW product \in Products
    PROVE  DefaultPlanDays(product) \in Nat
BY DaysAssumption DEF DefaultPlanDays

LEMMA ActivateType ==
    ASSUME NEW row \in Row, NEW product \in Products, NEW d \in Nat
    PROVE  ActivateSubscription(row, product, d) \in Row
<1> DEFINE end == IF row.planEnd = NoDay \/ row.planEnd < d
                  THEN d + DefaultPlanDays(product) ELSE row.planEnd
<1>1. end \in Nat \cup {NoDay}
  BY PlanDaysType DEF Row
<1>2. ActivateSubscription(row, product, d) =
        [row EXCEPT !.plan = "premium", !.status = "active", !.planEnd = end,
                    !.trialEnd = NoDay, !.access = Channels]
  BY DEF ActivateSubscription
<1> HIDE DEF end
<1> QED
  BY <1>1, <1>2 DEF Row, Plans, Statuses, PaidPlans

LEMMA RefreshType ==
    ASSUME NEW row \in Row, NEW d \in Nat
    PROVE  RefreshUserAccess(row, d) \in Row
<1>1. CASE ~row.enabled
  BY <1>1 DEF RefreshUserAccess, ExpireAccess, Row, Plans, Statuses
<1>2. CASE row.enabled /\ TrialOver(row, d)
  BY <1>2, DowngradeType DEF RefreshUserAccess, Statuses, TrialOver, PremiumOver, PaidPlans
<1>3. CASE row.enabled /\ PremiumOver(row, d)
  BY <1>3, DowngradeType DEF RefreshUserAccess, Statuses, TrialOver, PremiumOver, PaidPlans
<1>4. CASE row.enabled /\ row.plan \in PaidPlans /\ ~PremiumOver(row, d)
  <2>1. RefreshUserAccess(row, d) = [row EXCEPT !.status = "active", !.access = Channels]
    BY <1>4 DEF RefreshUserAccess, TrialOver, PaidPlans
  <2> QED
    BY <2>1 DEF Row, Statuses
<1>5. CASE row.enabled /\ row.plan = "trial" /\ ~TrialOver(row, d)
  <2>1. RefreshUserAccess(row, d) = [row EXCEPT !.status = "trialing", !.access = Channels]
    BY <1>5 DEF RefreshUserAccess, PremiumOver, PaidPlans
  <2> QED
    BY <2>1 DEF Row, Statuses
<1>6. CASE row.enabled /\ row.plan = "free"
  <2>1. RefreshUserAccess(row, d) = [row EXCEPT !.status = "active", !.access = {"app"}]
    BY <1>6 DEF RefreshUserAccess, TrialOver, PremiumOver, PaidPlans
  <2> QED
    BY ZenonT(40), <2>1 DEF Row, Statuses, Channels
<1>7. CASE row.enabled /\ row.plan \notin PaidPlans \cup {"trial", "free"}
  BY <1>7 DEF RefreshUserAccess, TrialOver, PremiumOver, PaidPlans
<1> QED
  BY <1>1, <1>2, <1>3, <1>4, <1>5, <1>6, <1>7 DEF Row, TrialOver, PremiumOver

LEMMA FlushType ==
    ASSUME NEW db \in Row, NEW base \in Row, NEW mine \in Row
    PROVE  FlushRow(db, base, mine) \in Row
BY DEF FlushRow, Row

LEMMA EnabledType ==
    ASSUME NEW row \in Row, NEW flag \in BOOLEAN
    PROVE  [row EXCEPT !.enabled = flag] \in Row
<1>1. CASE flag = TRUE
  BY <1>1 DEF Row
<1>2. CASE flag = FALSE
  BY <1>2 DEF Row
<1> QED
  BY <1>1, <1>2

LEMMA EarnedType ==
    ASSUME NEW total \in Nat
    PROVE  EarnedMonths(total) \in Nat
BY RewardAssumption, SMT DEF EarnedMonths

LEMMA RewardRowType ==
    ASSUME NEW row \in Row, NEW months \in Nat, NEW d \in Nat
    PROVE  RewardRow(row, months, d) \in Row
<1> DEFINE from == IF row.planEnd = NoDay \/ row.planEnd < d THEN d ELSE row.planEnd
<1>1. from \in Nat
  BY DEF Row, NoDay
<1>2. RewardDays * months \in Nat
  BY RewardAssumption, SMT
<1>3. RewardRow(row, months, d) =
        IF months = 0 THEN row ELSE [row EXCEPT !.planEnd = from + RewardDays * months]
  BY DEF RewardRow
<1> HIDE DEF from
<1>4. from + RewardDays * months \in Nat
  BY <1>1, <1>2, SMT
<1> QED
  BY <1>3, <1>4 DEF Row

LEMMA ValidatedFinite ==
    ASSUME NEW f
    PROVE  Cardinality(Validated(f)) \in Nat
<1>1. Validated(f) \subseteq Users
  BY DEF Validated
<1> QED
  BY <1>1, BillingAssumption, FS_Subset, FS_CardinalityType

LEMMA MonthsType ==
    ASSUME TypeOK, NEW f \in Users
    PROVE  MonthsFor(f) \in Nat
<1>1. stats[f].level \in Nat
  BY DEF TypeOK, Stats
<1> QED
  BY <1>1, ValidatedFinite, EarnedType DEF MonthsFor, NewMonths

-----------------------------------------------------------------------------
(* Type correctness: the type invariant and what the steps rely on. *)

StripeOK == \A s \in Subs : sub[s].state # "none" => sub[s].cust \in Custs

\* A request in progress is about an event that Stripe created.
HookOK == \A h \in Hooks : hook[h].stage # "idle" => hook[h].event \in 1..Len(events)

TypeInv == TypeOK /\ StripeOK /\ HookOK

LEMMA ValidatedType ==
    ASSUME NEW x \in Referral, NEW d \in Nat
    PROVE  [x EXCEPT !.status = "validated", !.validatedAt = d] \in Referral
BY DEF Referral

LEMMA CommitReferralsType ==
    ASSUME TypeOK, NEW a \in Hooks \cup Workers, NEW seen, CommitReferrals(a, seen)
    PROVE  /\ referral' \in [Users -> Referral]
           /\ stats' \in [Users -> Stats]
           /\ scan' \in [Hooks \cup Workers -> Scan]
<1>1. referral' \in [Users -> Referral]
  <2>1. \A r \in Users : [referral[r] EXCEPT !.status = "validated", !.validatedAt = now]
                           \in Referral
    BY ValidatedType DEF TypeOK
  <2> QED
    BY <2>1 DEF CommitReferrals, TypeOK
<1>2. stats' \in [Users -> Stats]
  <2> SUFFICES ASSUME NEW f \in Users
               PROVE  SyncStats(stats[f], Cardinality(Validated(f)),
                          Cardinality({r \in Validated(f) : IsPaidActive(seen[r], now)}),
                          MonthsFor(f)) \in Stats
    BY DEF CommitReferrals, TypeOK
  <2>1. Cardinality({r \in Validated(f) : IsPaidActive(seen[r], now)}) \in Nat
    <3>1. {r \in Validated(f) : IsPaidActive(seen[r], now)} \subseteq Users
      BY DEF Validated
    <3> QED
      BY <3>1, BillingAssumption, FS_Subset, FS_CardinalityType
  <2>2. stats[f] \in Stats
    BY DEF TypeOK
  <2> QED
    BY <2>1, <2>2, ValidatedFinite, MonthsType, EarnedType DEF SyncStats, Stats
<1>3. scan' \in [Hooks \cup Workers -> Scan]
  BY DEF CommitReferrals, TypeOK, Scan, NoScan
<1> QED
  BY <1>1, <1>2, <1>3

LEMMA ScanType ==
    ASSUME NEW a, NEW seen
    PROVE  ScanReferrals(a, seen) \in Scan
BY DEF ScanReferrals, Scan, Unlocked

LEMMA InitType == Init => TypeInv
BY AbsentType
   DEF Init, TypeInv, TypeOK, StripeOK, HookOK, Referral, NoReferral, Stats, NoStats,
       Hook, IdleHook, Scan, NoScan, Req, IdleReq, SubStates, Products

LEMMA RegisterType ==
    ASSUME TypeInv, NEW u \in Users, Register(u)
    PROVE  TypeInv'
<1>1. GrantTrialAccess(rows[u], now) \in Row
  BY GrantType DEF TypeInv, TypeOK
<1>2. [referrer |-> Code[u], status |-> "pending", validatedAt |-> NoDay] \in Referral
  BY BillingAssumption DEF Referral
<1> QED
  BY <1>1, <1>2 DEF TypeInv, TypeOK, StripeOK, HookOK, Register

\* A payload about a subscription that exists at Stripe.
LEMMA EmitType ==
    ASSUME TypeInv, NEW type \in Activations \cup Downgrades \cup OtherEvents,
           NEW s \in Subs, NEW state \in SubStates, NEW meta \in Users \cup {None},
           NEW expanded \in BOOLEAN, NEW ok \in BOOLEAN,
           sub'[s].cust \in Custs, sub'[s].product \in Products,
           Emit(type, s, state, meta, expanded, ok)
    PROVE  /\ events' \in Seq(Event)
           /\ Len(events') = Len(events) + 1
<1>1. [type |-> type, meta |-> meta, sub |-> s, cust |-> sub'[s].cust,
       product |-> sub'[s].product,
       inline |-> IF expanded THEN state ELSE "none", ok |-> ok] \in Event
  BY DEF Event, SubStates
<1>2. events \in Seq(Event)
  BY DEF TypeInv, TypeOK
<1> QED
  BY <1>1, <1>2 DEF Emit

LEMMA SubscribeType ==
    ASSUME TypeInv, NEW p \in Purchases, StripeSubscribe(p)
    PROVE  TypeInv'
<1>1. p \in [sub : Subs, user : Users, cust : Custs, product : Products,
             state : {"active", "trialing"}]
  BY BillingAssumption
<1>2. PICK expanded \in BOOLEAN, ok \in BOOLEAN :
        Emit("checkout.session.completed", p.sub, p.state, p.user, expanded, ok)
  BY BillingAssumption DEF StripeSubscribe
<1>3. /\ sub'[p.sub].cust \in Custs
      /\ sub'[p.sub].product \in Products
  BY <1>1 DEF StripeSubscribe, TypeInv, TypeOK
<1>4. events' \in Seq(Event) /\ Len(events') = Len(events) + 1
  BY <1>1, <1>2, <1>3, EmitType DEF Activations, SubStates
<1> QED
  BY <1>1, <1>4 DEF StripeSubscribe, TypeInv, TypeOK, StripeOK, HookOK, SubStates

LEMMA AdvanceType ==
    ASSUME TypeInv, NEW s \in Subs, NEW state \in SubStates,
           NEW type \in Activations \cup Downgrades \cup OtherEvents,
           StripeAdvance(s, type, state)
    PROVE  TypeInv'
<1>1. PICK expanded \in BOOLEAN, ok \in BOOLEAN : Emit(type, s, state, None, expanded, ok)
  BY BillingAssumption DEF StripeAdvance
<1>2. /\ sub'[s].cust \in Custs
      /\ sub'[s].product \in Products
  BY DEF StripeAdvance, TypeInv, TypeOK, StripeOK
<1>3. events' \in Seq(Event) /\ Len(events') = Len(events) + 1
  BY <1>1, <1>2, EmitType
<1> QED
  BY <1>3 DEF StripeAdvance, TypeInv, TypeOK, StripeOK, HookOK

LEMMA ActivatedType ==
    ASSUME TypeOK, NEW row \in Row, NEW ev \in Event
    PROVE  Activated(row, ev) \in Row
<1>1. ev.product \in Products /\ ev.cust \in Custs /\ ev.sub \in Subs
  BY DEF Event
<1>2. ActivateSubscription(row, ev.product, now) \in Row
  BY <1>1, ActivateType DEF TypeOK
<1> QED
  BY <1>1, <1>2 DEF Activated, Row

LEMMA HookReceiveType ==
    ASSUME TypeInv, NEW h \in Hooks, NEW e, HookReceive(h, e)
    PROVE  TypeInv'
<1>1. e \in 1..Len(events) /\ e \in Nat
  BY DEF HookReceive, TypeInv, TypeOK
<1>2. [IdleHook EXCEPT !.stage = "received", !.event = e] \in Hook
  BY <1>1, AbsentType DEF IdleHook, Hook
<1>3. [IdleHook EXCEPT !.stage = "received", !.event = e].event = e
  BY DEF IdleHook
<1> QED
  BY <1>1, <1>2, <1>3 DEF HookReceive, TypeInv, TypeOK, StripeOK, HookOK

LEMMA IdleHookType == IdleHook \in Hook /\ IdleHook.stage = "idle"
BY AbsentType DEF IdleHook, Hook

LEMMA HookVerifyType ==
    ASSUME TypeInv, NEW h \in Hooks, HookVerify(h)
    PROVE  TypeInv'
<1>1. hook'[h] \in {[hook[h] EXCEPT !.stage = "verified"], IdleHook}
  BY DEF HookVerify, TypeInv, TypeOK
<1>2. hook'[h] \in Hook
  BY <1>1, IdleHookType DEF TypeInv, TypeOK, Hook
<1>3. hook'[h].stage # "idle" => hook'[h].event = hook[h].event /\ hook[h].stage # "idle"
  BY <1>1, IdleHookType DEF TypeInv, TypeOK, Hook, HookVerify
<1>4. hook' = [hook EXCEPT ![h] = hook'[h]]
  BY DEF HookVerify, TypeInv, TypeOK
<1> QED
  BY <1>2, <1>3, <1>4 DEF HookVerify, TypeInv, TypeOK, StripeOK, HookOK

\* A request that opens its transaction.
LEMMA HookOpenType ==
    ASSUME TypeInv, NEW h \in Hooks, NEW e \in 1..Len(events), NEW u \in Users \cup {None},
           NEW base \in Row, NEW row \in Row,
           hook' = [hook EXCEPT ![h] = [stage |-> "open", event |-> e, user |-> u,
                                        base |-> base, row |-> row]],
           scan' \in [Hooks \cup Workers -> Scan],
           UNCHANGED <<now, rows, referral, stats, audit, sub, events, worker, req>>
    PROVE  TypeInv'
<1>1. e \in Nat
  BY DEF TypeInv, TypeOK
<1>2. [stage |-> "open", event |-> e, user |-> u, base |-> base, row |-> row] \in Hook
  BY <1>1 DEF Hook
<1> QED
  BY <1>2 DEF TypeInv, TypeOK, StripeOK, HookOK

LEMMA EventAt ==
    ASSUME TypeInv, NEW e \in 1..Len(events)
    PROVE  events[e] \in Event
BY DEF TypeInv, TypeOK

LEMMA ResolveType ==
    ASSUME NEW ev
    PROVE  Resolve(ev) \subseteq Users
BY DEF Resolve

LEMMA HookActivateType ==
    ASSUME TypeInv, NEW h \in Hooks, NEW e, HookActivate(h, e)
    PROVE  TypeInv'
<1>1. e \in 1..Len(events)
  BY DEF HookActivate, AtLock
<1>2. PICK u \in Resolve(events[e]) :
        /\ hook' = [hook EXCEPT ![h] = [stage |-> "open", event |-> e, user |-> u,
                        base |-> rows[u], row |-> Activated(rows[u], events[e])]]
        /\ scan' = [scan EXCEPT ![h] =
                        ScanReferrals(h, [rows EXCEPT ![u] = Activated(rows[u], events[e])])]
  BY DEF HookActivate
<1>3. u \in Users /\ rows[u] \in Row
  BY ResolveType DEF TypeInv, TypeOK
<1>4. Activated(rows[u], events[e]) \in Row
  BY <1>1, <1>3, EventAt, ActivatedType DEF TypeInv
<1>5. scan' \in [Hooks \cup Workers -> Scan]
  BY <1>2, ScanType DEF TypeInv, TypeOK
<1> QED
  BY <1>1, <1>2, <1>3, <1>4, <1>5, HookOpenType DEF HookActivate

LEMMA HookDowngradeType ==
    ASSUME TypeInv, NEW h \in Hooks, NEW e, HookDowngrade(h, e)
    PROVE  TypeInv'
<1>1. e \in 1..Len(events)
  BY DEF HookDowngrade, AtLock
<1>2. PICK u \in Resolve(events[e]) :
        hook' = [hook EXCEPT ![h] = [stage |-> "open", event |-> e, user |-> u,
                    base |-> rows[u], row |-> DowngradeToFree(rows[u], "premium_inactive")]]
  BY DEF HookDowngrade
<1>3. u \in Users /\ rows[u] \in Row
  BY ResolveType DEF TypeInv, TypeOK
<1>4. DowngradeToFree(rows[u], "premium_inactive") \in Row
  BY <1>3, DowngradeType DEF Statuses
<1> QED
  BY <1>1, <1>2, <1>3, <1>4, HookOpenType DEF HookDowngrade, TypeInv, TypeOK

LEMMA HookNoteType ==
    ASSUME TypeInv, NEW h \in Hooks, NEW e, HookNote(h, e)
    PROVE  TypeInv'
<1>1. e \in 1..Len(events)
  BY DEF HookNote, AtLock
<1>2. PICK u \in Users \cup {None} :
        hook' = [hook EXCEPT ![h] = [stage |-> "open", event |-> e, user |-> u,
                    base |-> IF u = None THEN Absent ELSE rows[u],
                    row |-> IF u = None THEN Absent ELSE rows[u]]]
  BY DEF HookNote
<1>3. (IF u = None THEN Absent ELSE rows[u]) \in Row
  BY AbsentType DEF TypeInv, TypeOK
<1> QED
  BY <1>1, <1>2, <1>3, HookOpenType DEF HookNote, TypeInv, TypeOK

LEMMA RewardedRows ==
    ASSUME TypeOK, NEW a, NEW seen \in [Users -> Row],
           rows' = [u \in Users |->
               IF u \in Touched(a) THEN RewardRow(rows[u], MonthsFor(u), now) ELSE seen[u]]
    PROVE  rows' \in [Users -> Row]
<1> SUFFICES ASSUME NEW u \in Users
             PROVE  RewardRow(rows[u], MonthsFor(u), now) \in Row
  OBVIOUS
<1> QED
  BY MonthsType, RewardRowType DEF TypeOK

LEMMA SessionViewType ==
    ASSUME TypeOK, NEW h \in Hooks
    PROVE  SessionView(h) \in [Users -> Row]
<1>1. hook[h].base \in Row /\ hook[h].row \in Row
  BY DEF TypeOK, Hook
<1> QED
  BY <1>1, FlushType DEF SessionView, TypeOK

LEMMA HookAuditType ==
    ASSUME TypeInv, NEW h \in Hooks, hook[h].stage # "idle"
    PROVE  HookAudit(h) \in AuditRow
<1>1. hook[h].event \in 1..Len(events) /\ hook[h] \in Hook
  BY DEF TypeInv, TypeOK, HookOK
<1>2. events[hook[h].event] \in Event
  BY <1>1, EventAt
<1>3. hook[h].event \in Nat /\ now \in Nat /\ hook[h].row.status \in Statuses
      /\ hook[h].user \in Users \cup {None}
  BY <1>1 DEF Hook, Row, TypeInv, TypeOK
<1>4. events[hook[h].event].type \in AuditTypes /\ events[hook[h].event].sub \in Subs
  BY <1>2 DEF Event, AuditTypes
<1> QED
  BY <1>3, <1>4 DEF HookAudit, AuditRow

LEMMA HookCommitType ==
    ASSUME TypeInv, NEW h \in Hooks, HookCommit(h)
    PROVE  TypeInv'
<1>1. rows' \in [Users -> Row]
  BY SessionViewType, RewardedRows DEF HookCommit, TypeInv
<1>2. /\ referral' \in [Users -> Referral]
      /\ stats' \in [Users -> Stats]
      /\ scan' \in [Hooks \cup Workers -> Scan]
  BY CommitReferralsType DEF HookCommit, TypeInv
<1>3. audit' \in Seq(AuditRow)
  BY HookAuditType DEF HookCommit, TypeInv, TypeOK
<1>4. /\ hook' \in [Hooks -> Hook]
      /\ \A k \in Hooks : hook'[k].stage # "idle" => hook'[k] = hook[k]
  BY IdleHookType DEF HookCommit, TypeInv, TypeOK
<1> QED
  BY <1>1, <1>2, <1>3, <1>4 DEF HookCommit, TypeInv, TypeOK, StripeOK, HookOK

LEMMA HookGiveUpType ==
    ASSUME TypeInv, NEW h \in Hooks, HookGiveUp(h)
    PROVE  TypeInv'
<1>1. NoScan \in Scan
  BY DEF NoScan, Scan
<1> QED
  BY <1>1, IdleHookType DEF HookGiveUp, TypeInv, TypeOK, StripeOK, HookOK

LEMMA WorkerType ==
    ASSUME TypeInv, NEW w \in Workers,
           WorkerScan(w) \/ WorkerCommit(w) \/ WorkerRollback(w)
    PROVE  TypeInv'
<1>1. CASE WorkerScan(w)
  BY <1>1, ScanType DEF WorkerScan, TypeInv, TypeOK, StripeOK, HookOK
<1>2. CASE WorkerCommit(w)
  <2>1. rows' \in [Users -> Row]
    BY <1>2, RewardedRows DEF WorkerCommit, TypeInv, TypeOK
  <2>2. /\ referral' \in [Users -> Referral]
        /\ stats' \in [Users -> Stats]
        /\ scan' \in [Hooks \cup Workers -> Scan]
    BY <1>2, CommitReferralsType DEF WorkerCommit, TypeInv
  <2> QED
    BY <1>2, <2>1, <2>2 DEF WorkerCommit, TypeInv, TypeOK, StripeOK, HookOK
<1>3. CASE WorkerRollback(w)
  <2>1. NoScan \in Scan
    BY DEF NoScan, Scan
  <2> QED
    BY <1>3, <2>1 DEF WorkerRollback, TypeInv, TypeOK, StripeOK, HookOK
<1> QED
  BY <1>1, <1>2, <1>3

LEMMA RequestType ==
    ASSUME TypeInv, NEW r \in Reqs, Request(r)
    PROVE  TypeInv'
<1>0. IdleReq \in Req
  BY AbsentType DEF IdleReq, Req
<1>1. ASSUME NEW u \in Users, ReqRefresh(r, u)
      PROVE  TypeInv'
  <2>1. rows[u] \in Row /\ RefreshUserAccess(rows[u], now) \in Row
    BY RefreshType DEF TypeInv, TypeOK
  <2>2. [kind |-> "refresh", user |-> u, base |-> rows[u],
         row |-> RefreshUserAccess(rows[u], now)] \in Req
    BY <2>1 DEF Req
  <2> QED
    BY <1>1, <2>2 DEF ReqRefresh, TypeInv, TypeOK, StripeOK, HookOK
<1>2. ASSUME NEW u \in Users, ReqSync(r, u)
      PROVE  TypeInv'
  <2>1. rows[u] \in Row /\ DowngradeToFree(rows[u], "premium_inactive") \in Row
    BY DowngradeType DEF TypeInv, TypeOK, Statuses
  <2>2. [kind |-> "sync", user |-> u, base |-> rows[u],
         row |-> DowngradeToFree(rows[u], "premium_inactive")] \in Req
    BY <2>1 DEF Req
  <2> QED
    BY <1>2, <2>2 DEF ReqSync, TypeInv, TypeOK, StripeOK, HookOK
<1>3. ASSUME ReqCommit(r)
      PROVE  TypeInv'
  <2>1. req[r] \in Req
    BY DEF TypeInv, TypeOK
  <2>2. req[r].base \in Row /\ req[r].row \in Row /\ req[r].row.status \in Statuses
        /\ req[r].user \in Users \cup {None}
    BY <2>1 DEF Req, Row
  <2>3. \A u \in Users : FlushRow(rows[u], req[r].base, req[r].row) \in Row
    BY <2>2, FlushType DEF TypeInv, TypeOK
  <2>4. rows' \in [Users -> Row]
    BY <1>3, <2>3 DEF ReqCommit, TypeInv, TypeOK
  <2>5. [event |-> 0, user |-> req[r].user, type |-> "subscription_sync",
         status |-> req[r].row.status, day |-> now, sub |-> None] \in AuditRow
    BY <2>2 DEF AuditRow, AuditTypes, TypeInv, TypeOK
  <2>6. audit' \in Seq(AuditRow)
    <3>1. CASE audit' = audit
      BY <3>1 DEF TypeInv, TypeOK
    <3>2. CASE audit' # audit
      <4>1. audit' = Append(audit, [event |-> 0, user |-> req[r].user,
               type |-> "subscription_sync", status |-> req[r].row.status, day |-> now,
               sub |-> None])
        BY <1>3, <3>2 DEF ReqCommit
      <4> QED
        BY <2>5, <4>1 DEF TypeInv, TypeOK
    <3> QED
      BY <3>1, <3>2
  <2> QED
    BY <1>0, <1>3, <2>4, <2>6 DEF ReqCommit, TypeInv, TypeOK, StripeOK, HookOK
<1>4. ASSUME ReqGiveUp(r)
      PROVE  TypeInv'
  BY <1>0, <1>4 DEF ReqGiveUp, TypeInv, TypeOK, StripeOK, HookOK
<1> QED
  BY <1>1, <1>2, <1>3, <1>4 DEF Request

LEMMA NextType == TypeInv /\ [Next]_vars => TypeInv'
<1> SUFFICES ASSUME TypeInv, [Next]_vars PROVE TypeInv'
  OBVIOUS
<1>1. CASE Tick
  BY <1>1 DEF Tick, TypeInv, TypeOK, StripeOK, HookOK
<1>2. CASE \E u \in Users : Register(u) \/ SetEnabled(u)
  <2>1. ASSUME NEW u \in Users, SetEnabled(u) PROVE TypeInv'
    <3> DEFINE flag == ~rows[u].enabled
    <3>1. rows' = [rows EXCEPT ![u] = [rows[u] EXCEPT !.enabled = flag]]
      BY <2>1 DEF SetEnabled
    <3>2. flag \in BOOLEAN
      OBVIOUS
    <3> HIDE DEF flag
    <3>3. [rows[u] EXCEPT !.enabled = flag] \in Row
      BY <3>2, EnabledType DEF TypeInv, TypeOK
    <3> QED
      BY <2>1, <3>1, <3>3 DEF SetEnabled, TypeInv, TypeOK, StripeOK, HookOK
  <2> QED
    BY <1>2, <2>1, RegisterType
<1>3. CASE Stripe
  <2>1. ASSUME NEW s \in Subs, StripeUpdate(s) PROVE TypeInv'
    <3>1. sub[s].state \in SubStates
      BY DEF TypeInv, TypeOK
    <3> QED
      BY <2>1, <3>1, AdvanceType DEF StripeUpdate, OtherEvents
  <2>2. ASSUME NEW s \in Subs, StripeInvoice(s) \/ StripePaymentFails(s) \/ StripeCancel(s)
        PROVE  TypeInv'
    BY <2>2, AdvanceType
       DEF StripeInvoice, StripePaymentFails, StripeCancel, SubStates, Activations, Downgrades
  <2> QED
    BY <1>3, <2>1, <2>2, SubscribeType DEF Stripe
<1>4. CASE \E h \in Hooks : Webhook(h)
  BY <1>4, HookReceiveType, HookActivateType, HookDowngradeType, HookNoteType,
     HookVerifyType, HookCommitType, HookGiveUpType DEF Webhook
<1>5. CASE \E w \in Workers : WorkerScan(w) \/ WorkerCommit(w) \/ WorkerRollback(w)
  BY <1>5, WorkerType
<1>6. CASE \E r \in Reqs : Request(r)
  BY <1>6, RequestType
<1>7. CASE UNCHANGED vars
  BY <1>7 DEF vars, TypeInv, TypeOK, StripeOK, HookOK
<1> QED
  BY <1>1, <1>2, <1>3, <1>4, <1>5, <1>6, <1>7 DEF Next

\* Whatever is interleaved, every table, every transaction in progress and every
\* request keeps its shape, and requests are about events Stripe has created.
THEOREM TypeCorrect == Spec => []TypeInv
BY InitType, NextType, PTL DEF Spec

\* The type invariant TLC checks.
THEOREM TypeOKAlways == Spec => []TypeOK
<1>1. TypeInv => TypeOK
  BY DEF TypeInv
<1> QED
  BY <1>1, TypeCorrect, PTL

-----------------------------------------------------------------------------
(***************************************************************************)
(* An event is applied once.  With the unique index the database sees to   *)
(* it; without it the lock does, provided there is only one process: then  *)
(* at most one transaction is open, and its event has no audit row until   *)
(* it commits.                                                             *)
(***************************************************************************)
SingleProcess == \A h, k \in Hooks : Proc[h] = Proc[k]

OneOpen ==
    \A h, k \in Hooks : hook[h].stage = "open" /\ hook[k].stage = "open" => h = k

OpenIsNew == \A h \in Hooks : hook[h].stage = "open" => ~Processed(hook[h].event)

OnceInv == EventOnce /\ (SingleProcess => OneOpen /\ OpenIsNew)

LEMMA AppendOnce ==
    ASSUME audit \in Seq(AuditRow), EventOnce, NEW x \in AuditRow,
           audit' = Append(audit, x), x.event = 0 \/ ~Processed(x.event)
    PROVE  /\ EventOnce'
           /\ \A e \in Nat : Processed(e)' <=> Processed(e) \/ e = x.event
<1>1. /\ Len(audit') = Len(audit) + 1
      /\ audit'[Len(audit) + 1] = x
      /\ \A i \in 1..Len(audit) : audit'[i] = audit[i]
      /\ Len(audit) \in Nat
  OBVIOUS
<1>2. EventOnce'
  <2> SUFFICES ASSUME NEW i \in 1..Len(audit'), NEW j \in 1..Len(audit'),
                      audit'[i].event = audit'[j].event, audit'[i].event # 0
               PROVE  i = j
    BY DEF EventOnce
  <2>1. CASE i \in 1..Len(audit) /\ j \in 1..Len(audit)
    BY <1>1, <2>1 DEF EventOnce
  <2>2. CASE i = Len(audit) + 1 \/ j = Len(audit) + 1
    BY <1>1, <2>2 DEF Processed
  <2> QED
    BY <1>1, <2>1, <2>2
<1>3. ASSUME NEW e \in Nat
      PROVE  Processed(e)' <=> Processed(e) \/ e = x.event
  BY <1>1 DEF Processed
<1> QED
  BY <1>2, <1>3

\* Steps that append nothing and open nothing.
LEMMA OnceKept ==
    ASSUME TypeInv, OnceInv, UNCHANGED audit,
           \A h \in Hooks : hook'[h].stage = "open" => hook'[h] = hook[h]
    PROVE  OnceInv'
BY DEF OnceInv, EventOnce, OneOpen, OpenIsNew, Processed, SingleProcess

\* Steps that open a transaction under the lock.
LEMMA OnceOpened ==
    ASSUME TypeInv, OnceInv, NEW h \in Hooks, NEW e, AtLock(h, e), UNCHANGED audit,
           hook'[h].event = e,
           \A k \in Hooks \ {h} : hook'[k] = hook[k]
    PROVE  OnceInv'
<1>1. EventOnce'
  BY DEF OnceInv, EventOnce
<1>2. ASSUME SingleProcess PROVE OneOpen' /\ OpenIsNew'
  <2>1. \A k \in Hooks : hook[k].stage # "open"
    BY <1>2 DEF AtLock, LockFree, SingleProcess
  <2>2. ~Processed(e)'
    BY DEF AtLock, Processed
  <2> QED
    BY <2>1, <2>2 DEF OneOpen, OpenIsNew
<1> QED
  BY <1>1, <1>2 DEF OnceInv, SingleProcess

LEMMA OnceCommitted ==
    ASSUME UniqueIndex \/ SingleProcess, TypeInv, OnceInv, NEW h \in Hooks, HookCommit(h)
    PROVE  OnceInv'
<1>1. audit \in Seq(AuditRow) /\ HookAudit(h) \in AuditRow
      /\ audit' = Append(audit, HookAudit(h)) /\ HookAudit(h).event = hook[h].event
  BY HookAuditType DEF HookCommit, TypeInv, TypeOK, HookAudit
<1>2. ~Processed(hook[h].event)
  BY DEF HookCommit, Conflicts, OnceInv, OpenIsNew
<1>3. EventOnce'
  BY <1>1, <1>2, AppendOnce DEF OnceInv
<1>4. ASSUME SingleProcess PROVE OneOpen' /\ OpenIsNew'
  <2>1. \A k \in Hooks : hook'[k].stage # "open"
    BY <1>4, IdleHookType DEF HookCommit, OnceInv, OneOpen, TypeInv, TypeOK
  <2> QED
    BY <2>1 DEF OneOpen, OpenIsNew
<1> QED
  BY <1>3, <1>4 DEF OnceInv, SingleProcess

LEMMA OnceRequest ==
    ASSUME TypeInv, OnceInv, NEW r \in Reqs, Request(r)
    PROVE  OnceInv'
<1>1. CASE UNCHANGED audit
  BY <1>1, OnceKept DEF Request, ReqRefresh, ReqSync, ReqCommit, ReqGiveUp
<1>2. CASE audit' # audit
  <2> DEFINE x == [event |-> 0, user |-> req[r].user, type |-> "subscription_sync",
                   status |-> req[r].row.status, day |-> now, sub |-> None]
  <2>1. audit' = Append(audit, x) /\ UNCHANGED hook
    BY <1>2 DEF Request, ReqRefresh, ReqSync, ReqCommit, ReqGiveUp
  <2>2. x \in AuditRow
    <3>1. req[r] \in Req /\ now \in Nat
      BY DEF TypeInv, TypeOK
    <3>2. req[r].row.status \in Statuses /\ req[r].user \in Users \cup {None}
      BY <3>1 DEF Req, Row
    <3> QED
      BY <3>1, <3>2 DEF AuditRow, AuditTypes
  <2>3. x.event = 0
    OBVIOUS
  <2> HIDE DEF x
  <2>4. EventOnce' /\ \A e \in Nat : Processed(e)' <=> Processed(e) \/ e = 0
    BY <2>1, <2>2, <2>3, AppendOnce DEF OnceInv, TypeInv, TypeOK
  <2>5. \A h \in Hooks : hook[h].stage = "open" =>
            hook[h].event \in Nat /\ hook[h].event # 0
    BY DEF TypeInv, TypeOK, HookOK
  <2> QED
    BY <2>1, <2>4, <2>5 DEF OnceInv, OneOpen, OpenIsNew, SingleProcess
<1> QED
  BY <1>1, <1>2

LEMMA NextOnce ==
    ASSUME UniqueIndex \/ SingleProcess
    PROVE  TypeInv /\ OnceInv /\ [Next]_vars => OnceInv'
<1> SUFFICES ASSUME TypeInv, OnceInv, [Next]_vars PROVE OnceInv'
  OBVIOUS
<1>1. CASE UNCHANGED <<audit, hook>>
  BY <1>1, OnceKept
<1>2. ASSUME NEW h \in Hooks, NEW e,
             HookReceive(h, e) \/ HookActivate(h, e) \/ HookDowngrade(h, e) \/ HookNote(h, e)
      PROVE  OnceInv'
  <2>1. CASE HookReceive(h, e)
    <3>1. hook'[h].stage = "received" /\ \A k \in Hooks \ {h} : hook'[k] = hook[k]
      BY <2>1 DEF HookReceive, IdleHook, TypeInv, TypeOK
    <3> QED
      BY <2>1, <3>1, OnceKept DEF HookReceive
  <2>2. CASE HookActivate(h, e) \/ HookDowngrade(h, e) \/ HookNote(h, e)
    <3>1. /\ AtLock(h, e)
          /\ UNCHANGED audit
          /\ hook'[h].event = e
          /\ \A k \in Hooks \ {h} : hook'[k] = hook[k]
      <4>1. AtLock(h, e) /\ UNCHANGED audit
        BY <2>2 DEF HookActivate, HookDowngrade, HookNote
      <4>2. \E u, base, row :
              hook' = [hook EXCEPT ![h] = [stage |-> "open", event |-> e, user |-> u,
                                           base |-> base, row |-> row]]
        <5>1. CASE HookActivate(h, e)
          BY <5>1 DEF HookActivate
        <5>2. CASE HookDowngrade(h, e)
          BY <5>2 DEF HookDowngrade
        <5>3. CASE HookNote(h, e)
          BY <5>3 DEF HookNote
        <5> QED
          BY <2>2, <5>1, <5>2, <5>3
      <4> QED
        BY <4>1, <4>2 DEF TypeInv, TypeOK
    <3> QED
      BY <3>1, OnceOpened
  <2> QED
    BY <1>2, <2>1, <2>2
<1>3. ASSUME NEW h \in Hooks, HookVerify(h) \/ HookGiveUp(h)
      PROVE  OnceInv'
  <2>1. hook'[h].stage # "open" /\ \A k \in Hooks \ {h} : hook'[k] = hook[k]
    BY <1>3, IdleHookType DEF HookVerify, HookGiveUp, TypeInv, TypeOK, Hook
  <2> QED
    BY <1>3, <2>1, OnceKept DEF HookVerify, HookGiveUp
<1>4. CASE \E h \in Hooks : Webhook(h)
  BY <1>2, <1>3, <1>4, OnceCommitted DEF Webhook
<1>5. CASE \E r \in Reqs : Request(r)
  BY <1>5, OnceRequest
<1>6. CASE Stripe
  BY <1>6, <1>1
     DEF Stripe, StripeSubscribe, StripeAdvance, StripeInvoice, StripePaymentFails,
         StripeCancel, StripeUpdate
<1> QED
  BY <1>1, <1>4, <1>5, <1>6
     DEF Next, vars, Tick, Register, SetEnabled, WorkerScan, WorkerCommit, WorkerRollback

\* Every Stripe event is applied at most once, for any number of concurrent and
\* repeated deliveries: across processes if the unique index of migration 0001
\* is there, and within one process even without it.
THEOREM EventAppliedOnce ==
    ASSUME UniqueIndex \/ SingleProcess
    PROVE  Spec => []EventOnce
<1>1. Init => OnceInv
  BY DEF Init, OnceInv, EventOnce, OneOpen, OpenIsNew, IdleHook
<1>2. OnceInv => EventOnce
  BY DEF OnceInv
<1> QED
  BY <1>1, <1>2, NextOnce, TypeCorrect, PTL DEF Spec

-----------------------------------------------------------------------------
(***************************************************************************)
(* Nobody becomes a paying user but by a recorded payment.  A session      *)
(* writes the plan only if its copy differs from what it read, so it is    *)
(* enough that an open transaction which is not an activation never        *)
(* computed a paid plan from one that was not.                             *)
(***************************************************************************)
Buys(base, row) == row.plan \in PaidPlans /\ row.plan # base.plan

HookBuys ==
    \A h \in Hooks : hook[h].stage = "open" /\ Buys(hook[h].base, hook[h].row) =>
        events[hook[h].event].type \in Activations

RequestsNeverBuy == \A r \in Reqs : ~Buys(req[r].base, req[r].row)

BoughtInv == HookBuys /\ RequestsNeverBuy

LEMMA RefreshNeverBuys ==
    ASSUME NEW row \in Row, NEW d \in Nat
    PROVE  ~Buys(row, RefreshUserAccess(row, d))
<1>1. RefreshUserAccess(row, d).plan \in {row.plan, "free", "expired"}
  BY DEF RefreshUserAccess, ExpireAccess, DowngradeToFree, TrialOver, PremiumOver, PaidPlans, Row
<1> QED
  BY <1>1 DEF Buys, PaidPlans

LEMMA DowngradeNeverBuys ==
    ASSUME NEW row \in Row, NEW reason
    PROVE  ~Buys(row, DowngradeToFree(row, reason))
BY DEF Buys, DowngradeToFree, PaidPlans, Row

LEMMA FlushBuys ==
    ASSUME NEW db \in Row, NEW base \in Row, NEW mine \in Row,
           db.plan \notin PaidPlans, FlushRow(db, base, mine).plan \in PaidPlans
    PROVE  Buys(base, mine)
<1>1. FlushRow(db, base, mine).plan = IF mine.plan # base.plan THEN mine.plan ELSE db.plan
  BY DEF FlushRow, Row
<1> QED
  BY <1>1 DEF Buys

LEMMA BoughtKept ==
    ASSUME TypeInv, BoughtInv, TypeInv',
           \A h \in Hooks : hook'[h].stage = "open" => hook'[h] = hook[h],
           \A e \in 1..Len(events) : events'[e] = events[e],
           \A r \in Reqs : req'[r] = req[r] \/ ~Buys(req'[r].base, req'[r].row)
    PROVE  BoughtInv'
<1>1. HookBuys'
  <2> SUFFICES ASSUME NEW h \in Hooks, hook'[h].stage = "open",
                      Buys(hook'[h].base, hook'[h].row)
               PROVE  events'[hook'[h].event].type \in Activations
    BY DEF HookBuys, Buys
  <2>1. hook'[h] = hook[h] /\ hook[h].event \in 1..Len(events)
    BY DEF TypeInv, HookOK
  <2> QED
    BY <2>1 DEF BoughtInv, HookBuys
<1>2. RequestsNeverBuy'
  BY DEF BoughtInv, RequestsNeverBuy, Buys
<1> QED
  BY <1>1, <1>2 DEF BoughtInv

LEMMA StripeBought ==
    ASSUME TypeInv, TypeInv', BoughtInv, Stripe
    PROVE  BoughtInv'
<1>1. UNCHANGED <<hook, req>> /\ \E x : events' = Append(events, x)
  BY DEF Stripe, StripeSubscribe, StripeAdvance, StripeInvoice, StripePaymentFails,
         StripeCancel, StripeUpdate, Emit
<1>2. \A e \in 1..Len(events) : events'[e] = events[e]
  BY <1>1 DEF TypeInv, TypeOK
<1> QED
  BY <1>1, <1>2, BoughtKept

LEMMA HookBought ==
    ASSUME TypeInv, TypeInv', BoughtInv, NEW h \in Hooks, Webhook(h)
    PROVE  BoughtInv'
<1> DEFINE Opens(e, u, row) ==
        hook' = [hook EXCEPT ![h] = [stage |-> "open", event |-> e, user |-> u,
                                     base |-> rows[u], row |-> row]]
<1>0. UNCHANGED <<events, req>>
  BY DEF Webhook, HookReceive, HookActivate, HookDowngrade, HookNote, HookVerify,
         HookCommit, HookGiveUp
<1>1. ASSUME NEW e \in 1..MaxEvents, HookActivate(h, e)
      PROVE  BoughtInv'
  <2>1. /\ hook'[h].event = e /\ \A k \in Hooks \ {h} : hook'[k] = hook[k]
        /\ events[e].type \in Activations
    <3>1. \E u, row : Opens(e, u, row)
      BY <1>1 DEF HookActivate
    <3> QED
      BY <1>1, <3>1 DEF HookActivate, TypeInv, TypeOK
  <2> QED
    BY <1>0, <2>1 DEF BoughtInv, HookBuys, RequestsNeverBuy
<1>2. ASSUME NEW e \in 1..MaxEvents, HookDowngrade(h, e)
      PROVE  BoughtInv'
  <2>1. PICK u \in Users : Opens(e, u, DowngradeToFree(rows[u], "premium_inactive"))
    BY <1>2, ResolveType DEF HookDowngrade
  <2>2. ~Buys(hook'[h].base, hook'[h].row) /\ \A k \in Hooks \ {h} : hook'[k] = hook[k]
    BY <2>1, DowngradeNeverBuys DEF TypeInv, TypeOK
  <2> QED
    BY <1>0, <2>2 DEF BoughtInv, HookBuys, RequestsNeverBuy
<1>3. ASSUME NEW e \in 1..MaxEvents, HookNote(h, e)
      PROVE  BoughtInv'
  <2>1. /\ hook'[h].base = hook'[h].row
        /\ \A k \in Hooks \ {h} : hook'[k] = hook[k]
    <3>1. \E u, row : hook' = [hook EXCEPT ![h] = [stage |-> "open", event |-> e, user |-> u,
                                                  base |-> row, row |-> row]]
      BY <1>3 DEF HookNote
    <3> QED
      BY <3>1 DEF TypeInv, TypeOK
  <2> QED
    BY <1>0, <2>1 DEF BoughtInv, HookBuys, RequestsNeverBuy, Buys
<1>4. ASSUME (\E e \in 1..MaxEvents : HookReceive(h, e)) \/ HookVerify(h) \/ HookCommit(h)
             \/ HookGiveUp(h)
      PROVE  BoughtInv'
  <2>1. \A k \in Hooks \ {h} : hook'[k] = hook[k]
    BY <1>4 DEF HookReceive, HookVerify, HookCommit, HookGiveUp, TypeInv, TypeOK
  <2>2. hook'[h].stage # "open"
    <3>1. CASE \E e \in 1..MaxEvents : HookReceive(h, e)
      BY <3>1 DEF HookReceive, TypeInv, TypeOK, IdleHook
    <3>2. CASE HookVerify(h)
      BY <3>2, IdleHookType DEF HookVerify, TypeInv, TypeOK, Hook
    <3>3. CASE HookCommit(h) \/ HookGiveUp(h)
      BY <3>3, IdleHookType DEF HookCommit, HookGiveUp, TypeInv, TypeOK
    <3> QED
      BY <1>4, <3>1, <3>2, <3>3
  <2> QED
    BY <1>0, <2>1, <2>2, BoughtKept
<1> QED
  BY <1>1, <1>2, <1>3, <1>4 DEF Webhook

LEMMA RequestBought ==
    ASSUME TypeInv, TypeInv', BoughtInv, NEW r \in Reqs, Request(r)
    PROVE  BoughtInv'
<1>0. UNCHANGED <<events, hook>>
  BY DEF Request, ReqRefresh, ReqSync, ReqCommit, ReqGiveUp
<1>1. ASSUME NEW u \in Users, ReqRefresh(r, u)
      PROVE  BoughtInv'
  <2>1. ~Buys(req'[r].base, req'[r].row) /\ \A x \in Reqs \ {r} : req'[x] = req[x]
    BY <1>1, RefreshNeverBuys DEF ReqRefresh, TypeInv, TypeOK
  <2> QED
    BY <1>0, <2>1, BoughtKept
<1>2. ASSUME NEW u \in Users, ReqSync(r, u)
      PROVE  BoughtInv'
  <2>1. ~Buys(req'[r].base, req'[r].row) /\ \A x \in Reqs \ {r} : req'[x] = req[x]
    BY <1>2, DowngradeNeverBuys DEF ReqSync, TypeInv, TypeOK
  <2> QED
    BY <1>0, <2>1, BoughtKept
<1>3. ASSUME ReqCommit(r) \/ ReqGiveUp(r)
      PROVE  BoughtInv'
  <2>1. req'[r] = IdleReq /\ \A x \in Reqs \ {r} : req'[x] = req[x]
    BY <1>3 DEF ReqCommit, ReqGiveUp, TypeInv, TypeOK
  <2>2. ~Buys(IdleReq.base, IdleReq.row)
    BY DEF IdleReq, Buys
  <2> QED
    BY <1>0, <2>1, <2>2, BoughtKept
<1> QED
  BY <1>1, <1>2, <1>3 DEF Request

LEMMA NextBought == TypeInv /\ TypeInv' /\ BoughtInv /\ [Next]_vars => BoughtInv'
<1> SUFFICES ASSUME TypeInv, TypeInv', BoughtInv, [Next]_vars PROVE BoughtInv'
  OBVIOUS
<1>1. CASE UNCHANGED <<events, hook, req>>
  BY <1>1, BoughtKept
<1>2. CASE Stripe
  BY <1>2, StripeBought
<1>3. CASE \E h \in Hooks : Webhook(h)
  BY <1>3, HookBought
<1>4. CASE \E r \in Reqs : Request(r)
  BY <1>4, RequestBought
<1> QED
  BY <1>1, <1>2, <1>3, <1>4
     DEF Next, vars, Tick, Register, SetEnabled, WorkerScan, WorkerCommit, WorkerRollback

\* The step that turns a user into a paying one, as AccessIsBought states it.
Bought(u) ==
    /\ Len(audit') = Len(audit) + 1
    /\ audit'[Len(audit')].user = u
    /\ audit'[Len(audit')].type \in Activations

LEMMA RewardKeepsPlan ==
    ASSUME NEW row \in Row, NEW months, NEW d
    PROVE  RewardRow(row, months, d).plan = row.plan
BY DEF RewardRow, Row

LEMMA StepBought ==
    ASSUME TypeInv, BoughtInv, [Next]_vars, NEW u \in Users,
           rows[u].plan \notin PaidPlans, rows'[u].plan \in PaidPlans
    PROVE  Bought(u)
<1>0. rows[u] \in Row
  BY DEF TypeInv, TypeOK
<1>1. ASSUME NEW v \in Users, Register(v) \/ SetEnabled(v)
      PROVE  FALSE
  <2>1. rows'[u].plan \in {rows[u].plan, "trial"}
    <3>1. CASE Register(v)
      BY <1>0, <3>1 DEF Register, GrantTrialAccess, TypeInv, TypeOK, Row
    <3>2. CASE SetEnabled(v)
      BY <1>0, <3>2 DEF SetEnabled, TypeInv, TypeOK, Row
    <3> QED
      BY <1>1, <3>1, <3>2
  <2> QED
    BY <2>1 DEF PaidPlans
<1>2. ASSUME NEW h \in Hooks, HookCommit(h)
      PROVE  Bought(u)
  <2>1. u \notin Touched(h)
    BY <1>0, <1>2, RewardKeepsPlan DEF HookCommit
  <2>2. rows'[u] = SessionView(h)[u]
    BY <1>2, <2>1 DEF HookCommit
  <2>3. u = hook[h].user /\ rows'[u] = FlushRow(rows[u], hook[h].base, hook[h].row)
    BY <2>1, <2>2 DEF SessionView
  <2>4. hook[h].base \in Row /\ hook[h].row \in Row
    BY DEF TypeInv, TypeOK, Hook
  <2>5. Buys(hook[h].base, hook[h].row)
    BY <1>0, <2>3, <2>4, FlushBuys
  <2>6. events[hook[h].event].type \in Activations
    BY <1>2, <2>5 DEF HookCommit, BoughtInv, HookBuys
  <2>7. /\ Len(audit') = Len(audit) + 1
        /\ audit'[Len(audit')] = HookAudit(h)
    BY <1>2 DEF HookCommit, TypeInv, TypeOK
  <2> QED
    BY <2>3, <2>6, <2>7 DEF Bought, HookAudit
<1>3. ASSUME NEW w \in Workers, WorkerCommit(w)
      PROVE  FALSE
  BY <1>0, <1>3, RewardKeepsPlan DEF WorkerCommit
<1>4. ASSUME NEW r \in Reqs, ReqCommit(r)
      PROVE  FALSE
  <2>1. req[r].base \in Row /\ req[r].row \in Row
    BY DEF TypeInv, TypeOK, Req
  <2>2. rows'[u] \in {rows[u], FlushRow(rows[u], req[r].base, req[r].row)}
    BY <1>4 DEF ReqCommit, TypeInv, TypeOK
  <2> QED
    BY <1>0, <2>1, <2>2, FlushBuys DEF BoughtInv, RequestsNeverBuy
<1>5. CASE UNCHANGED rows
  BY <1>5
<1>6. CASE Stripe
  BY <1>5, <1>6
     DEF Stripe, StripeSubscribe, StripeAdvance, StripeInvoice, StripePaymentFails,
         StripeCancel, StripeUpdate
<1>7. ASSUME NEW h \in Hooks, Webhook(h) PROVE Bought(u)
  BY <1>2, <1>5, <1>7
     DEF Webhook, HookReceive, HookActivate, HookDowngrade, HookNote, HookVerify, HookGiveUp
<1>8. ASSUME NEW r \in Reqs, Request(r) PROVE Bought(u)
  BY <1>4, <1>5, <1>8 DEF Request, ReqRefresh, ReqSync, ReqGiveUp
<1> QED
  BY <1>1, <1>3, <1>5, <1>6, <1>7, <1>8
     DEF Next, vars, Tick, WorkerScan, WorkerRollback

\* However sessions interleave and overwrite each other, paid access appears only
\* in the transaction that records a payment of that very user.
THEOREM AccessAlwaysBought == Spec => AccessIsBought
<1>1. Init => BoughtInv
  BY DEF Init, BoughtInv, HookBuys, RequestsNeverBuy, IdleHook, IdleReq, Buys
<1>2. TypeInv /\ BoughtInv /\ [Next]_vars =>
        [\A u \in Users :
            rows[u].plan \notin PaidPlans /\ rows'[u].plan \in PaidPlans =>
                /\ Len(audit') = Len(audit) + 1
                /\ audit'[Len(audit')].user = u
                /\ audit'[Len(audit')].type \in Activations]_vars
  BY StepBought DEF Bought
<1> QED
  BY <1>1, <1>2, NextBought, NextType, InitType, PTL DEF Spec, AccessIsBought

-----------------------------------------------------------------------------
(* What a step may do to a row, to a webhook request and to a request.       *)

Billed(h, u) ==
    /\ HookCommit(h) /\ u = hook[h].user
    /\ rows'[u] = FlushRow(rows[u], hook[h].base, hook[h].row)

Requested(r, u) ==
    /\ ReqCommit(r) /\ u = req[r].user
    /\ rows'[u] = FlushRow(rows[u], req[r].base, req[r].row)

Rewarded(a, u) ==
    /\ u \in Touched(a)
    /\ rows'[u] = RewardRow(rows[u], MonthsFor(u), now)
    /\ \E active : stats'[u] = SyncStats(stats[u], Cardinality(Validated(u)), active, MonthsFor(u))

RowKept(u) ==
    \/ rows'[u] = rows[u]
    \/ ~Registered(u) /\ rows'[u] = GrantTrialAccess(rows[u], now)
    \/ \E flag \in BOOLEAN : rows'[u] = [rows[u] EXCEPT !.enabled = flag]

LEMMA RowStep ==
    ASSUME TypeInv, [Next]_vars, NEW u \in Users
    PROVE  \/ stats'[u] = stats[u] /\ RowKept(u)
           \/ \E a \in Hooks \cup Workers : Rewarded(a, u)
           \/ stats'[u] = stats[u] /\ \E h \in Hooks : Billed(h, u)
           \/ stats'[u] = stats[u] /\ \E r \in Reqs : Requested(r, u)
<1>1. CASE UNCHANGED <<rows, stats>>
  BY <1>1 DEF RowKept
<1>2. ASSUME NEW v \in Users, Register(v)
      PROVE  stats'[u] = stats[u] /\ RowKept(u)
  BY <1>2 DEF Register, RowKept, TypeInv, TypeOK
<1>3. ASSUME NEW v \in Users, SetEnabled(v)
      PROVE  stats'[u] = stats[u] /\ RowKept(u)
  <2>1. rows'[u] = rows[u] \/ \E flag \in BOOLEAN : rows'[u] = [rows[u] EXCEPT !.enabled = flag]
    <3> DEFINE flag == ~rows[v].enabled
    <3>1. rows' = [rows EXCEPT ![v] = [rows[v] EXCEPT !.enabled = flag]] /\ flag \in BOOLEAN
      BY <1>3 DEF SetEnabled
    <3> HIDE DEF flag
    <3> QED
      BY <3>1 DEF TypeInv, TypeOK
  <2> QED
    BY <1>3, <2>1 DEF SetEnabled, RowKept
<1>4. ASSUME NEW a \in Hooks \cup Workers, NEW seen, CommitReferrals(a, seen)
      PROVE  IF u \in Touched(a)
             THEN \E active : stats'[u] = SyncStats(stats[u], Cardinality(Validated(u)), active, MonthsFor(u))
             ELSE stats'[u] = stats[u]
  BY <1>4 DEF CommitReferrals
<1>5. ASSUME NEW h \in Hooks, HookCommit(h)
      PROVE  Rewarded(h, u) \/ (stats'[u] = stats[u] /\ (RowKept(u) \/ Billed(h, u)))
  <2>1. CommitReferrals(h, SessionView(h))
    BY <1>5 DEF HookCommit
  <2>2. CASE u \in Touched(h)
    <3>1. rows'[u] = RewardRow(rows[u], MonthsFor(u), now)
      BY <1>5, <2>2 DEF HookCommit
    <3> QED
      BY <1>4, <2>1, <2>2, <3>1 DEF Rewarded
  <2>3. CASE u \notin Touched(h)
    <3>1. rows'[u] = SessionView(h)[u]
      BY <1>5, <2>3 DEF HookCommit
    <3>2. IF u = hook[h].user THEN rows'[u] = FlushRow(rows[u], hook[h].base, hook[h].row) ELSE rows'[u] = rows[u]
      BY <2>3, <3>1 DEF SessionView
    <3> QED
      BY <1>4, <1>5, <2>1, <2>3, <3>2 DEF Billed, RowKept
  <2> QED
    BY <2>2, <2>3
<1>6. ASSUME NEW w \in Workers, WorkerCommit(w)
      PROVE  Rewarded(w, u) \/ (stats'[u] = stats[u] /\ RowKept(u))
  <2>1. CommitReferrals(w, rows)
    BY <1>6 DEF WorkerCommit
  <2>2. rows'[u] = IF u \in Touched(w) THEN RewardRow(rows[u], MonthsFor(u), now) ELSE rows[u]
    BY <1>6 DEF WorkerCommit
  <2> QED
    BY <1>4, <2>1, <2>2 DEF Rewarded, RowKept
<1>7. ASSUME NEW r \in Reqs, ReqCommit(r)
      PROVE  stats'[u] = stats[u] /\ (RowKept(u) \/ Requested(r, u))
  <2>1. rows' = [rows EXCEPT ![req[r].user] = FlushRow(@, req[r].base, req[r].row)] /\ stats' = stats
    BY <1>7 DEF ReqCommit
  <2> QED
    BY <1>7, <2>1 DEF Requested, RowKept, TypeInv, TypeOK
<1>8. CASE \E h \in Hooks : Webhook(h)
  BY <1>1, <1>5, <1>8
     DEF Webhook, HookReceive, HookActivate, HookDowngrade, HookNote, HookVerify, HookGiveUp
<1>9. CASE \E r \in Reqs : Request(r)
  BY <1>1, <1>7, <1>9 DEF Request, ReqRefresh, ReqSync, ReqGiveUp
<1>10. CASE Stripe
  BY <1>1, <1>10
     DEF Stripe, StripeSubscribe, StripeAdvance, StripeInvoice, StripePaymentFails,
         StripeCancel, StripeUpdate
<1>11. CASE \E w \in Workers : WorkerScan(w) \/ WorkerCommit(w) \/ WorkerRollback(w)
  BY <1>1, <1>6, <1>11 DEF WorkerScan, WorkerRollback
<1>12. CASE Tick \/ UNCHANGED vars
  BY <1>1, <1>12 DEF Tick, vars
<1> QED
  BY <1>2, <1>3, <1>8, <1>9, <1>10, <1>11, <1>12 DEF Next

Opens(h, e, u, base, row) ==
    hook'[h] = [stage |-> "open", event |-> e, user |-> u, base |-> base, row |-> row]

\* A request is opened on rows that its step leaves alone.
Opened(h, e) ==
    /\ AtLock(h, e) /\ UNCHANGED <<now, rows, referral, stats, audit, sub, events, req>>
    /\ \/ \E u \in Users : /\ events[e].type \in Activations /\ MayActivate(u, events[e])
                           /\ Opens(h, e, u, rows[u], Activated(rows[u], events[e]))
       \/ \E u \in Users : /\ events[e].type \in Downgrades /\ scan' = scan
                           /\ Opens(h, e, u, rows[u], DowngradeToFree(rows[u], "premium_inactive"))
       \/ \E u \in Users \cup {None} : \E row :
              events[e].type \in OtherEvents /\ scan' = scan /\ Opens(h, e, u, row, row)

LEMMA HookStep ==
    ASSUME TypeInv, [Next]_vars, NEW h \in Hooks, hook'[h].stage = "open"
    PROVE  hook'[h] = hook[h] \/ \E e \in 1..Len(events) : Opened(h, e)
<1>1. CASE UNCHANGED hook
  BY <1>1
<1>2. ASSUME NEW k \in Hooks, NEW e \in 1..MaxEvents, HookActivate(k, e)
      PROVE  hook'[h] = hook[h] \/ Opened(h, e)
  <2>1. PICK u \in Users :
          /\ MayActivate(u, events[e])
          /\ hook' = [hook EXCEPT ![k] = [stage |-> "open", event |-> e, user |-> u,
                          base |-> rows[u], row |-> Activated(rows[u], events[e])]]
    BY <1>2, ResolveType DEF HookActivate
  <2> QED
    BY <1>2, <2>1 DEF HookActivate, Opened, Opens, TypeInv, TypeOK
<1>3. ASSUME NEW k \in Hooks, NEW e \in 1..MaxEvents, HookDowngrade(k, e)
      PROVE  hook'[h] = hook[h] \/ Opened(h, e)
  <2>1. PICK u \in Users :
          hook' = [hook EXCEPT ![k] = [stage |-> "open", event |-> e, user |-> u,
                      base |-> rows[u], row |-> DowngradeToFree(rows[u], "premium_inactive")]]
    BY <1>3, ResolveType DEF HookDowngrade
  <2> QED
    BY <1>3, <2>1 DEF HookDowngrade, Opened, Opens, TypeInv, TypeOK
<1>4. ASSUME NEW k \in Hooks, NEW e \in 1..MaxEvents, HookNote(k, e)
      PROVE  hook'[h] = hook[h] \/ Opened(h, e)
  <2>1. \E u \in Users \cup {None} : \E row :
          hook' = [hook EXCEPT ![k] = [stage |-> "open", event |-> e, user |-> u, base |-> row, row |-> row]]
    BY <1>4 DEF HookNote
  <2> QED
    BY ZenonT(40), <1>4, <2>1 DEF HookNote, Opened, Opens, TypeInv, TypeOK
<1>5. ASSUME NEW k \in Hooks,
             (\E e \in 1..MaxEvents : HookReceive(k, e)) \/ HookVerify(k) \/ HookCommit(k) \/ HookGiveUp(k)
      PROVE  hook'[h] = hook[h]
  <2>1. \A j \in Hooks \ {k} : hook'[j] = hook[j]
    BY <1>5 DEF HookReceive, HookVerify, HookCommit, HookGiveUp, TypeInv, TypeOK
  <2>2. hook'[k].stage # "open"
    <3>1. CASE \E e \in 1..MaxEvents : HookReceive(k, e)
      BY <3>1 DEF HookReceive, TypeInv, TypeOK, IdleHook
    <3>2. CASE HookVerify(k)
      BY <3>2, IdleHookType DEF HookVerify, TypeInv, TypeOK, Hook
    <3>3. CASE HookCommit(k) \/ HookGiveUp(k)
      BY <3>3, IdleHookType DEF HookCommit, HookGiveUp, TypeInv, TypeOK
    <3> QED
      BY <1>5, <3>1, <3>2, <3>3
  <2> QED
    BY <2>1, <2>2
<1>6. ASSUME NEW k \in Hooks, Webhook(k) PROVE hook'[h] = hook[h] \/ \E e \in 1..Len(events) : Opened(h, e)
  <2>1. ASSUME NEW e, Opened(h, e) PROVE e \in 1..Len(events)
    BY <2>1 DEF Opened, AtLock
  <2> QED
    BY <1>2, <1>3, <1>4, <1>5, <1>6, <2>1 DEF Webhook
<1>7. CASE Stripe
  BY <1>1, <1>7
     DEF Stripe, StripeSubscribe, StripeAdvance, StripeInvoice, StripePaymentFails,
         StripeCancel, StripeUpdate
<1>8. CASE \E r \in Reqs : Request(r)
  BY <1>1, <1>8 DEF Request, ReqRefresh, ReqSync, ReqCommit, ReqGiveUp
<1> QED
  BY <1>1, <1>6, <1>7, <1>8
     DEF Next, vars, Tick, Register, SetEnabled, WorkerScan, WorkerCommit, WorkerRollback

\* A request of a user starts from the user's row.
Starts(r, u) ==
    \/ req'[r] = [kind |-> "refresh", user |-> u, base |-> rows[u], row |-> RefreshUserAccess(rows[u], now)]
    \/ req'[r] = [kind |-> "sync", user |-> u, base |-> rows[u], row |-> DowngradeToFree(rows[u], "premium_inactive")]

LEMMA ReqStep ==
    ASSUME TypeInv, [Next]_vars, NEW r \in Reqs
    PROVE  \/ req'[r] = req[r] \/ req'[r] = IdleReq
           \/ \E u \in Users : Registered(u) /\ Starts(r, u) /\ UNCHANGED <<rows, audit, hook>>
<1>1. CASE UNCHANGED req
  BY <1>1
<1>2. ASSUME NEW k \in Reqs, Request(k)
      PROVE  \/ req'[r] = req[r] \/ req'[r] = IdleReq
             \/ \E u \in Users : Registered(u) /\ Starts(r, u) /\ UNCHANGED <<rows, audit, hook>>
  <2>1. CASE ReqCommit(k) \/ ReqGiveUp(k)
    BY <2>1 DEF ReqCommit, ReqGiveUp, TypeInv, TypeOK
  <2>2. ASSUME NEW u \in Users, ReqRefresh(k, u) \/ ReqSync(k, u)
        PROVE  req'[r] = req[r] \/ (Registered(u) /\ Starts(r, u) /\ UNCHANGED <<rows, audit, hook>>)
    BY <2>2 DEF ReqRefresh, ReqSync, Starts, TypeInv, TypeOK
  <2> QED
    BY <1>2, <2>1, <2>2 DEF Request
<1>3. CASE \E h \in Hooks : Webhook(h)
  BY <1>1, <1>3
     DEF Webhook, HookReceive, HookActivate, HookDowngrade, HookNote, HookVerify, HookCommit, HookGiveUp
<1>4. CASE Stripe
  BY <1>1, <1>4
     DEF Stripe, StripeSubscribe, StripeAdvance, StripeInvoice, StripePaymentFails,
         StripeCancel, StripeUpdate
<1> QED
  BY <1>1, <1>2, <1>3, <1>4
     DEF Next, vars, Tick, Register, SetEnabled, WorkerScan, WorkerCommit, WorkerRollback

\* Of every column, a session writes its own value if it changed it.
LEMMA FlushColumns ==
    ASSUME NEW db \in Row, NEW base \in Row, NEW mine \in Row
    PROVE  LET row == FlushRow(db, base, mine) IN
               /\ row.plan = IF mine.plan # base.plan THEN mine.plan ELSE db.plan
               /\ row.planEnd = IF mine.planEnd # base.planEnd THEN mine.planEnd ELSE db.planEnd
               /\ row.cust = IF mine.cust # base.cust THEN mine.cust ELSE db.cust
               /\ row.sub = IF mine.sub # base.sub THEN mine.sub ELSE db.sub
BY DEF FlushRow, Row

-----------------------------------------------------------------------------
(***************************************************************************)
(* A group of referrals pays once.  The months are computed and booked in  *)
(* one transaction, from the number of validated referrals, so the books   *)
(* agree as long as that number never goes down: a referral is validated   *)
(* only after its user signed up, and nobody signs up twice.               *)
(***************************************************************************)
Erases(base, row) == row.plan # base.plan /\ row.plan = "none"

SignedUp ==
    /\ \A u \in Users : referral[u].status # "none" => Registered(u)
    /\ \A a \in Hooks \cup Workers : \A u \in scan[a].qualified : Registered(u)
    /\ \A h \in Hooks : hook[h].stage = "open" => ~Erases(hook[h].base, hook[h].row)
    /\ \A r \in Reqs : ~Erases(req[r].base, req[r].row)

RewardInv == RewardOnce /\ SignedUp

LEMMA RulesNeverErase ==
    ASSUME NEW row \in Row, NEW d \in Nat, NEW reason
    PROVE  /\ ~Erases(row, DowngradeToFree(row, reason))
           /\ ~Erases(row, RefreshUserAccess(row, d))
<1>1. RefreshUserAccess(row, d).plan \in {row.plan, "free", "expired"}
  BY DEF RefreshUserAccess, ExpireAccess, DowngradeToFree, TrialOver, PremiumOver, PaidPlans, Row
<1>2. DowngradeToFree(row, reason).plan = "free"
  BY DEF DowngradeToFree, Row
<1> QED
  BY <1>1, <1>2 DEF Erases

LEMMA ActivatedColumns ==
    ASSUME TypeOK, NEW row \in Row, NEW ev \in Event
    PROVE  /\ Activated(row, ev).plan = "premium"
           /\ Activated(row, ev).cust = ev.cust
           /\ Activated(row, ev).sub = ev.sub
           /\ Activated(row, ev).planEnd = IF row.planEnd = NoDay \/ row.planEnd < now
                                           THEN now + DefaultPlanDays(ev.product) ELSE row.planEnd
<1> DEFINE end == IF row.planEnd = NoDay \/ row.planEnd < now
                  THEN now + DefaultPlanDays(ev.product) ELSE row.planEnd
<1>1. ActivateSubscription(row, ev.product, now) =
        [row EXCEPT !.plan = "premium", !.status = "active", !.planEnd = end,
                    !.trialEnd = NoDay, !.access = Channels]
  BY DEF ActivateSubscription
<1> HIDE DEF end
<1>2. Activated(row, ev).plan = "premium" /\ Activated(row, ev).cust = ev.cust
      /\ Activated(row, ev).sub = ev.sub /\ Activated(row, ev).planEnd = end
  BY <1>1 DEF Activated, Row
<1> QED
  BY <1>2 DEF end

LEMMA StaysRegistered ==
    ASSUME TypeInv, SignedUp, [Next]_vars, NEW u \in Users, Registered(u)
    PROVE  Registered(u)'
<1>0. rows[u] \in Row
  BY DEF TypeInv, TypeOK
<1>1. CASE RowKept(u)
  BY <1>0, <1>1 DEF RowKept, Registered, Row
<1>2. ASSUME NEW a, Rewarded(a, u) PROVE Registered(u)'
  BY <1>0, <1>2, RewardKeepsPlan DEF Rewarded, Registered
<1>3. ASSUME NEW h \in Hooks, Billed(h, u) PROVE Registered(u)'
  <2>1. hook[h].base \in Row /\ hook[h].row \in Row /\ ~Erases(hook[h].base, hook[h].row)
    BY <1>3 DEF Billed, HookCommit, SignedUp, TypeInv, TypeOK, Hook
  <2> QED
    BY <1>0, <1>3, <2>1, FlushColumns DEF Billed, Registered, Erases
<1>4. ASSUME NEW r \in Reqs, Requested(r, u) PROVE Registered(u)'
  <2>1. req[r].base \in Row /\ req[r].row \in Row /\ ~Erases(req[r].base, req[r].row)
    BY DEF SignedUp, TypeInv, TypeOK, Req
  <2> QED
    BY <1>0, <1>4, <2>1, FlushColumns DEF Requested, Registered, Erases
<1> QED
  BY <1>1, <1>2, <1>3, <1>4, RowStep

LEMMA ReferralStep ==
    ASSUME TypeInv, [Next]_vars, NEW u \in Users
    PROVE  \/ referral'[u] = referral[u]
           \/ ~Registered(u) /\ rows'[u] = GrantTrialAccess(rows[u], now)
           \/ \E a \in Hooks \cup Workers : u \in scan[a].qualified /\ referral'[u].status = "validated"
                                            /\ referral'[u].referrer = referral[u].referrer
<1>1. CASE UNCHANGED referral
  BY <1>1
<1>2. ASSUME NEW v \in Users, Register(v)
      PROVE  referral'[u] = referral[u] \/ (~Registered(u) /\ rows'[u] = GrantTrialAccess(rows[u], now))
  BY <1>2 DEF Register, TypeInv, TypeOK
<1>3. ASSUME NEW a \in Hooks \cup Workers, NEW seen, CommitReferrals(a, seen)
      PROVE  \/ referral'[u] = referral[u]
             \/ u \in scan[a].qualified /\ referral'[u].status = "validated" /\ referral'[u].referrer = referral[u].referrer
  BY <1>3 DEF CommitReferrals, TypeInv, TypeOK, Referral
<1>4. CASE \E h \in Hooks : Webhook(h)
  BY <1>1, <1>3, <1>4
     DEF Webhook, HookReceive, HookActivate, HookDowngrade, HookNote, HookVerify, HookGiveUp, HookCommit
<1>5. CASE \E r \in Reqs : Request(r)
  BY <1>1, <1>5 DEF Request, ReqRefresh, ReqSync, ReqCommit, ReqGiveUp
<1>6. CASE Stripe
  BY <1>1, <1>6
     DEF Stripe, StripeSubscribe, StripeAdvance, StripeInvoice, StripePaymentFails,
         StripeCancel, StripeUpdate
<1> QED
  BY <1>1, <1>2, <1>3, <1>4, <1>5, <1>6 DEF Next, vars, Tick, SetEnabled, WorkerScan, WorkerCommit, WorkerRollback

\* A transaction that scans looks at referrals, which signed-up users have.
LEMMA ScanStep ==
    ASSUME TypeInv, [Next]_vars, NEW a \in Hooks \cup Workers
    PROVE  \/ scan'[a] \in {scan[a], NoScan}
           \/ UNCHANGED referral /\ \A u \in scan'[a].qualified : u \in Users /\ referral[u].status = "pending"
<1>1. CASE UNCHANGED scan
  BY <1>1
<1>2. ASSUME NEW b, NEW seen
      PROVE  \A u \in ScanReferrals(b, seen).qualified : u \in Users /\ referral[u].status = "pending"
  BY DEF ScanReferrals, Unlocked
<1>3. ASSUME NEW h \in Hooks, NEW e, HookActivate(h, e)
      PROVE  scan'[a] = scan[a] \/ (UNCHANGED referral /\ \E seen : scan'[a] = ScanReferrals(h, seen))
  BY <1>3 DEF HookActivate, TypeInv, TypeOK
<1>4. ASSUME NEW w \in Workers, WorkerScan(w)
      PROVE  scan'[a] = scan[a] \/ (UNCHANGED referral /\ \E seen : scan'[a] = ScanReferrals(w, seen))
  BY <1>4 DEF WorkerScan, TypeInv, TypeOK
<1>5. ASSUME NEW h \in Hooks, HookCommit(h) \/ HookGiveUp(h)
      PROVE  scan'[a] \in {scan[a], NoScan}
  BY <1>5 DEF HookCommit, CommitReferrals, HookGiveUp, TypeInv, TypeOK
<1>6. ASSUME NEW w \in Workers, WorkerCommit(w) \/ WorkerRollback(w)
      PROVE  scan'[a] \in {scan[a], NoScan}
  BY <1>6 DEF WorkerCommit, CommitReferrals, WorkerRollback, TypeInv, TypeOK
<1>7. CASE \E h \in Hooks : Webhook(h)
  BY <1>1, <1>2, <1>3, <1>5, <1>7 DEF Webhook, HookReceive, HookDowngrade, HookNote, HookVerify
<1>8. CASE \E r \in Reqs : Request(r)
  BY <1>1, <1>8 DEF Request, ReqRefresh, ReqSync, ReqCommit, ReqGiveUp
<1>9. CASE Stripe
  BY <1>1, <1>9
     DEF Stripe, StripeSubscribe, StripeAdvance, StripeInvoice, StripePaymentFails,
         StripeCancel, StripeUpdate
<1> QED
  BY <1>1, <1>2, <1>4, <1>6, <1>7, <1>8, <1>9 DEF Next, vars, Tick, Register, SetEnabled

LEMMA SignedUpKept ==
    ASSUME TypeInv, SignedUp, [Next]_vars
    PROVE  SignedUp'
<1>1. ASSUME NEW u \in Users, referral'[u].status # "none" PROVE Registered(u)'
  <2>1. CASE referral'[u] = referral[u]
    BY <1>1, <2>1, StaysRegistered DEF SignedUp
  <2>2. CASE rows'[u] = GrantTrialAccess(rows[u], now)
    BY <2>2 DEF Registered, GrantTrialAccess, TypeInv, TypeOK, Row
  <2>3. ASSUME NEW a \in Hooks \cup Workers, u \in scan[a].qualified PROVE Registered(u)'
    BY <2>3, StaysRegistered DEF SignedUp
  <2> QED
    BY <2>1, <2>2, <2>3, ReferralStep
<1>2. ASSUME NEW a \in Hooks \cup Workers, NEW u \in scan'[a].qualified PROVE Registered(u)'
  <2>1. NoScan.qualified = {} /\ scan[a].qualified \subseteq Users
    BY DEF NoScan, TypeInv, TypeOK, Scan
  <2> QED
    BY <2>1, StaysRegistered, ScanStep DEF SignedUp
<1>3. ASSUME NEW h \in Hooks, hook'[h].stage = "open" PROVE ~Erases(hook'[h].base, hook'[h].row)
  <2>1. CASE hook'[h] = hook[h]
    BY <1>3, <2>1 DEF SignedUp
  <2>2. ASSUME NEW e \in 1..Len(events), Opened(h, e) PROVE ~Erases(hook'[h].base, hook'[h].row)
    <3>1. events[e] \in Event
      BY EventAt
    <3>2. ASSUME NEW u \in Users, Opens(h, e, u, rows[u], Activated(rows[u], events[e]))
          PROVE  ~Erases(hook'[h].base, hook'[h].row)
      BY <3>1, <3>2, ActivatedColumns DEF Opens, Erases, TypeInv, TypeOK
    <3>3. ASSUME NEW u \in Users, Opens(h, e, u, rows[u], DowngradeToFree(rows[u], "premium_inactive"))
          PROVE  ~Erases(hook'[h].base, hook'[h].row)
      BY <3>3, RulesNeverErase DEF Opens, TypeInv, TypeOK
    <3>4. ASSUME NEW u, NEW row, Opens(h, e, u, row, row) PROVE ~Erases(hook'[h].base, hook'[h].row)
      BY <3>4 DEF Opens, Erases
    <3> QED
      BY <2>2, <3>2, <3>3, <3>4 DEF Opened
  <2> QED
    BY <1>3, <2>1, <2>2, HookStep
<1>4. ASSUME NEW r \in Reqs PROVE ~Erases(req'[r].base, req'[r].row)
  <2>1. ~Erases(IdleReq.base, IdleReq.row)
    BY DEF IdleReq, Erases
  <2>2. ASSUME NEW u \in Users, Starts(r, u) PROVE ~Erases(req'[r].base, req'[r].row)
    BY <2>2, RulesNeverErase DEF Starts, TypeInv, TypeOK
  <2> QED
    BY <2>1, <2>2, ReqStep DEF SignedUp
<1> QED
  BY <1>1, <1>2, <1>3, <1>4 DEF SignedUp, Erases

LEMMA DivMonotone ==
    ASSUME NEW a \in Nat, NEW b \in Nat, a <= b
    PROVE  EarnedMonths(a) <= EarnedMonths(b)
BY RewardAssumption, SMT DEF EarnedMonths

LEMMA ValidatedGrows ==
    ASSUME TypeInv, SignedUp, [Next]_vars, NEW f \in Users
    PROVE  /\ Validated(f) \subseteq Validated(f)'
           /\ Cardinality(Validated(f)) <= Cardinality(Validated(f)')
           /\ EarnedMonths(Cardinality(Validated(f))) <= EarnedMonths(Cardinality(Validated(f)'))
<1>1. Validated(f) \subseteq Validated(f)'
  <2> SUFFICES ASSUME NEW r \in Validated(f) PROVE r \in Validated(f)'
    OBVIOUS
  <2>1. r \in Users /\ referral[r].referrer = f /\ referral[r].status = "validated" /\ Registered(r)
    BY DEF Validated, SignedUp
  <2> QED
    BY <2>1, ReferralStep DEF Validated
<1>2. IsFiniteSet(Validated(f)')
  <2>1. Validated(f)' \subseteq Users
    BY DEF Validated
  <2> QED
    BY <2>1, BillingAssumption, FS_Subset
<1>3. Cardinality(Validated(f)) <= Cardinality(Validated(f)') /\ Cardinality(Validated(f)') \in Nat
  BY <1>1, <1>2, FS_Subset, FS_CardinalityType
<1> QED
  BY <1>1, <1>3, ValidatedFinite, DivMonotone

LEMMA RewardKept ==
    ASSUME TypeInv, RewardInv, [Next]_vars
    PROVE  RewardInv'
<1> DEFINE n(u) == Cardinality(Validated(u))
<1> SUFFICES ASSUME NEW u \in Users
             PROVE  /\ stats'[u].balance = stats'[u].level
                    /\ stats'[u].level <= EarnedMonths(n(u)')
                    /\ stats'[u].total <= n(u)'
  BY SignedUpKept DEF RewardInv, RewardOnce
<1>1. /\ n(u) \in Nat /\ EarnedMonths(n(u)) \in Nat
      /\ n(u) <= n(u)' /\ EarnedMonths(n(u)) <= EarnedMonths(n(u)')
  BY ValidatedFinite, EarnedType, ValidatedGrows DEF RewardInv
<1>2. n(u)' \in Nat /\ EarnedMonths(n(u)') \in Nat
  <2>1. Validated(u)' \subseteq Users
    BY DEF Validated
  <2>2. n(u)' \in Nat
    BY <2>1, BillingAssumption, FS_Subset, FS_CardinalityType
  <2> QED
    BY <2>2, EarnedType
<1>3. /\ stats[u] \in Stats /\ stats[u].balance = stats[u].level
      /\ stats[u].level <= EarnedMonths(n(u)) /\ stats[u].total <= n(u)
  BY DEF TypeInv, TypeOK, RewardInv, RewardOnce
<1>4. CASE stats'[u] = stats[u]
  BY <1>1, <1>2, <1>3, <1>4 DEF Stats
<1>5. ASSUME NEW active, stats'[u] = SyncStats(stats[u], n(u), active, MonthsFor(u))
      PROVE  /\ stats'[u].balance = stats'[u].level
             /\ stats'[u].level <= EarnedMonths(n(u)')
             /\ stats'[u].total <= n(u)'
  <2>1. /\ stats'[u].total = n(u)
        /\ stats'[u].level = IF MonthsFor(u) > 0 THEN EarnedMonths(n(u)) ELSE stats[u].level
        /\ stats'[u].balance = stats[u].balance + MonthsFor(u)
    BY <1>5 DEF SyncStats
  <2>2. MonthsFor(u) \in {0, EarnedMonths(n(u)) - stats[u].level}
    BY DEF MonthsFor, NewMonths
  <2> HIDE DEF n
  <2> QED
    BY <1>1, <1>2, <1>3, <2>1, <2>2 DEF Stats
<1> QED
  BY <1>4, <1>5, RowStep DEF Rewarded

LEMMA RewardInit == Init => RewardInv
<1> SUFFICES ASSUME Init PROVE RewardInv
  OBVIOUS
<1>1. SignedUp
  BY DEF Init, SignedUp, NoReferral, NoScan, IdleHook, IdleReq, Erases
<1>2. ASSUME NEW u \in Users
      PROVE  stats[u].balance = 0 /\ stats[u].level = 0 /\ stats[u].total = 0
  BY DEF Init, NoStats
<1> QED
  BY <1>1, <1>2, ValidatedFinite, EarnedType DEF RewardInv, RewardOnce

\* However the webhook and the referral workers interleave, a group of referrals
\* is paid once: the months on the balance are those booked as processed, and no
\* more than the validated referrals have earned (_sync_referrer_stats).
THEOREM RewardHolds == Spec => []RewardOnce
<1>1. RewardInv => RewardOnce
  BY DEF RewardInv
<1> QED
  BY <1>1, RewardInit, RewardKept, TypeCorrect, PTL DEF Spec

-----------------------------------------------------------------------------
(***************************************************************************)
(* An account keeps its subscription and its customer record to itself.    *)
(* They are compared with those of the others when a transaction is        *)
(* opened; nothing but a webhook's commit changes them, and in one process *)
(* no other transaction is open until then.                                *)
(***************************************************************************)
SameIds(a, b) == a.cust = b.cust /\ a.sub = b.sub

\* What an open transaction is about to write belongs to no other account.
Claims(h) ==
    \A v \in Users \ {hook[h].user} :
        /\ hook[h].row.sub # hook[h].base.sub => rows[v].sub # hook[h].row.sub
        /\ hook[h].row.cust # hook[h].base.cust => rows[v].cust # hook[h].row.cust

OwnedInv ==
    /\ SubscriptionOwnedOnce
    /\ \A r \in Reqs : SameIds(req[r].base, req[r].row)
    /\ \A h \in Hooks : hook[h].stage = "open" => Claims(h)

LEMMA RulesKeepIds ==
    ASSUME NEW row \in Row, NEW d, NEW months, NEW reason, NEW flag
    PROVE  /\ SameIds(row, GrantTrialAccess(row, d))
           /\ SameIds(row, RewardRow(row, months, d))
           /\ SameIds(row, DowngradeToFree(row, reason))
           /\ SameIds(row, RefreshUserAccess(row, d))
           /\ SameIds(row, [row EXCEPT !.enabled = flag])
<1>1. /\ SameIds(row, GrantTrialAccess(row, d))
      /\ SameIds(row, [row EXCEPT !.enabled = flag])
  BY DEF SameIds, GrantTrialAccess, Row
<1>2. SameIds(row, RewardRow(row, months, d))
  BY DEF SameIds, RewardRow, Row
<1>3. /\ SameIds(row, DowngradeToFree(row, reason))
      /\ SameIds(row, DowngradeToFree(row, "trial_ended"))
      /\ SameIds(row, DowngradeToFree(row, "premium_expired"))
      /\ SameIds(row, ExpireAccess(row, "inactive"))
  BY DEF SameIds, DowngradeToFree, ExpireAccess, Row
<1>4. SameIds(row, RefreshUserAccess(row, d))
  BY <1>3 DEF SameIds, RefreshUserAccess, TrialOver, PremiumOver, PaidPlans, Row
<1> QED
  BY <1>1, <1>2, <1>3, <1>4

\* Only the commit of a webhook writes these columns.
LEMMA IdsStep ==
    ASSUME TypeInv, OwnedInv, [Next]_vars, NEW u \in Users
    PROVE  SameIds(rows[u], rows'[u]) \/ \E h \in Hooks : Billed(h, u)
<1>0. rows[u] \in Row
  BY DEF TypeInv, TypeOK
<1>1. CASE RowKept(u)
  <2>1. CASE rows'[u] = rows[u] \/ rows'[u] = GrantTrialAccess(rows[u], now)
    BY <1>0, <2>1, RulesKeepIds DEF SameIds
  <2>2. ASSUME NEW flag, rows'[u] = [rows[u] EXCEPT !.enabled = flag] PROVE SameIds(rows[u], rows'[u])
    BY <1>0, <2>2, RulesKeepIds
  <2> QED
    BY <1>1, <2>1, <2>2 DEF RowKept
<1>2. ASSUME NEW a, Rewarded(a, u) PROVE SameIds(rows[u], rows'[u])
  BY <1>0, <1>2, RulesKeepIds DEF Rewarded
<1>3. ASSUME NEW r \in Reqs, Requested(r, u) PROVE SameIds(rows[u], rows'[u])
  <2>1. req[r].base \in Row /\ req[r].row \in Row /\ SameIds(req[r].base, req[r].row)
    BY DEF OwnedInv, TypeInv, TypeOK, Req
  <2> QED
    BY <1>0, <1>3, <2>1, FlushColumns DEF Requested, SameIds
<1> QED
  BY <1>1, <1>2, <1>3, RowStep

LEMMA OwnedKept ==
    ASSUME SingleProcess, TypeInv, OnceInv, OwnedInv, [Next]_vars
    PROVE  OwnedInv'
<1>1. ASSUME NEW h \in Hooks, NEW u \in Users, Billed(h, u)
      PROVE  /\ hook[h].stage = "open" /\ Claims(h) /\ u = hook[h].user
             /\ \A v \in Users \ {u} : SameIds(rows[v], rows'[v])
             /\ rows'[u].sub \in {rows[u].sub, hook[h].row.sub} /\ rows'[u].cust \in {rows[u].cust, hook[h].row.cust}
             /\ rows'[u].sub # rows[u].sub => hook[h].row.sub # hook[h].base.sub
             /\ rows'[u].cust # rows[u].cust => hook[h].row.cust # hook[h].base.cust
  <2>1. hook[h].stage = "open" /\ u = hook[h].user /\ Claims(h)
    BY <1>1 DEF Billed, HookCommit, OwnedInv
  <2>2. ASSUME NEW v \in Users \ {u} PROVE SameIds(rows[v], rows'[v])
    <3>1. ~\E k \in Hooks : Billed(k, v)
      BY <2>1 DEF Billed, HookCommit, OnceInv, OneOpen
    <3> QED
      BY <3>1, IdsStep
  <2>3. hook[h].base \in Row /\ hook[h].row \in Row /\ rows[u] \in Row
    BY DEF TypeInv, TypeOK, Hook
  <2> QED
    BY <1>1, <2>1, <2>2, <2>3, FlushColumns DEF Billed
<1>2. SubscriptionOwnedOnce'
  <2>1. CASE \A v \in Users : SameIds(rows[v], rows'[v])
    BY <2>1 DEF SameIds, OwnedInv, SubscriptionOwnedOnce
  <2>2. ASSUME NEW h \in Hooks, NEW u \in Users, Billed(h, u) PROVE SubscriptionOwnedOnce'
    <3> USE <1>1, <2>2
    <3>1. ASSUME NEW v \in Users \ {u} PROVE rows'[u].sub # None => rows'[u].sub # rows'[v].sub
      BY DEF Claims, SameIds, OwnedInv, SubscriptionOwnedOnce
    <3>2. ASSUME NEW v \in Users \ {u} PROVE rows'[u].cust # None => rows'[u].cust # rows'[v].cust
      BY DEF Claims, SameIds, OwnedInv, SubscriptionOwnedOnce
    <3>3. ASSUME NEW v \in Users \ {u}, NEW w \in Users \ {u}, v # w
          PROVE  /\ rows'[v].sub # None => rows'[v].sub # rows'[w].sub
                 /\ rows'[v].cust # None => rows'[v].cust # rows'[w].cust
      BY <3>3 DEF SameIds, OwnedInv, SubscriptionOwnedOnce
    <3> QED
      BY <3>1, <3>2, <3>3 DEF SubscriptionOwnedOnce
  <2> QED
    BY <2>1, <2>2, IdsStep
<1>3. ASSUME NEW r \in Reqs PROVE SameIds(req'[r].base, req'[r].row)
  <2>1. SameIds(IdleReq.base, IdleReq.row)
    BY DEF IdleReq, SameIds
  <2>2. ASSUME NEW u \in Users, Starts(r, u) PROVE SameIds(req'[r].base, req'[r].row)
    <3>1. /\ req'[r].base = rows[u] /\ rows[u] \in Row
          /\ req'[r].row \in {RefreshUserAccess(rows[u], now), DowngradeToFree(rows[u], "premium_inactive")}
      BY <2>2 DEF Starts, TypeInv, TypeOK
    <3> QED
      BY <3>1, RulesKeepIds
  <2> QED
    BY <2>1, <2>2, ReqStep DEF OwnedInv
<1>4. ASSUME NEW h \in Hooks, hook'[h].stage = "open" PROVE Claims(h)'
  <2>1. CASE hook'[h] = hook[h]
    <3>1. hook[h].stage = "open" /\ Claims(h)
      BY <1>4, <2>1 DEF OwnedInv
    <3>2. ASSUME NEW v \in Users PROVE SameIds(rows[v], rows'[v])
      <4>1. ASSUME NEW k \in Hooks, Billed(k, v) PROVE FALSE
        <5>1. k = h
          BY <3>1, <4>1 DEF Billed, HookCommit, OnceInv, OneOpen
        <5>2. hook'[h].stage = "idle"
          BY <4>1, <5>1, IdleHookType DEF Billed, HookCommit, TypeInv, TypeOK
        <5> QED
          BY <1>4, <5>2
      <4> QED
        BY <4>1, IdsStep
    <3> QED
      BY <2>1, <3>1, <3>2 DEF Claims, SameIds
  <2>2. ASSUME NEW e \in 1..Len(events), Opened(h, e) PROVE Claims(h)'
    <3>1. events[e] \in Event /\ rows' = rows
      BY <2>2, EventAt DEF Opened
    <3>2. ASSUME NEW u \in Users, MayActivate(u, events[e]),
                 Opens(h, e, u, rows[u], Activated(rows[u], events[e]))
          PROVE  Claims(h)'
      <4>0. rows[u] \in Row /\ TypeOK
        BY DEF TypeInv, TypeOK
      <4>1. /\ hook'[h].user = u
            /\ hook'[h].row.cust = events[e].cust /\ hook'[h].row.sub = events[e].sub
        BY <3>1, <3>2, <4>0, ActivatedColumns DEF Opens
      <4> QED
        BY <3>1, <3>2, <4>1 DEF Claims, MayActivate
    <3>3. ASSUME NEW u, NEW base, NEW row, Opens(h, e, u, base, row), SameIds(base, row)
          PROVE  Claims(h)'
      BY <3>3 DEF Opens, Claims, SameIds
    <3>4. ASSUME NEW u \in Users PROVE SameIds(rows[u], DowngradeToFree(rows[u], "premium_inactive"))
      BY RulesKeepIds DEF TypeInv, TypeOK
    <3>5. \A row : SameIds(row, row)
      BY DEF SameIds
    <3> QED
      BY <2>2, <3>2, <3>3, <3>4, <3>5 DEF Opened
  <2> QED
    BY <1>4, <2>1, <2>2, HookStep
<1> QED
  BY <1>2, <1>3, <1>4 DEF OwnedInv, Claims, SameIds

LEMMA OnceAlways == ASSUME SingleProcess PROVE Spec => []OnceInv
<1>1. Init => OnceInv
  BY DEF Init, OnceInv, EventOnce, OneOpen, OpenIsNew, IdleHook
<1> QED
  BY <1>1, NextOnce, TypeCorrect, PTL DEF Spec

\* Served by one process, no two accounts ever live on one Stripe subscription or
\* one customer record, although no column is unique: the check of a webhook is
\* still true when it commits (_ensure_customer_ownership).
THEOREM OwnershipHolds == ASSUME SingleProcess PROVE Spec => []SubscriptionOwnedOnce
<1>1. Init => OwnedInv
  <2> SUFFICES ASSUME Init PROVE OwnedInv
    OBVIOUS
  <2>1. SubscriptionOwnedOnce
    BY DEF Init, SubscriptionOwnedOnce, Absent
  <2> QED
    BY <2>1 DEF Init, OwnedInv, IdleHook, IdleReq, SameIds
<1>2. OwnedInv => SubscriptionOwnedOnce
  BY DEF OwnedInv
<1> QED
  BY <1>1, <1>2, OwnedKept, OnceAlways, TypeCorrect, PTL DEF Spec

-----------------------------------------------------------------------------
(***************************************************************************)
(* Paid access rests on an activation that no downgrade has followed.  In  *)
(* one process nothing but a request of the user, which never buys, gets   *)
(* between the reading of a row and the commit of what the webhook made of *)
(* it; and a downgrade pays no reward, which would put the old row back.   *)
(***************************************************************************)
TypeOf(h) == events[hook[h].event].type

ActivationOpen(h) ==
    /\ hook[h].row.sub = events[hook[h].event].sub
    /\ \A u \in Users : u = hook[h].user => hook[h].base.sub = rows[u].sub

DowngradeOpen(h) ==
    /\ hook[h].row.plan = "free"
    /\ \A u \in Users : u = hook[h].user /\ hook[h].base.plan = "free" => rows[u].plan \notin PaidPlans

CurrentInv ==
    /\ PremiumIsCurrent
    /\ \A h \in Hooks : hook[h].stage = "open" =>
           /\ TypeOf(h) \in Activations => ActivationOpen(h)
           /\ TypeOf(h) \in Downgrades => DowngradeOpen(h)
           /\ TypeOf(h) \in OtherEvents => hook[h].row = hook[h].base
    /\ \A h \in Hooks : scan[h].qualified # {} => hook[h].stage = "open" /\ TypeOf(h) \in Activations

\* Some activation of the user's subscription that no downgrade has followed.
Current(u) ==
    \E i \in 1..Len(audit) :
        /\ audit[i].user = u /\ audit[i].type \in Activations /\ audit[i].sub = rows[u].sub
        /\ \A j \in (i+1)..Len(audit) : audit[j].user = u => audit[j].type \notin Downgrades

LEMMA CurrentStays ==
    ASSUME TypeInv, NEW u \in Users, Current(u), rows'[u].sub = rows[u].sub,
           audit' = audit \/ \E x : audit' = Append(audit, x) /\ (x.user = u => x.type \notin Downgrades)
    PROVE  Current(u)'
<1>1. CASE audit' = audit
  BY <1>1 DEF Current
<1>2. ASSUME NEW x, audit' = Append(audit, x), x.user = u => x.type \notin Downgrades
      PROVE  Current(u)'
  <2>1. PICK i \in 1..Len(audit) :
          /\ audit[i].user = u /\ audit[i].type \in Activations /\ audit[i].sub = rows[u].sub
          /\ \A j \in (i+1)..Len(audit) : audit[j].user = u => audit[j].type \notin Downgrades
    BY DEF Current
  <2>2. /\ Len(audit') = Len(audit) + 1 /\ audit'[Len(audit) + 1] = x /\ Len(audit) \in Nat
        /\ \A j \in 1..Len(audit) : audit'[j] = audit[j]
    BY <1>2 DEF TypeInv, TypeOK
  <2>3. ASSUME NEW j \in (i+1)..Len(audit'), audit'[j].user = u PROVE audit'[j].type \notin Downgrades
    <3>1. CASE j = Len(audit) + 1
      BY <1>2, <2>2, <2>3, <3>1
    <3>2. CASE j # Len(audit) + 1
      <4>1. j \in (i+1)..Len(audit) /\ j \in 1..Len(audit)
        BY <2>2, <3>2
      <4> QED
        BY <2>1, <2>2, <2>3, <4>1
    <3> QED
      BY <3>1, <3>2
  <2> QED
    BY <2>1, <2>2, <2>3 DEF Current
<1> QED
  BY <1>1, <1>2

LEMMA CurrentStarts ==
    ASSUME TypeInv, NEW u \in Users, NEW x, audit' = Append(audit, x),
           x.user = u, x.type \in Activations, x.sub = rows'[u].sub
    PROVE  Current(u)'
<1>1. Len(audit') = Len(audit) + 1 /\ audit'[Len(audit) + 1] = x /\ Len(audit) \in Nat
  BY DEF TypeInv, TypeOK
<1>2. \A j : j \notin (Len(audit) + 2)..(Len(audit) + 1)
  BY <1>1
<1> QED
  BY <1>1, <1>2 DEF Current

LEMMA CommitStep ==
    ASSUME NEW h \in Hooks, NEW u \in Users, HookCommit(h)
    PROVE  /\ hook[h].stage = "open" /\ audit' = Append(audit, HookAudit(h))
           /\ rows'[u] = IF u \in Touched(h) THEN RewardRow(rows[u], MonthsFor(u), now)
                         ELSE IF u = hook[h].user THEN FlushRow(rows[u], hook[h].base, hook[h].row)
                         ELSE rows[u]
BY DEF HookCommit, SessionView

LEMMA AuditStep ==
    ASSUME [Next]_vars
    PROVE  \/ \E h \in Hooks : HookCommit(h)
           \/ audit' = audit
           \/ \E x : audit' = Append(audit, x) /\ x.type = "subscription_sync"
<1>1. CASE \E h \in Hooks : Webhook(h)
  BY <1>1 DEF Webhook, HookReceive, HookActivate, HookDowngrade, HookNote, HookVerify, HookGiveUp
<1>2. CASE \E r \in Reqs : Request(r)
  BY <1>2 DEF Request, ReqRefresh, ReqSync, ReqCommit, ReqGiveUp
<1>3. CASE Stripe
  BY <1>3
     DEF Stripe, StripeSubscribe, StripeAdvance, StripeInvoice, StripePaymentFails,
         StripeCancel, StripeUpdate
<1> QED
  BY <1>1, <1>2, <1>3 DEF Next, vars, Tick, Register, SetEnabled, WorkerScan, WorkerCommit, WorkerRollback

LEMMA EventsStay ==
    ASSUME TypeInv, [Next]_vars
    PROVE  \A e \in 1..Len(events) : events'[e] = events[e]
<1>1. CASE UNCHANGED events
  BY <1>1
<1>2. CASE Stripe
  <2>1. \E x : events' = Append(events, x)
    BY <1>2 DEF Stripe, StripeSubscribe, StripeAdvance, StripeInvoice, StripePaymentFails,
                StripeCancel, StripeUpdate, Emit
  <2> QED
    BY <2>1 DEF TypeInv, TypeOK
<1>3. CASE \E h \in Hooks : Webhook(h)
  BY <1>1, <1>3
     DEF Webhook, HookReceive, HookActivate, HookDowngrade, HookNote, HookVerify, HookCommit, HookGiveUp
<1>4. CASE \E r \in Reqs : Request(r)
  BY <1>1, <1>4 DEF Request, ReqRefresh, ReqSync, ReqCommit, ReqGiveUp
<1> QED
  BY <1>1, <1>2, <1>3, <1>4
     DEF Next, vars, Tick, Register, SetEnabled, WorkerScan, WorkerCommit, WorkerRollback

\* Without the commit of a webhook nobody becomes a paying user.
LEMMA PlanStep ==
    ASSUME TypeInv, BoughtInv, [Next]_vars, NEW u \in Users, rows'[u].plan \in PaidPlans,
           ~\E h \in Hooks : Billed(h, u)
    PROVE  rows[u].plan \in PaidPlans
<1>0. rows[u] \in Row
  BY DEF TypeInv, TypeOK
<1>1. CASE RowKept(u)
  BY <1>0, <1>1 DEF RowKept, GrantTrialAccess, Row, PaidPlans
<1>2. ASSUME NEW a, Rewarded(a, u) PROVE rows[u].plan \in PaidPlans
  BY <1>0, <1>2, RewardKeepsPlan DEF Rewarded
<1>3. ASSUME NEW r \in Reqs, Requested(r, u) PROVE rows[u].plan \in PaidPlans
  <2>1. req[r].base \in Row /\ req[r].row \in Row
    BY DEF TypeInv, TypeOK, Req
  <2> QED
    BY <1>0, <1>3, <2>1, FlushBuys DEF Requested, BoughtInv, RequestsNeverBuy
<1> QED
  BY <1>1, <1>2, <1>3, RowStep

\* The referrals a webhook has locked are forgotten when it ends.
LEMMA ScanHook ==
    ASSUME TypeInv, CurrentInv, [Next]_vars, NEW h \in Hooks, scan'[h].qualified # {}
    PROVE  hook'[h].stage = "open" /\ TypeOf(h)' \in Activations
<1>0. Hooks \cap Workers = {} /\ NoScan.qualified = {}
  BY BillingAssumption DEF NoScan
<1>1. CASE scan'[h] = scan[h] /\ hook'[h] = hook[h]
  <2>1. hook[h].stage = "open" /\ TypeOf(h) \in Activations
    BY <1>1 DEF CurrentInv
  <2>2. hook[h].event \in 1..Len(events)
    BY <2>1 DEF TypeInv, HookOK
  <2> QED
    BY <1>1, <2>1, <2>2, EventsStay DEF TypeOf
<1>2. ASSUME NEW k \in Hooks, NEW e, HookActivate(k, e) PROVE hook'[h].stage = "open" /\ TypeOf(h)' \in Activations
  <2>1. CASE k = h
    <3>1. \E u, row : hook' = [hook EXCEPT ![k] = [stage |-> "open", event |-> e, user |-> u,
                                                  base |-> rows[u], row |-> row]]
      BY <1>2 DEF HookActivate
    <3>2. hook'[h].stage = "open" /\ hook'[h].event = e
      BY <2>1, <3>1 DEF TypeInv, TypeOK
    <3> QED
      BY <1>2, <3>2 DEF HookActivate, TypeOf
  <2>2. CASE k # h
    BY <1>1, <1>2, <2>2 DEF HookActivate, TypeInv, TypeOK
  <2> QED
    BY <2>1, <2>2
<1>3. ASSUME NEW k \in Hooks, NEW e, HookReceive(k, e) \/ HookDowngrade(k, e) \/ HookNote(k, e)
      PROVE  hook'[h].stage = "open" /\ TypeOf(h)' \in Activations
  <2>1. hook[k].stage # "open" /\ scan' = scan
    BY <1>3 DEF HookReceive, HookDowngrade, HookNote, AtLock
  <2>2. k # h
    BY <2>1 DEF CurrentInv
  <2>3. hook'[h] = hook[h]
    <3>1. CASE HookReceive(k, e)
      BY <2>2, <3>1 DEF HookReceive, TypeInv, TypeOK
    <3>2. CASE HookDowngrade(k, e)
      BY <2>2, <3>2 DEF HookDowngrade, TypeInv, TypeOK
    <3>3. CASE HookNote(k, e)
      BY <2>2, <3>3 DEF HookNote, TypeInv, TypeOK
    <3> QED
      BY <1>3, <3>1, <3>2, <3>3
  <2> QED
    BY <1>1, <2>1, <2>3
<1>4. ASSUME NEW k \in Hooks, HookVerify(k) PROVE hook'[h].stage = "open" /\ TypeOf(h)' \in Activations
  <2>1. hook[k].stage # "open" /\ scan' = scan
    BY <1>4 DEF HookVerify
  <2>2. k # h
    BY <2>1 DEF CurrentInv
  <2> QED
    BY <1>1, <1>4, <2>1, <2>2 DEF HookVerify, TypeInv, TypeOK
<1>5. ASSUME NEW k \in Hooks, HookCommit(k) \/ HookGiveUp(k)
      PROVE  hook'[h].stage = "open" /\ TypeOf(h)' \in Activations
  <2>1. scan' = [scan EXCEPT ![k] = NoScan] /\ hook' = [hook EXCEPT ![k] = IdleHook]
    BY <1>5 DEF HookCommit, CommitReferrals, HookGiveUp
  <2> QED
    BY <1>0, <1>1, <2>1 DEF TypeInv, TypeOK
<1>6. ASSUME NEW w \in Workers, WorkerScan(w) \/ WorkerCommit(w) \/ WorkerRollback(w)
      PROVE  hook'[h].stage = "open" /\ TypeOf(h)' \in Activations
  <2>1. hook' = hook /\ w # h /\ \E x : scan' = [scan EXCEPT ![w] = x]
    BY <1>0, <1>6 DEF WorkerScan, WorkerCommit, WorkerRollback, CommitReferrals
  <2> QED
    BY <1>1, <2>1 DEF TypeInv, TypeOK
<1>7. CASE \E k \in Hooks : Webhook(k)
  BY <1>2, <1>3, <1>4, <1>5, <1>7 DEF Webhook
<1>8. CASE \E r \in Reqs : Request(r)
  BY <1>1, <1>8 DEF Request, ReqRefresh, ReqSync, ReqCommit, ReqGiveUp
<1>9. CASE Stripe
  BY <1>1, <1>9
     DEF Stripe, StripeSubscribe, StripeAdvance, StripeInvoice, StripePaymentFails,
         StripeCancel, StripeUpdate
<1> QED
  BY <1>1, <1>6, <1>7, <1>8, <1>9 DEF Next, vars, Tick, Register, SetEnabled

LEMMA CommitCurrent ==
    ASSUME TypeInv, CurrentInv, NEW h \in Hooks, HookCommit(h), NEW u \in Users, rows'[u].plan \in PaidPlans
    PROVE  Current(u)'
<1> DEFINE x == HookAudit(h)
<1>0. /\ hook[h].stage = "open" /\ audit' = Append(audit, x)
      /\ x.user = hook[h].user /\ x.type = TypeOf(h) /\ x.sub = events[hook[h].event].sub
      /\ rows[u] \in Row /\ hook[h].base \in Row /\ hook[h].row \in Row
  BY CommitStep DEF HookAudit, TypeOf, TypeInv, TypeOK, Hook
<1>1. rows[u].plan \in PaidPlans => Current(u)
  BY DEF CurrentInv, PremiumIsCurrent, Current
<1>2. TypeOf(h) \in Activations \cup Downgrades \cup OtherEvents
  <2>1. events[hook[h].event] \in Event
    BY <1>0, EventAt DEF TypeInv, HookOK
  <2> QED
    BY <2>1 DEF Event, TypeOf
<1>3. TypeOf(h) \in Activations \cup OtherEvents => TypeOf(h) \notin Downgrades
  BY DEF Activations, Downgrades, OtherEvents
<1> HIDE DEF x
<1>4. CASE u \in Touched(h)
  <2>1. rows'[u] = RewardRow(rows[u], MonthsFor(u), now)
    BY <1>4, CommitStep
  <2>2. SameIds(rows[u], rows'[u]) /\ rows[u].plan \in PaidPlans
    <3>1. SameIds(rows[u], RewardRow(rows[u], MonthsFor(u), now))
      BY <1>0, RulesKeepIds
    <3>2. RewardRow(rows[u], MonthsFor(u), now).plan = rows[u].plan
      BY <1>0, RewardKeepsPlan
    <3> QED
      BY <2>1, <3>1, <3>2
  <2>3. TypeOf(h) \in Activations
    <3>1. scan[h].qualified # {}
      BY <1>4 DEF Touched
    <3> QED
      BY <3>1 DEF CurrentInv
  <2> QED
    BY <1>0, <1>1, <1>3, <2>2, <2>3, CurrentStays DEF SameIds
<1>5. CASE u \notin Touched(h) /\ u # hook[h].user
  <2>1. rows'[u] = rows[u]
    BY <1>5, CommitStep
  <2> QED
    BY <1>0, <1>1, <1>5, <2>1, CurrentStays
<1>6. CASE u \notin Touched(h) /\ u = hook[h].user
  <2>1. rows'[u] = FlushRow(rows[u], hook[h].base, hook[h].row)
    BY <1>6, CommitStep
  <2>2. CASE TypeOf(h) \in Activations
    <3>1. ActivationOpen(h)
      BY <1>0, <2>2 DEF CurrentInv
    <3>2. rows'[u].sub = events[hook[h].event].sub
      BY <1>0, <1>6, <2>1, <3>1, FlushColumns DEF ActivationOpen
    <3> QED
      BY <1>0, <1>6, <2>2, <3>2, CurrentStarts
  <2>3. CASE TypeOf(h) \in Downgrades
    <3>1. DowngradeOpen(h)
      BY <1>0, <2>3 DEF CurrentInv
    <3>2. rows'[u].plan \notin PaidPlans
      <4>1. "free" \notin PaidPlans
        BY DEF PaidPlans
      <4> QED
        BY <1>0, <1>6, <2>1, <3>1, <4>1, FlushColumns DEF DowngradeOpen
    <3> QED
      BY <3>2
  <2>4. CASE TypeOf(h) \in OtherEvents
    <3>1. hook[h].row = hook[h].base
      BY <1>0, <2>4 DEF CurrentInv
    <3>2. rows'[u].plan = rows[u].plan /\ rows'[u].sub = rows[u].sub
      BY <1>0, <2>1, <3>1, FlushColumns
    <3> QED
      BY <1>0, <1>1, <1>3, <2>4, <3>2, CurrentStays
  <2> QED
    BY <1>2, <2>2, <2>3, <2>4
<1> QED
  BY <1>4, <1>5, <1>6

LEMMA CurrentKept ==
    ASSUME SingleProcess, TypeInv, OnceInv, OwnedInv, BoughtInv, CurrentInv, [Next]_vars
    PROVE  CurrentInv'
<1>1. ASSUME NEW u \in Users, rows'[u].plan \in PaidPlans PROVE Current(u)'
  <2>1. CASE \E h \in Hooks : HookCommit(h)
    BY <1>1, <2>1, CommitCurrent
  <2>2. CASE ~\E h \in Hooks : HookCommit(h)
    <3>1. ~\E h \in Hooks : Billed(h, u)
      BY <2>2 DEF Billed
    <3>2. rows[u].plan \in PaidPlans /\ rows'[u].sub = rows[u].sub
      BY <1>1, <3>1, PlanStep, IdsStep DEF SameIds
    <3>3. Current(u)
      BY <3>2 DEF CurrentInv, PremiumIsCurrent, Current
    <3>4. audit' = audit \/ \E x : audit' = Append(audit, x) /\ x.type \notin Downgrades
      BY <2>2, AuditStep DEF Downgrades
    <3> QED
      BY <3>2, <3>3, <3>4, CurrentStays
  <2> QED
    BY <2>1, <2>2
<1>2. ASSUME NEW h \in Hooks, hook'[h].stage = "open"
      PROVE  /\ TypeOf(h)' \in Activations => ActivationOpen(h)'
             /\ TypeOf(h)' \in Downgrades => DowngradeOpen(h)'
             /\ TypeOf(h)' \in OtherEvents => hook'[h].row = hook'[h].base
  <2>1. CASE hook'[h] = hook[h]
    <3>1. hook[h].stage = "open" /\ hook[h].event \in 1..Len(events)
      BY <1>2, <2>1 DEF TypeInv, HookOK
    <3>2. events'[hook[h].event] = events[hook[h].event] /\ TypeOf(h)' = TypeOf(h)
      BY <2>1, <3>1, EventsStay DEF TypeOf
    <3>3. ASSUME NEW u \in Users PROVE ~\E k \in Hooks : Billed(k, u)
      <4> SUFFICES ASSUME NEW k \in Hooks, Billed(k, u) PROVE FALSE
        OBVIOUS
      <4>1. k = h
        BY <3>1 DEF Billed, HookCommit, OnceInv, OneOpen
      <4>2. hook'[h].stage = "idle"
        BY <4>1, IdleHookType DEF Billed, HookCommit, TypeInv, TypeOK
      <4> QED
        BY <1>2, <4>2
    <3>4. ASSUME NEW u \in Users
          PROVE  rows'[u].sub = rows[u].sub /\ (rows[u].plan \notin PaidPlans => rows'[u].plan \notin PaidPlans)
      BY <3>3, IdsStep, PlanStep DEF SameIds
    <3>5. CASE TypeOf(h) \in Activations
      <4>1. ActivationOpen(h)
        BY <3>1, <3>5 DEF CurrentInv
      <4>2. ActivationOpen(h)'
        BY <2>1, <3>2, <3>4, <4>1 DEF ActivationOpen
      <4> QED
        BY <3>2, <3>5, <4>2 DEF Activations, Downgrades, OtherEvents
    <3>6. CASE TypeOf(h) \in Downgrades
      <4>1. DowngradeOpen(h)
        BY <3>1, <3>6 DEF CurrentInv
      <4>2. DowngradeOpen(h)'
        BY <2>1, <3>4, <4>1 DEF DowngradeOpen
      <4> QED
        BY <3>2, <3>6, <4>2 DEF Activations, Downgrades, OtherEvents
    <3>7. CASE TypeOf(h) \notin Activations \cup Downgrades
      BY <2>1, <3>1, <3>2, <3>7 DEF CurrentInv
    <3> QED
      BY <3>5, <3>6, <3>7
  <2>2. ASSUME NEW e \in 1..Len(events), Opened(h, e)
        PROVE  /\ TypeOf(h)' \in Activations => ActivationOpen(h)'
               /\ TypeOf(h)' \in Downgrades => DowngradeOpen(h)'
               /\ TypeOf(h)' \in OtherEvents => hook'[h].row = hook'[h].base
    <3>0. events[e] \in Event /\ events' = events /\ rows' = rows
      BY <2>2, EventAt DEF Opened
    <3>1. ASSUME NEW u, NEW base, NEW row, Opens(h, e, u, base, row)
          PROVE  /\ TypeOf(h)' = events[e].type /\ hook'[h].event = e /\ hook'[h].user = u
                 /\ hook'[h].base = base /\ hook'[h].row = row
      BY <3>0, <3>1 DEF Opens, TypeOf
    <3>2. ASSUME NEW u \in Users, events[e].type \in Activations,
                 Opens(h, e, u, rows[u], Activated(rows[u], events[e]))
          PROVE  TypeOf(h)' \in Activations /\ ActivationOpen(h)'
      <4>1. Activated(rows[u], events[e]).sub = events[e].sub
        <5>1. rows[u] \in Row /\ TypeOK
          BY DEF TypeInv, TypeOK
        <5> QED
          BY <3>0, <5>1, ActivatedColumns
      <4> QED
        BY <3>0, <3>1, <3>2, <4>1 DEF ActivationOpen
    <3>3. ASSUME NEW u \in Users, events[e].type \in Downgrades,
                 Opens(h, e, u, rows[u], DowngradeToFree(rows[u], "premium_inactive"))
          PROVE  TypeOf(h)' \in Downgrades /\ DowngradeOpen(h)'
      <4>1. DowngradeToFree(rows[u], "premium_inactive").plan = "free" /\ "free" \notin PaidPlans
        BY DEF DowngradeToFree, Row, TypeInv, TypeOK, PaidPlans
      <4> QED
        BY <3>0, <3>1, <3>3, <4>1 DEF DowngradeOpen
    <3>4. ASSUME NEW u, NEW row, events[e].type \in OtherEvents, Opens(h, e, u, row, row)
          PROVE  TypeOf(h)' \in OtherEvents /\ hook'[h].row = hook'[h].base
      BY <3>1, <3>4
    <3> QED
      BY <2>2, <3>2, <3>3, <3>4 DEF Opened, Activations, Downgrades, OtherEvents
  <2> QED
    BY <1>2, <2>1, <2>2, HookStep
<1> QED
  BY <1>1, <1>2, ScanHook DEF CurrentInv, PremiumIsCurrent, Current, TypeOf

LEMMA CurrentAlways ==
    ASSUME SingleProcess
    PROVE  Spec => [](TypeInv /\ OnceInv /\ OwnedInv /\ BoughtInv /\ CurrentInv)
<1>1. Init => OwnedInv /\ BoughtInv /\ CurrentInv
  <2> SUFFICES ASSUME Init PROVE OwnedInv /\ BoughtInv /\ CurrentInv
    OBVIOUS
  <2>1. SubscriptionOwnedOnce /\ PremiumIsCurrent
    BY DEF Init, SubscriptionOwnedOnce, PremiumIsCurrent, Absent, PaidPlans
  <2>2. OwnedInv /\ BoughtInv
    BY <2>1 DEF Init, OwnedInv, BoughtInv, HookBuys, RequestsNeverBuy, Buys, IdleHook, IdleReq, SameIds
  <2> QED
    BY <2>1, <2>2 DEF Init, CurrentInv, IdleHook, NoScan
<1>2. Spec => [](TypeInv /\ OnceInv)
  BY OnceAlways, TypeCorrect, PTL
<1>3. TypeInv /\ TypeInv' /\ OnceInv /\ OwnedInv /\ BoughtInv /\ CurrentInv /\ [Next]_vars
        => OwnedInv' /\ BoughtInv' /\ CurrentInv'
  BY OwnedKept, NextBought, CurrentKept
<1> QED
  BY <1>1, <1>2, <1>3, PTL DEF Spec

\* Served by one process, whoever has paid access had a subscription activated
\* that is still the account's, and no cancellation or failed payment came since,
\* whatever requests and workers wrote to the row meanwhile.
THEOREM PremiumHolds == ASSUME SingleProcess PROVE Spec => []PremiumIsCurrent
<1>1. CurrentInv => PremiumIsCurrent
  BY DEF CurrentInv
<1> QED
  BY <1>1, CurrentAlways, PTL

-----------------------------------------------------------------------------
(***************************************************************************)
(* The end of a paid period.  It is bounded by an activation and by the    *)
(* months booked as processed.  An open transaction writes the end only if *)
(* it computed another one; what it read may have been moved by a reward   *)
(* meanwhile, but not to or from NULL.  A request that ends an access      *)
(* breaks this: its NULL may meet a plan that the webhook has just renewed *)
(* and that then never ends, so that a later reward counts from its day.   *)
(***************************************************************************)
NoRequests == Reqs = {}

Reach(i) == audit[i].day + DefaultPlanDays(sub[audit[i].sub].product)

Bounded(u) ==
    rows[u].planEnd # NoDay =>
        \E i \in 1..Len(audit) :
            /\ audit[i].user = u /\ audit[i].type \in Activations
            /\ rows[u].planEnd <= Reach(i) + RewardDays * stats[u].level

\* Activations are of subscriptions Stripe has, which keep their product.
SoldInv ==
    /\ \A e \in 1..Len(events) :
           sub[events[e].sub].state # "none" /\ sub[events[e].sub].product = events[e].product
    /\ \A i \in 1..Len(audit) : audit[i].type \in Activations =>
           audit[i].sub \in Subs /\ sub[audit[i].sub].state # "none"

EndOpen(h) ==
    /\ \A u \in Users : u = hook[h].user => (rows[u].planEnd = NoDay <=> hook[h].base.planEnd = NoDay)
    /\ TypeOf(h) \in Activations =>
           /\ hook[h].row.planEnd # NoDay
           /\ hook[h].row.planEnd \in {hook[h].base.planEnd,
                                       now + DefaultPlanDays(events[hook[h].event].product)}
    /\ TypeOf(h) \in Downgrades => hook[h].row.planEnd = NoDay

EndInv ==
    /\ \A u \in Users : Bounded(u)
    /\ \A u \in Users : rows[u].plan \in PaidPlans => rows[u].planEnd # NoDay
    /\ \A h \in Hooks : hook[h].stage = "open" /\ TypeOf(h) \notin OtherEvents => EndOpen(h)

LEMMA SubStep ==
    ASSUME TypeInv, [Next]_vars, NEW s \in Subs, sub[s].state # "none"
    PROVE  sub'[s].state # "none" /\ sub'[s].product = sub[s].product
<1>1. CASE UNCHANGED sub
  BY <1>1
<1>2. ASSUME NEW p \in Purchases, StripeSubscribe(p)
      PROVE  sub'[s] = sub[s]
  BY <1>2 DEF StripeSubscribe, TypeInv, TypeOK
<1>3. ASSUME NEW t \in Subs, NEW type, NEW state, state # "none", StripeAdvance(t, type, state)
      PROVE  sub'[s].state # "none" /\ sub'[s].product = sub[s].product
  BY <1>3 DEF StripeAdvance, TypeInv, TypeOK
<1>4. CASE Stripe
  <2>1. ASSUME NEW t \in Subs, StripeUpdate(t)
        PROVE  sub'[s].state # "none" /\ sub'[s].product = sub[s].product
    <3>1. sub[t].state # "none"
      BY <2>1 DEF StripeUpdate, StripeAdvance
    <3> QED
      BY <1>3, <2>1, <3>1 DEF StripeUpdate
  <2> QED
    BY <1>2, <1>3, <1>4, <2>1 DEF Stripe, StripeInvoice, StripePaymentFails, StripeCancel
<1>5. CASE \E h \in Hooks : Webhook(h)
  BY <1>1, <1>5
     DEF Webhook, HookReceive, HookActivate, HookDowngrade, HookNote, HookVerify, HookCommit, HookGiveUp
<1>6. CASE \E r \in Reqs : Request(r)
  BY <1>1, <1>6 DEF Request, ReqRefresh, ReqSync, ReqCommit, ReqGiveUp
<1> QED
  BY <1>1, <1>4, <1>5, <1>6
     DEF Next, vars, Tick, Register, SetEnabled, WorkerScan, WorkerCommit, WorkerRollback

\* A new event is about a subscription Stripe has.
LEMMA EventStep ==
    ASSUME TypeInv, [Next]_vars
    PROVE  \/ events' = events
           \/ \E x : /\ events' = Append(events, x)
                     /\ x.sub \in Subs /\ sub'[x.sub].state # "none" /\ x.product = sub'[x.sub].product
<1>1. ASSUME NEW type, NEW s \in Subs, NEW state, NEW meta, NEW expanded, NEW ok,
             Emit(type, s, state, meta, expanded, ok), sub'[s].state # "none"
      PROVE  \E x : /\ events' = Append(events, x)
                    /\ x.sub \in Subs /\ sub'[x.sub].state # "none" /\ x.product = sub'[x.sub].product
  <2> DEFINE x == [type |-> type, meta |-> meta, sub |-> s, cust |-> sub'[s].cust, product |-> sub'[s].product,
                   inline |-> IF expanded THEN state ELSE "none", ok |-> ok]
  <2>1. events' = Append(events, x) /\ x.sub = s /\ x.product = sub'[s].product
    BY <1>1 DEF Emit
  <2> HIDE DEF x
  <2> QED
    BY <1>1, <2>1
<1>2. ASSUME NEW p \in Purchases, StripeSubscribe(p)
      PROVE  \E x : /\ events' = Append(events, x)
                    /\ x.sub \in Subs /\ sub'[x.sub].state # "none" /\ x.product = sub'[x.sub].product
  <2>1. p.sub \in Subs /\ p.state \in {"active", "trialing"}
    BY BillingAssumption
  <2>2. sub'[p.sub].state # "none"
    BY <1>2, <2>1 DEF StripeSubscribe, TypeInv, TypeOK
  <2> QED
    BY <1>1, <1>2, <2>1, <2>2 DEF StripeSubscribe
<1>3. ASSUME NEW t \in Subs, NEW type, NEW state, state # "none", StripeAdvance(t, type, state)
      PROVE  \E x : /\ events' = Append(events, x)
                    /\ x.sub \in Subs /\ sub'[x.sub].state # "none" /\ x.product = sub'[x.sub].product
  <2>1. sub'[t].state # "none"
    BY <1>3 DEF StripeAdvance, TypeInv, TypeOK
  <2> QED
    BY <1>1, <1>3, <2>1 DEF StripeAdvance
<1>4. CASE Stripe
  <2>1. ASSUME NEW t \in Subs, StripeUpdate(t) PROVE sub[t].state # "none"
    BY <2>1 DEF StripeUpdate, StripeAdvance
  <2> QED
    BY <1>2, <1>3, <1>4, <2>1 DEF Stripe, StripeInvoice, StripePaymentFails, StripeCancel, StripeUpdate
<1>5. CASE \E h \in Hooks : Webhook(h)
  BY <1>5
     DEF Webhook, HookReceive, HookActivate, HookDowngrade, HookNote, HookVerify, HookCommit, HookGiveUp
<1>6. CASE \E r \in Reqs : Request(r)
  BY <1>6 DEF Request, ReqRefresh, ReqSync, ReqCommit, ReqGiveUp
<1> QED
  BY <1>4, <1>5, <1>6
     DEF Next, vars, Tick, Register, SetEnabled, WorkerScan, WorkerCommit, WorkerRollback

LEMMA SoldKept ==
    ASSUME TypeInv, SoldInv, [Next]_vars
    PROVE  SoldInv'
<1>1. ASSUME NEW e \in 1..Len(events)
      PROVE  /\ sub'[events[e].sub].state # "none"
             /\ sub'[events[e].sub].product = events[e].product
             /\ events[e].sub \in Subs
  <2>1. events[e] \in Event
    BY EventAt
  <2> QED
    BY <2>1, SubStep DEF Event, SoldInv
<1>2. ASSUME NEW e \in 1..Len(events')
      PROVE  sub'[events'[e].sub].state # "none" /\ sub'[events'[e].sub].product = events'[e].product
  <2>1. CASE events' = events
    BY <1>1, <2>1
  <2>2. ASSUME NEW x, events' = Append(events, x), sub'[x.sub].state # "none", x.product = sub'[x.sub].product
        PROVE  sub'[events'[e].sub].state # "none" /\ sub'[events'[e].sub].product = events'[e].product
    <3>1. /\ Len(events') = Len(events) + 1 /\ events'[Len(events) + 1] = x /\ Len(events) \in Nat
          /\ \A k \in 1..Len(events) : events'[k] = events[k]
      BY <2>2 DEF TypeInv, TypeOK
    <3>2. CASE e = Len(events) + 1
      BY <2>2, <3>1, <3>2
    <3>3. CASE e # Len(events) + 1
      <4>1. e \in 1..Len(events)
        BY <3>1, <3>3
      <4> QED
        BY <1>1, <3>1, <4>1
    <3> QED
      BY <3>2, <3>3
  <2> QED
    BY <2>1, <2>2, EventStep
<1>3. ASSUME NEW i \in 1..Len(audit), audit[i].type \in Activations
      PROVE  audit[i].sub \in Subs /\ sub'[audit[i].sub].state # "none"
  BY <1>3, SubStep DEF SoldInv
<1>4. ASSUME NEW x, audit' = Append(audit, x),
             x.type \in Activations => x.sub \in Subs /\ sub'[x.sub].state # "none",
             NEW i \in 1..Len(audit'), audit'[i].type \in Activations
      PROVE  audit'[i].sub \in Subs /\ sub'[audit'[i].sub].state # "none"
  <2>1. /\ Len(audit') = Len(audit) + 1 /\ audit'[Len(audit) + 1] = x /\ Len(audit) \in Nat
        /\ \A k \in 1..Len(audit) : audit'[k] = audit[k]
    BY <1>4 DEF TypeInv, TypeOK
  <2>2. CASE i = Len(audit) + 1
    BY <1>4, <2>1, <2>2
  <2>3. CASE i # Len(audit) + 1
    <3>1. i \in 1..Len(audit)
      BY <2>1, <2>3
    <3> QED
      BY <1>3, <1>4, <2>1, <3>1
  <2> QED
    BY <2>2, <2>3
<1>5. ASSUME NEW i \in 1..Len(audit'), audit'[i].type \in Activations
      PROVE  audit'[i].sub \in Subs /\ sub'[audit'[i].sub].state # "none"
  <2>1. CASE audit' = audit
    BY <1>3, <1>5, <2>1
  <2>2. ASSUME NEW h \in Hooks, HookCommit(h)
        PROVE  audit'[i].sub \in Subs /\ sub'[audit'[i].sub].state # "none"
    <3>1. audit' = Append(audit, HookAudit(h)) /\ hook[h].event \in 1..Len(events)
      BY <2>2 DEF HookCommit, TypeInv, HookOK
    <3>2. HookAudit(h).sub = events[hook[h].event].sub
      BY DEF HookAudit
    <3> QED
      BY <1>1, <1>4, <1>5, <3>1, <3>2
  <2>3. ASSUME NEW x, audit' = Append(audit, x), x.type = "subscription_sync"
        PROVE  audit'[i].sub \in Subs /\ sub'[audit'[i].sub].state # "none"
    BY <1>4, <1>5, <2>3 DEF Activations
  <2> QED
    BY <2>1, <2>2, <2>3, AuditStep
<1> QED
  BY <1>2, <1>5 DEF SoldInv

LEMMA ReachType ==
    ASSUME TypeInv, SoldInv, NEW i \in 1..Len(audit), audit[i].type \in Activations
    PROVE  Reach(i) \in Nat
<1>1. audit[i] \in AuditRow
  BY DEF TypeInv, TypeOK
<1>2. audit[i].day \in Nat /\ audit[i].sub \in Subs
  BY <1>1 DEF AuditRow, SoldInv
<1>3. DefaultPlanDays(sub[audit[i].sub].product) \in Nat
  BY <1>2, PlanDaysType DEF TypeInv, TypeOK
<1> QED
  BY <1>2, <1>3 DEF Reach

LEMMA ReachStays ==
    ASSUME TypeInv, TypeInv', SoldInv, [Next]_vars, NEW i \in 1..Len(audit), audit[i].type \in Activations
    PROVE  i \in 1..Len(audit') /\ audit'[i] = audit[i] /\ Reach(i)' = Reach(i) /\ Reach(i) \in Nat
<1>1. i \in 1..Len(audit') /\ audit'[i] = audit[i]
  <2>1. audit' = audit \/ \E x : audit' = Append(audit, x)
    <3>1. ASSUME NEW h \in Hooks, HookCommit(h) PROVE \E x : audit' = Append(audit, x)
      BY <3>1 DEF HookCommit
    <3> QED
      BY <3>1, AuditStep
  <2>2. audit \in Seq(AuditRow)
    BY DEF TypeInv, TypeOK
  <2> QED
    BY <2>1, <2>2
<1>2. audit[i].day \in Nat /\ audit[i].sub \in Subs /\ sub[audit[i].sub].state # "none"
  <2>1. audit[i] \in AuditRow
    BY DEF TypeInv, TypeOK
  <2> QED
    BY <2>1 DEF AuditRow, SoldInv
<1>3. sub'[audit[i].sub].product = sub[audit[i].sub].product /\ sub[audit[i].sub].product \in Products
  BY <1>2, SubStep DEF TypeInv, TypeOK
<1>4. DefaultPlanDays(sub[audit[i].sub].product) \in Nat
  BY <1>3, PlanDaysType
<1> QED
  BY <1>1, <1>2, <1>3, <1>4 DEF Reach

LEMMA Months ==
    ASSUME NEW a \in Nat, NEW b \in Nat, a <= b
    PROVE  /\ RewardDays * a \in Nat /\ RewardDays * b \in Nat
           /\ RewardDays * a <= RewardDays * b
           /\ RewardDays * (b - a) \in Nat
           /\ RewardDays * b = RewardDays * a + RewardDays * (b - a)
BY RewardAssumption, SMT

LEMMA MonthsNat == \A n \in Nat : RewardDays * n \in Nat
BY RewardAssumption, SMT

\* An end that moves no further than the months that are booked meanwhile.
LEMMA BoundedStays ==
    ASSUME TypeInv, TypeInv', SoldInv, [Next]_vars, NEW u \in Users, Bounded(u),
           \/ rows'[u].planEnd = NoDay
           \/ /\ rows[u].planEnd # NoDay
              /\ rows'[u].planEnd - rows[u].planEnd <= RewardDays * stats'[u].level - RewardDays * stats[u].level
    PROVE  Bounded(u)'
<1> SUFFICES ASSUME rows'[u].planEnd # NoDay PROVE Bounded(u)'
  BY DEF Bounded
<1>1. PICK i \in 1..Len(audit) :
        /\ audit[i].user = u /\ audit[i].type \in Activations
        /\ rows[u].planEnd <= Reach(i) + RewardDays * stats[u].level
  BY DEF Bounded
<1>2. i \in 1..Len(audit') /\ audit'[i] = audit[i] /\ Reach(i)' = Reach(i) /\ Reach(i) \in Nat
  BY <1>1, ReachStays
<1>3. stats[u].level \in Nat /\ stats'[u].level \in Nat
  BY DEF TypeInv, TypeOK, Stats
<1>4. RewardDays * stats[u].level \in Nat /\ RewardDays * stats'[u].level \in Nat
  BY <1>3, MonthsNat
<1>5. rows[u].planEnd \in Int /\ rows'[u].planEnd \in Int
  BY DEF TypeInv, TypeOK, Row, NoDay
<1>6. rows'[u].planEnd <= Reach(i)' + RewardDays * stats'[u].level
  <2>1. rows'[u].planEnd - rows[u].planEnd <= RewardDays * stats'[u].level - RewardDays * stats[u].level
    OBVIOUS
  <2> DEFINE before == RewardDays * stats[u].level
             after == RewardDays * stats'[u].level
  <2>2. /\ before \in Nat /\ after \in Nat
        /\ rows[u].planEnd <= Reach(i) + before /\ rows'[u].planEnd - rows[u].planEnd <= after - before
    BY <1>1, <1>4, <2>1
  <2>3. Reach(i)' = Reach(i) /\ Reach(i) \in Nat
    BY <1>2
  <2> HIDE DEF before, after
  <2>4. rows'[u].planEnd <= Reach(i) + after
    BY <1>5, <2>2, <2>3
  <2> QED
    BY <2>3, <2>4 DEF after
<1> QED
  BY <1>1, <1>2, <1>6 DEF Bounded

LEMMA RewardMovesEnd ==
    ASSUME TypeInv, RewardInv, EndInv, NEW a, NEW u \in Users, Rewarded(a, u)
    PROVE  \/ rows'[u].planEnd = rows[u].planEnd /\ stats'[u].level = stats[u].level
           \/ /\ rows[u].planEnd # NoDay /\ rows'[u].planEnd # NoDay
              /\ rows'[u].planEnd - rows[u].planEnd <= RewardDays * stats'[u].level - RewardDays * stats[u].level
<1> DEFINE earned == EarnedMonths(Cardinality(Validated(u)))
           months == MonthsFor(u)
<1>0. /\ rows[u] \in Row /\ now \in Nat /\ stats[u].level \in Nat /\ earned \in Nat /\ months \in Nat
      /\ stats[u].level <= earned
  BY ValidatedFinite, EarnedType, MonthsType DEF TypeInv, TypeOK, Stats, RewardInv, RewardOnce
<1>1. /\ rows'[u] = RewardRow(rows[u], months, now)
      /\ stats'[u].level = IF months > 0 THEN earned ELSE stats[u].level
  BY DEF Rewarded, SyncStats
<1>2. CASE months = 0
  <2>1. rows'[u] = rows[u]
    BY <1>1, <1>2 DEF RewardRow
  <2> QED
    BY <1>1, <1>2, <2>1
<1>3. CASE months # 0
  <2>1. months = earned - stats[u].level /\ IsPaidActive(rows[u], now)
    BY <1>3 DEF MonthsFor, NewMonths
  <2>2. rows[u].planEnd # NoDay /\ rows[u].planEnd > now /\ rows[u].planEnd \in Nat
    BY <1>0, <2>1 DEF IsPaidActive, EndInv, Row
  <2>3. rows'[u].planEnd = rows[u].planEnd + RewardDays * months
    <3> HIDE DEF months
    <3>1. rows'[u] = [rows[u] EXCEPT !.planEnd = rows[u].planEnd + RewardDays * months]
      BY <1>0, <1>1, <1>3, <2>2 DEF RewardRow
    <3> QED
      BY <1>0, <3>1 DEF Row
  <2>4. stats'[u].level = earned
    <3> HIDE DEF months, earned
    <3> QED
      BY <1>0, <1>1, <1>3
  <2>5. RewardDays * earned = RewardDays * stats[u].level + RewardDays * months
        /\ RewardDays * months \in Nat /\ RewardDays * stats[u].level \in Nat /\ RewardDays * earned \in Nat
    BY SMTT(30), <1>0, <2>1, Months
  <2> HIDE DEF months, earned
  <2> QED
    BY <2>2, <2>3, <2>4, <2>5 DEF NoDay
<1> QED
  BY <1>2, <1>3

\* What the commit of a webhook makes of the end.
LEMMA BilledEnd ==
    ASSUME TypeInv, TypeInv', SoldInv, CurrentInv, EndInv, [Next]_vars,
           NEW h \in Hooks, NEW u \in Users, Billed(h, u), stats'[u] = stats[u]
    PROVE  Bounded(u)' /\ (rows'[u].plan \in PaidPlans => rows'[u].planEnd # NoDay)
<1> DEFINE ev == events[hook[h].event]
<1>0. /\ hook[h].stage = "open" /\ u = hook[h].user
      /\ hook[h].base \in Row /\ hook[h].row \in Row /\ rows[u] \in Row
      /\ hook[h].event \in 1..Len(events) /\ ev \in Event
      /\ audit' = Append(audit, HookAudit(h)) /\ now \in Nat
      /\ rows'[u] = FlushRow(rows[u], hook[h].base, hook[h].row)
      /\ sub' = sub
  BY EventAt DEF Billed, HookCommit, HookOK, TypeInv, TypeOK, Hook
<1>1. TypeOf(h) \in Activations \cup Downgrades \cup OtherEvents
  BY <1>0 DEF Event, TypeOf
<1>2. Bounded(u) /\ (rows[u].plan \in PaidPlans => rows[u].planEnd # NoDay)
  BY DEF EndInv
<1>3. stats'[u].level \in Nat /\ RewardDays * stats'[u].level \in Nat
  <2>1. stats'[u].level \in Nat
    BY DEF TypeInv, TypeOK, Stats
  <2> QED
    BY <2>1, MonthsNat
<1>4. ASSUME rows'[u].planEnd = rows[u].planEnd PROVE Bounded(u)'
  <2>1. rows[u].planEnd \in Int
    BY <1>0 DEF Row, NoDay
  <2>2. CASE rows[u].planEnd = NoDay
    BY <1>4, <2>2 DEF Bounded
  <2>3. CASE rows[u].planEnd # NoDay
    <3>1. rows'[u].planEnd - rows[u].planEnd <= RewardDays * stats'[u].level - RewardDays * stats[u].level
      BY <1>3, <1>4, <2>1
    <3> QED
      BY <1>2, <2>3, <3>1, BoundedStays
  <2> QED
    BY <2>2, <2>3
<1>5. CASE TypeOf(h) \in OtherEvents
  <2>1. hook[h].row = hook[h].base
    BY <1>0, <1>5 DEF CurrentInv
  <2>2. rows'[u].planEnd = rows[u].planEnd /\ rows'[u].plan = rows[u].plan
    BY <1>0, <2>1, FlushColumns
  <2> QED
    BY <1>2, <1>4, <2>2
<1>6. CASE TypeOf(h) \in Downgrades
  <2>1. EndOpen(h) /\ DowngradeOpen(h)
    BY <1>0, <1>6 DEF EndInv, CurrentInv, Downgrades, OtherEvents
  <2>2. rows'[u].planEnd = NoDay
    BY <1>0, <1>6, <2>1, FlushColumns DEF EndOpen
  <2>3. rows'[u].plan \notin PaidPlans
    <3>1. "free" \notin PaidPlans
      BY DEF PaidPlans
    <3> QED
      BY <1>0, <2>1, <3>1, FlushColumns DEF DowngradeOpen
  <2> QED
    BY <2>2, <2>3 DEF Bounded
<1>7. CASE TypeOf(h) \in Activations
  <2>1. EndOpen(h)
    BY <1>0, <1>7 DEF EndInv, Activations, OtherEvents
  <2>2. CASE hook[h].row.planEnd = hook[h].base.planEnd
    <3>1. rows'[u].planEnd = rows[u].planEnd /\ rows[u].planEnd # NoDay
      BY <1>0, <1>7, <2>1, <2>2, FlushColumns DEF EndOpen
    <3> QED
      BY <1>4, <3>1
  <2>3. CASE hook[h].row.planEnd # hook[h].base.planEnd
    <3>1. rows'[u].planEnd = now + DefaultPlanDays(ev.product) /\ rows'[u].planEnd # NoDay
      BY <1>0, <1>7, <2>1, <2>3, FlushColumns DEF EndOpen
    <3>2. HookAudit(h).user = u /\ HookAudit(h).type \in Activations /\ HookAudit(h).day = now
          /\ HookAudit(h).sub = ev.sub
      BY <1>0, <1>7 DEF HookAudit, TypeOf
    <3>3. Len(audit') = Len(audit) + 1 /\ audit'[Len(audit) + 1] = HookAudit(h) /\ Len(audit) \in Nat
      BY <1>0 DEF TypeInv, TypeOK
    <3>4. sub[ev.sub].product = ev.product /\ ev.product \in Products
      BY <1>0 DEF SoldInv, Event
    <3>5. PICK k \in 1..Len(audit') : k = Len(audit) + 1
      BY <3>3
    <3>6. audit'[k] = HookAudit(h) /\ sub'[ev.sub].product = ev.product
      BY <1>0, <3>3, <3>4, <3>5
    <3>7. Reach(k)' = now + DefaultPlanDays(ev.product)
      BY <3>2, <3>6 DEF Reach
    <3>8. DefaultPlanDays(ev.product) \in Nat
      BY <3>4, PlanDaysType
    <3>9. rows'[u].planEnd <= Reach(k)' + RewardDays * stats'[u].level
      BY <1>0, <1>3, <3>1, <3>7, <3>8
    <3>10. Bounded(u)'
      BY <3>2, <3>5, <3>6, <3>9 DEF Bounded
    <3> QED
      BY <3>1, <3>10
  <2> QED
    BY <2>2, <2>3
<1> QED
  BY <1>1, <1>5, <1>6, <1>7

\* Unless a session writes the row, its end is only moved by rewards.
LEMMA UnbilledEnd ==
    ASSUME TypeInv, TypeInv', RewardInv, SoldInv, EndInv, [Next]_vars,
           NEW u \in Users,
           (stats'[u] = stats[u] /\ RowKept(u)) \/ \E a \in Hooks \cup Workers : Rewarded(a, u)
    PROVE  /\ rows'[u].planEnd = NoDay <=> rows[u].planEnd = NoDay
           /\ Bounded(u)'
           /\ rows'[u].plan \in PaidPlans => rows'[u].planEnd # NoDay
<1>0. rows[u] \in Row /\ stats'[u].level \in Nat /\ Bounded(u)
  BY DEF TypeInv, TypeOK, Stats, EndInv
<1>1. \/ rows'[u].planEnd = rows[u].planEnd /\ stats'[u].level = stats[u].level
      \/ /\ rows[u].planEnd # NoDay /\ rows'[u].planEnd # NoDay
         /\ rows'[u].planEnd - rows[u].planEnd <= RewardDays * stats'[u].level - RewardDays * stats[u].level
  <2>1. CASE stats'[u] = stats[u] /\ RowKept(u)
    BY <1>0, <2>1 DEF RowKept, GrantTrialAccess, Row
  <2>2. ASSUME NEW a, Rewarded(a, u)
        PROVE  \/ rows'[u].planEnd = rows[u].planEnd /\ stats'[u].level = stats[u].level
               \/ /\ rows[u].planEnd # NoDay /\ rows'[u].planEnd # NoDay
                  /\ rows'[u].planEnd - rows[u].planEnd
                       <= RewardDays * stats'[u].level - RewardDays * stats[u].level
    BY <2>2, RewardMovesEnd
  <2> QED
    BY <2>1, <2>2
<1>2. ASSUME rows'[u].planEnd = rows[u].planEnd, stats'[u].level = stats[u].level
      PROVE  Bounded(u)'
  <2>1. rows[u].planEnd \in Int /\ RewardDays * stats'[u].level \in Nat
    BY <1>0, MonthsNat DEF Row, NoDay
  <2>2. rows'[u].planEnd - rows[u].planEnd <= RewardDays * stats'[u].level - RewardDays * stats[u].level
    BY <1>2, <2>1
  <2> QED
    BY <1>0, <1>2, <2>2, BoundedStays
<1>3. rows'[u].plan \in PaidPlans => rows[u].plan \in PaidPlans /\ rows[u].planEnd # NoDay
  <2>1. rows[u] \in Row /\ (rows[u].plan \in PaidPlans => rows[u].planEnd # NoDay)
    BY DEF TypeInv, TypeOK, EndInv
  <2>2. CASE RowKept(u)
    BY <2>1, <2>2 DEF RowKept, GrantTrialAccess, Row, PaidPlans
  <2>3. ASSUME NEW a, Rewarded(a, u) PROVE rows'[u].plan = rows[u].plan
    BY <2>1, <2>3, RewardKeepsPlan DEF Rewarded
  <2> QED
    BY <2>1, <2>2, <2>3
<1>4. Bounded(u)'
  BY <1>0, <1>1, <1>2, BoundedStays
<1> QED
  BY <1>1, <1>3, <1>4

LEMMA DayStays ==
    ASSUME [Next]_vars, ~Tick
    PROVE  now' = now
<1>0. CASE UNCHANGED now
  BY <1>0
<1>1. CASE \E h \in Hooks : Webhook(h)
  BY <1>0, <1>1 DEF Webhook, HookReceive, HookActivate, HookDowngrade, HookNote, HookVerify, HookCommit, HookGiveUp
<1>2. CASE \E r \in Reqs : Request(r)
  BY <1>2 DEF Request, ReqRefresh, ReqSync, ReqCommit, ReqGiveUp
<1>3. CASE Stripe
  BY <1>3
     DEF Stripe, StripeSubscribe, StripeAdvance, StripeInvoice, StripePaymentFails,
         StripeCancel, StripeUpdate
<1> QED
  BY <1>1, <1>2, <1>3 DEF Next, vars, Register, SetEnabled, WorkerScan, WorkerCommit, WorkerRollback

LEMMA EndOpenKept ==
    ASSUME SingleProcess, NoRequests, TypeInv, TypeInv', OnceInv, RewardInv, SoldInv, EndInv, [Next]_vars,
           NEW h \in Hooks, hook'[h].stage = "open", TypeOf(h)' \notin OtherEvents
    PROVE  EndOpen(h)'
<1>1. CASE hook'[h] = hook[h]
  <2>1. hook[h].stage = "open" /\ hook[h].event \in 1..Len(events)
    BY <1>1 DEF TypeInv, HookOK
  <2>2. events'[hook[h].event] = events[hook[h].event] /\ TypeOf(h)' = TypeOf(h)
    BY <1>1, <2>1, EventsStay DEF TypeOf
  <2>3. EndOpen(h)
    BY <2>1, <2>2 DEF EndInv
  <2>4. ASSUME NEW u \in Users PROVE ~\E k \in Hooks : Billed(k, u)
    <3> SUFFICES ASSUME NEW k \in Hooks, Billed(k, u) PROVE FALSE
      OBVIOUS
    <3>1. k = h
      BY <2>1 DEF Billed, HookCommit, OnceInv, OneOpen
    <3>2. hook'[h].stage = "idle"
      BY <3>1, IdleHookType DEF Billed, HookCommit, TypeInv, TypeOK
    <3> QED
      BY <3>2
  <2>5. \A u \in Users : rows'[u].planEnd = NoDay <=> rows[u].planEnd = NoDay
    BY <2>4, RowStep, UnbilledEnd DEF NoRequests
  <2>6. now' = now
    BY <2>1, DayStays DEF Tick
  <2> QED
    BY <1>1, <2>2, <2>3, <2>5, <2>6 DEF EndOpen
<1>2. ASSUME NEW e \in 1..Len(events), Opened(h, e) PROVE EndOpen(h)'
  <2>0. events[e] \in Event /\ events' = events /\ rows' = rows /\ now' = now /\ now \in Nat
    BY <1>2, EventAt DEF Opened, TypeInv, TypeOK
  <2>1. ASSUME NEW u, NEW base, NEW row, Opens(h, e, u, base, row)
        PROVE  /\ TypeOf(h)' = events[e].type /\ hook'[h].event = e /\ hook'[h].user = u
               /\ hook'[h].base = base /\ hook'[h].row = row
    BY <2>0, <2>1 DEF Opens, TypeOf
  <2>2. ASSUME NEW u \in Users, events[e].type \in Activations,
               Opens(h, e, u, rows[u], Activated(rows[u], events[e]))
        PROVE  EndOpen(h)'
    <3>1. Activated(rows[u], events[e]).planEnd =
            IF rows[u].planEnd = NoDay \/ rows[u].planEnd < now
            THEN now + DefaultPlanDays(events[e].product) ELSE rows[u].planEnd
      <4>1. rows[u] \in Row /\ TypeOK
        BY DEF TypeInv, TypeOK
      <4> QED
        BY <2>0, <4>1, ActivatedColumns
    <3>2. DefaultPlanDays(events[e].product) \in Nat
      BY <2>0, PlanDaysType DEF Event
    <3>3. now + DefaultPlanDays(events[e].product) # NoDay
      BY <2>0, <3>2 DEF NoDay
    <3>4. TypeOf(h)' \notin Downgrades
      BY <2>1, <2>2 DEF Activations, Downgrades
    <3> QED
      BY <2>0, <2>1, <2>2, <3>1, <3>3, <3>4 DEF EndOpen
  <2>3. ASSUME NEW u \in Users, events[e].type \in Downgrades,
               Opens(h, e, u, rows[u], DowngradeToFree(rows[u], "premium_inactive"))
        PROVE  EndOpen(h)'
    <3>1. DowngradeToFree(rows[u], "premium_inactive").planEnd = NoDay
      BY DEF DowngradeToFree, Row, TypeInv, TypeOK
    <3>2. TypeOf(h)' \notin Activations
      BY <2>1, <2>3 DEF Activations, Downgrades
    <3> QED
      BY <2>0, <2>1, <2>3, <3>1, <3>2 DEF EndOpen
  <2>4. ASSUME NEW u, NEW row, events[e].type \in OtherEvents, Opens(h, e, u, row, row) PROVE FALSE
    BY <2>1, <2>4
  <2> QED
    BY <1>2, <2>2, <2>3, <2>4 DEF Opened
<1> QED
  BY <1>1, <1>2, HookStep

LEMMA EndKept ==
    ASSUME SingleProcess, NoRequests, TypeInv, TypeInv', OnceInv, BoughtInv, CurrentInv, RewardInv,
           SoldInv, EndInv, [Next]_vars
    PROVE  EndInv'
<1>1. ASSUME NEW u \in Users
      PROVE  Bounded(u)' /\ (rows'[u].plan \in PaidPlans => rows'[u].planEnd # NoDay)
  <2>1. ASSUME NEW h \in Hooks, Billed(h, u), stats'[u] = stats[u]
        PROVE  Bounded(u)' /\ (rows'[u].plan \in PaidPlans => rows'[u].planEnd # NoDay)
    BY <2>1, BilledEnd
  <2>2. CASE (stats'[u] = stats[u] /\ RowKept(u)) \/ \E a \in Hooks \cup Workers : Rewarded(a, u)
    BY <2>2, UnbilledEnd
  <2> QED
    BY <2>1, <2>2, RowStep DEF NoRequests
<1>2. ASSUME NEW h \in Hooks, hook'[h].stage = "open", TypeOf(h)' \notin OtherEvents PROVE EndOpen(h)'
  BY <1>2, EndOpenKept
<1> QED
  BY <1>1, <1>2 DEF EndInv

\* Served by one process, and while no request takes an access away, a paid
\* period ends at most one plan length after some payment of that user, and one
\* month later for each full group of referrals: redelivered events, overlapping
\* transactions and competing workers never add a period or a month twice.
THEOREM EntitlementHolds == ASSUME SingleProcess, NoRequests PROVE Spec => []EntitlementBounded
<1>1. Init => SoldInv /\ EndInv
  BY DEF Init, SoldInv, EndInv, Bounded, IdleHook, Absent, PaidPlans
<1>2. TypeInv /\ TypeInv' /\ OnceInv /\ BoughtInv /\ CurrentInv /\ RewardInv /\ SoldInv /\ EndInv
        /\ [Next]_vars => RewardInv' /\ SoldInv' /\ EndInv'
  BY RewardKept, SoldKept, EndKept
<1>3. TypeInv /\ RewardInv /\ SoldInv /\ EndInv => EntitlementBounded
  <2> SUFFICES ASSUME TypeInv, RewardInv, SoldInv, EndInv, NEW u \in Users, rows[u].planEnd # NoDay
               PROVE  \E i \in 1..Len(audit) :
                          /\ audit[i].user = u
                          /\ audit[i].type \in Activations
                          /\ rows[u].planEnd <=
                                 audit[i].day + DefaultPlanDays(sub[audit[i].sub].product)
                                 + RewardDays * EarnedMonths(Cardinality(Validated(u)))
    BY DEF EntitlementBounded
  <2> DEFINE earned == EarnedMonths(Cardinality(Validated(u)))
  <2>1. PICK i \in 1..Len(audit) :
          /\ audit[i].user = u /\ audit[i].type \in Activations
          /\ rows[u].planEnd <= Reach(i) + RewardDays * stats[u].level
    BY DEF EndInv, Bounded
  <2>2. stats[u].level \in Nat /\ earned \in Nat /\ stats[u].level <= earned
    BY ValidatedFinite, EarnedType DEF TypeInv, TypeOK, Stats, RewardInv, RewardOnce
  <2>3. /\ RewardDays * stats[u].level \in Nat /\ RewardDays * earned \in Nat
        /\ RewardDays * stats[u].level <= RewardDays * earned
    <3> HIDE DEF earned
    <3> QED
      BY <2>2, Months
  <2>4. Reach(i) \in Nat
    BY <2>1, ReachType
  <2>5. rows[u].planEnd \in Int
    BY DEF TypeInv, TypeOK, Row, NoDay
  <2>6. rows[u].planEnd <= Reach(i) + RewardDays * earned
    <3> DEFINE before == RewardDays * stats[u].level
               after == RewardDays * earned
    <3>1. before \in Nat /\ after \in Nat /\ before <= after /\ rows[u].planEnd <= Reach(i) + before
      BY <2>1, <2>3
    <3> HIDE DEF before, after
    <3>2. rows[u].planEnd <= Reach(i) + after
      BY <2>4, <2>5, <3>1
    <3> QED
      BY <3>2 DEF after
  <2> QED
    BY <2>1, <2>6 DEF Reach
<1> QED
  BY <1>1, <1>2, <1>3, CurrentAlways, RewardInit, TypeCorrect, PTL DEF Spec
=============================================================================
