# StockNewsBR backend: specifications, model checking and proofs

This directory holds TLA+ models of the StockNewsBR backend (`src/`), the TLC
configurations that check them on small instances, and theorems about them
that TLAPS proves for every value of the constants. Each definition that
models code is mapped to its source lines in `PROJECT.json` (`map`); the same
file lists the runs, the mutants that show each property can fail, the hazards
of the code and the theorems.

    tlc -workers 2 -config billing_webhook.cfg MCBilling     # one run
    tlapm BillingProofs.tla                                  # one proof module

## 1. The system

The backend is deployed (`render.yaml`) as three kinds of process over one
PostgreSQL database and one shared runtime directory: the **API** (`main.py`,
FastAPI, with background threads started by its lifespan), the **engine
worker** (`worker.py`) and the **Telegram bot** (`app/telegram/bot.py`).

| Component | State it keeps | Operations | What is hard |
|---|---|---|---|
| Subscriptions and entitlement (`app/api/stripe_webhook.py`, `app/services/access_service.py`, `app/dependencies.py`) | `users` (plan, status, dates, channels, Stripe identifiers), `subscription_audit_logs` | Stripe webhook, lazy normalisation on every authenticated request, `/auth/subscription/sync` | redelivery, reordering, an `await` between two locked sections, in-process locks, several writers of one row |
| Referrals (`app/services/referrals.py`) | `referrals`, `referral_stats` | registration with a code, validation from webhook and worker, rewards | SKIP LOCKED, `populate_existing`, no autoflush |
| Sign-in (`app/auth.py`, `app/services/auth_session_service.py`) | `login_challenges`, `user_sessions`, `auth_audit_events`, `users.email` | register, password login, request code, verify, change of address, logout | three transactions per verification, READ COMMITTED updates, in-process limit lock |
| Telegram link and promotions (`auth_session_service.py`, `app/services/promo_codes.py`) | `telegram_link_tokens`, `users.telegram_id`, `promo_codes`, `promo_redemptions` | issue, hand back, link directly, redeem | check and use apart, one row lock, unique columns |
| Snapshot cache (`app/cache/snapshot_cache.py`, `app/core/atomic_io.py`) | payload and last good payload in every memory, one JSON file, write epoch and throttle | update, get, get_last_good, load from disk | one memory per process over one file, slow and fast producers, fallbacks |
| Snapshot production (`app/system/ai_worker.py`, `app/engine/market_snapshot_engine.py`) | worker status | one cycle | stages fail one by one; the last good rows are built again |
| Decision pipeline (`app/ai/*.py`) | none | functions of a row | a blocked row must stay blocked through eight lists of reasons |
| Technical engines (`app/engine/*`) | position, breakout memories and cooldowns along a chart | one bar after another | state carried from bar to bar |
| Market data and warm-ups (`app/market/market_data_loader.py`, `app/system/quote_warmup.py`, `chart_warmup.py`) | quotes and charts per process and in files, rests after failures, requested charts | refresh a chunk, serve, persist, warm | copy, write and clear are three steps; stale answers |
| Symbol analysis and its page (`app/system/symbol_hydration.py`, `app/api/routes_public_market_live.py`) | analysis per symbol in memory and a file | poll, queue, try, settle, build the page | crash and retry, a page put together in steps |
| WebSocket rooms (`app/system/room_websocket_manager.py`, `app/api/routes_chat.py`, `app/services/ticker_room_service.py`) | connections, reservations, the room's file | connect (awaits `accept`), history, broadcast, disconnect | slots around an `await`, messages between history and broadcast |
| Push and Telegram alerts (`app/system/push_dispatcher.py`, `app/services/push_service.py`, `app/telegram/telegram_alert_engine.py`) | tokens file, cooldown file, fingerprints and cooldowns in memory | register, dispatch, send | partial failure, ambiguous timeouts, repeated requests |
| News (`app/services/news_service.py`, `public_news_service.py`, `app/system/news_warmup.py`) | cache per ticker and locale in memory and a file | build a feed, serve a page, refresh, translate | clusters grow in the order of sources; two writers |
| Paper trading and outcomes (`app/system/paper_trading.py`, `signal_outcome_audit.py`) | positions, trades, records, in memory and files | update from a snapshot | failed writes, restarts, late rows |
| AI alert history (`app/services/ai_alert_history_service.py`) | the day's file | merge and replace | two processes, one temporary name |
| Polls (`app/services/poll_service.py`) | one file, copies | vote, create, prune | copies judged by the time of the file |
| Community (`app/social/*`) | database rows and one moderation file | post, reply, like, report, review, delete | two stores, no transaction over both |
| Signals of the last cycle (`app/cache/signal_cache_layer.py`) | one batch and the file time seen per process, one JSON file | update, get, clear | memory and file under different locks, reads under neither |
| Bars of many symbols (`app/cache/market_data_cache.py`) | one payload per process with the symbols it covers | get, clear | partial, capped and unnamed payloads replace each other |
| Schema (`app/database_schema.py`, `main.py`, `app/system/ai_worker.py`) | the tables, columns and indexes of the database | create, patch, validate | API and worker look through one connection and alter through another, at once |
| Migration of the webhook's index (`scripts/migrations/0001_add_provider_event_id_unique.py`) | `subscription_audit_logs`, its column and index | preflight, normal and concurrent apply | writers go on while it looks and builds |
| Media uploads, official identities | files and rows nobody else writes | upload, seed | nothing interleaves |
| Observability, help pages, browser tickets | counters, static content, tickets under one lock | record, format | nothing interleaves, nothing depends on it |
| Web and mobile clients (`apps/`) | - | - | out of scope: they hold no authoritative state |

The components meet in four places. The webhook, the request path, the
referral worker and sign-in all read and write `users` through sessions of
their own. The webhook calls `apply_referral_validation` inside its own
transaction, and the worker calls it in another. Snapshot producer and readers
share one file. The alert dispatchers read the snapshot's rows and the
entitlement columns (`access_app`, `is_active`).

What makes each component correct is stated with its run in section 3.

## 2. Modules

| Module | Models | Kind |
|---|---|---|
| `AccessRules` | `access_service.py`: the entitlement rules as operators on one `users` row; which columns an ORM session flushes | operators |
| `ReferralRules` | `referrals.py`: qualification, statistics, reward, as operators on one row | operators |
| `Billing` | webhook, Stripe, requests, worker, referral tables | state machine |
| `SessionPolicy` | what the session table promises: at most one live session per user and channel | abstract specification |
| `AuthSession` | codes, sessions, limits, change of address | state machine, implements `SessionPolicy` |
| `AccountLinks` | Telegram link tokens, the linked chat, promotions | state machine |
| `SnapshotCache` | memories and file of the market snapshot, the two producers, readers | state machine |
| `SelectedSymbol` | the page of one symbol as functions of what the caches hold | operators |
| `SymbolHydration` | the analysis of one symbol, its file, and the page built step by step | state machine |
| `ChartFacts`, `TradeRules` | what the chart engine reads off a bar; the guards and coherence rules of a trade | operators |
| `ChartSignals` | the trend-breakout engine, bar by bar | state machine over `ChartFacts` |
| `TradeDecision` | the trade decision of one row | state machine over `TradeRules` |
| `DecisionContract`, `DecisionStages` | what surfaces ask of a row; the eight stages as functions of rows | operators |
| `DecisionPipeline` | one row through all stages, live and again as a fallback | state machine over `DecisionStages` |
| `QuoteCache`, `ChartCache` | quotes and charts in memories and files, refreshes, warm-ups, requests | state machines |
| `TickerRooms` | chat rooms: connections, slots, history, broadcast | state machine |
| `PushAlerts`, `TelegramAlerts` | tokens, cooldowns, dispatch; fingerprints, reservations, transport | state machines |
| `NewsFeed` | how a story is read; from stories to cards to a page | state machine |
| `NewsCache` | the news of a ticker per locale, requests and rounds | state machine |
| `TradingBooks` | simulated positions and trades, outcomes of signals | state machine |
| `AlertHistory`, `WeeklyPolls` | the day's alerts; the week's polls | state machines |
| `CommunityPosts` | posts and what hangs on them, reports, reviews, blocks, scores | state machine |
| `MCBilling`, `MCAuth` | instances of `Billing` and `AuthSession` | model values |
| `Channels` | the modules of 2.7 and `AccountLinks` beside one another, over the constants of all | composition |
| `MCChannels` | an instance of `Channels` | model values |
| `SignalCache`, `BatchCache` | the signals of the last cycle in memories and a file; the bars of many symbols | state machines |
| `RuntimeSchema` | how API and AI worker make sure of their schema | state machine |
| `EventIndex` | the migration that makes the webhook's event unique, beside the webhook | state machine |
| `Platform` | `QuoteCache`, `ChartCache` and the modules of 2.8 beside one another, over the constants of all; the values of the small instance at its end | composition |
| `Analysis` | `ChartSignals`, `TradeDecision` and `DecisionPipeline` beside one another; the values of the small instance at its end | composition |
| `MCPages` | an instance of `SnapshotCache` beside one of `SymbolHydration` | model values, composition |
| `BillingProofs`, `AuthSessionProofs`, `AuthSafetyProofs`, `SnapshotProofs`, `AnalysisProofs`, `PlatformProofs`, `ChannelsProofs`, `RecordsProofs` | section 6 | proofs |

Definitions that follow a comment `Mutant:` are plausible mistakes in the
definition after them (a missing check, a lost reset, a swapped order). No
specification uses them; replacing the mapped definition by one of them makes
the property of the corresponding mutant fail.

### 2.1 Billing

A database session reads, computes on a private copy and writes at commit, so
reading and committing are two actions. A commit and the statements under the
row locks it releases are one.

| Code | Action |
|---|---|
| `register` with a referral code | `Register` |
| first locked section of `stripe_webhook` | `HookReceive` |
| `await _validate_activation_event` | `HookVerify` (embedded status, else the current one at Stripe) |
| second locked section up to the commit | `HookActivate`, `HookDowngrade`, `HookNote` |
| `db.commit()` with `apply_referral_validation` before it | `HookCommit`; refused by the unique index when `Conflicts` |
| error answers, rollback, death of the process | `HookGiveUp` |
| `validate_referrals` in the worker | `WorkerScan`, `WorkerCommit`, `WorkerRollback` |
| `_refresh_and_touch_user_access` | `ReqRefresh`, `ReqCommit`, `ReqGiveUp` |
| `POST /auth/subscription/sync` | `ReqSync`, `ReqCommit`, `ReqGiveUp` |
| Stripe (external) | `StripeSubscribe`, `StripeInvoice`, `StripePaymentFails`, `StripeCancel`, `StripeUpdate` |
| an operator setting `is_active` in the database (external) | `SetEnabled` |

Delivery needs no network: an event stays in `events`, and any idle request may
take any of them at any time, which is loss, delay, duplication and reordering
at once. Four details of the code are kept because results depend on them:

- `_STRIPE_WEBHOOK_LOCK` is reentrant and taken by coroutines of one event-loop
  thread. What excludes them from each other is that the second section
  contains no `await`; `LockFree` says so per process, and another process is
  not excluded at all.
- `SessionLocal` has `autoflush=False`: `CommitReferrals` counts the referrals
  that were validated before this transaction, not in it.
- `_lock_referrers_for_update` uses `populate_existing()`: for a referrer the
  transaction's own unflushed changes are dropped (`HookCommit` takes
  `RewardRow(rows[u], ...)` for touched users, not the row prepared).
- An ORM commit writes the changed columns only (`FlushRow`), so two sessions
  merge column by column.

Abstractions: time is counted in days, and no transaction is open across
midnight (`Tick`); events carry the fields the code decides on; the static
checks of an activation (livemode, product, amount, mode) are one Boolean;
`SELECT ... FOR UPDATE SKIP LOCKED` in batches of 500 is one step.

### 2.2 AuthSession

| Code | Action |
|---|---|
| `request_code`, `request_email_change` up to their commit | `RequestCode`, `RequestEmailChange`, `StartCommit` |
| `login`, `login_json` with a verified password | `PasswordLogin`, `StartCommit` |
| background delivery of the code | `Deliver` |
| `_consume_challenge_core`: read | `VerifyRead` |
| expired code | `VerifyExpired` |
| conditional increment of `attempts`, committed | `VerifyCount` |
| comparison with the digest | `VerifyCompare` |
| claim `consumed_at IS NULL`, lock the user, insert the session | `VerifyLogin` (or `VerifyLoginRefused`), then `IssueCommit` |
| `register`, committed, then its session | `Register`, `RegisterSession`, `IssueCommit` |
| `verify_email_change` | `ChangeBegin`, `ChangeRefused`, `ChangeCommit` |
| `logout`, `logout_all` | `Logout`, `LogoutAll` |
| any error, rollback, death of the process | `GiveUp` |

An `UPDATE` at READ COMMITTED chooses its rows when it starts, waits for row
locks, and takes effect at commit: choice and commit are two actions, and
`Held`/`UserLockFree` are the row locks in between. `compared` (guesses
compared with a digest) and `by` (the code a session was issued for) are
history variables: nothing in the specification reads them.

A lock-order inversion exists between a login (user row, then session rows) and
a change of address (session rows, then user row): PostgreSQL aborts one of
them, which is `GiveUp`; the model cannot deadlock on it because choosing rows
and locking them are not separate from the commit.

### 2.3 AccountLinks

A request reads, keeps a copy in its transaction (`tx`) and writes at commit.
`RequestToken`/`IssueToken` are `create_telegram_link_token` before and at its
commit, `HandBack` and `LinkDirectly` the checks of
`consume_telegram_link_token` and `POST /auth/telegram/link`, `Link` the commit
of either (refused, hence only `Fail`, when the unique column `users.telegram_id`
is taken), `Redeem`/`Grant` are `redeem_promo_code` up to and at its commit;
`RowFree` is its `FOR UPDATE`. Whether the plan includes Telegram decides only
whether a request begins.

### 2.4 SnapshotCache, SymbolHydration, SelectedSymbol

Each process has a memory over one file whose modification time is counted in
writes. A call is cut where another thread or process can come between:

| Code | Action |
|---|---|
| `get` and its variants, `_load_from_disk_if_needed` | `Serve`, `Merge`, `Take` |
| `update`: time, generation guard, publishing, file, bookkeeping | `Stamp`, `Refuse`, `Publish`, `WriteDisk` or `WriteFails`, `Bookkeep` |
| `generate_market_snapshot` live, or from the last good rows | `Generate`, `GenerateFallback` |
| `_refresh_ai_tools_for_cycle`: base, tools, retry, shipping | `CycleBegin`, `CycleAgain`, `Update` |
| `_snapshot_self_heal`, where a cycle has no signals | `Healed`, what the cycle then works on |
| death of a process | `Restart` |

A payload is its generation, its source and the generation of its tools.
`SymbolHydration` follows one symbol: `Poll` (`hydration_status`), `Queue`,
`Try` and `Discard` (`request_symbol_hydration`, `_run`), `Crash`; `Publish` and
`Build` put the page together. `SelectedSymbol` holds the functions that do it.

### 2.5 The analysis

`ChartSignals` takes one bar per step and keeps what the loop of
`build_trend_breakout_payload` keeps: position, breakout memories, cooldown,
last event. `Watch` and `Enter` are the branches without a position, `Hold` and
`Exit` those with one, `Finish` the session close after the loop. The short side
is the long side of the mirrored bar, as in the code.
`TradeDecision` resolves a row and summarises one that may bring its own action.
`DecisionPipeline` has one action per stage of `build_snapshot_payload` (`Seed`
to `Envelope`) and `Refeed` for the second pass over finished rows.
Scores are whole points; sums of fractions are dropped.

### 2.6 Market data

`QuoteCache` cuts `get_price_snapshots` into `Begin`, `Ask`, one `Take...` per
symbol, `Cache`, and `_persist_price_cache` into `Copy`, `Replace`, `Clear`:
these are its lock regions. `ChartCache` has `Look`, `Parse` and `Install` for
loading, `Fetch` for the provider, `Copy`, `Prune`, `Replace`, `Stat` for
writing, and the file of requested charts beside them.

### 2.7 What reaches the users

| Module | Code | Actions |
|---|---|---|
| `TickerRooms` | `websocket_chat`, `connect` with its awaited `accept`, history | `Reject`, `Refuse`, `Reserve`, `AcceptFails`, `Join`, `Talk`, `Strand`, `Leave` |
| | `chat_message`, `broadcast` | `Enter`, `Audit`, `AuditFails`, `Publish`; `Send` and `SendFails` per connection |
| `PushAlerts` | `register_push_token`, `unregister_push_token`, `deactivate_push_token` in two processes | `ApiReads`, `Writes` |
| | `dispatch_signal_pushes` signal by signal, device by device; kill switches; restarts | `Dispatch`, `Trying`, `Switch`, `Crash` |
| `TelegramAlerts` | `_dispatch_prepared_alert`: lock, reservation, transport, outcome | `PassOver`, `Reserve`, `Sent`, `Unknown`, `Failed` |
| `NewsFeed` | `build_symbol_news_with_report`; `build_public_news_payload` | `Build`; `Serve` |
| `NewsCache` | `get_symbol_news` in requests and rounds; the file of requests | `Ask`, `Round`, `Warming`, `Write`, `Crash` |
| `TradingBooks` | `worker_loop`'s updates of paper trading and of the outcomes, each with its file | `Trade`, `AuditSignals`, `Restart` |
| `AlertHistory` | `persist_ai_alert_history`: load, temporary file, replace | `Begin`, `Load`, `Open`, `Write`, `Replace`, `ReplaceFails`, `Crash` |
| `WeeklyPolls` | `get_weekly_poll`, `vote_poll`, `_mutate_store` under both locks | `Ask`, `Fetch`, `Decide`, `Generate`, `Enter`, `Save`, `Raise`, `Restart` |
| `CommunityPosts` | posts, replies, deletions, reports, reviews across database and moderation file | `Ask...`, `InsertPost`, `InsertReply`, `Approve`, `Delete`, `Removed`, `Report`, `Review`, `Fail` |

The stream of the market (`ConnectionManager`) is the case of one room, with
the same awaited `accept` and the same copy of the connections per broadcast.

Texts, stories and signals are records of what the code tells apart in them. A
file is one value that is replaced whole where the code uses `os.replace`; where
two processes share the temporary name (`AlertHistory`), the temporary file is a
variable of its own and may be torn.

### 2.8 What the requests stand on

| Module | Code | Actions |
|---|---|---|
| `SignalCache` | `update` and `_write_to_disk`, cut at the two locks | `Stamp`, `Publish`, `Copy`, `Write`, `Finish` |
| | `_load_from_disk_if_needed`; `clear` | `Look`, `Read`, `Install`; `Clear`, `ClearFile`, `Forget` |
| | failed reads and writes; a restart | `Fail`, `Restart` |
| `BatchCache` | `get_market_data` around `_refresh_lock` and the download | `Ask`, `Look`, `Enter`, `Deliver`, `Fail` |
| | `MarketDataCacheCompatibility.clear` | `Clear` |
| `RuntimeSchema` | `_create_tables_if_needed`, `_ensure_worker_schema` | `Start`, `Create`, `Created` |
| | `ensure_runtime_schema`: look, alter, commit | `Look`, `Alter`, `Finish` |
| | `validate_production_schema`; migrations (external) | `Verify`, `Verified`; `Migrate` |
| `EventIndex` | `run`, the two parts of a preflight | `Start`, `Look`, `Inspect`, `Reinspect` |
| | `_apply_normal_migration`; `_add_column`, `_create_index_concurrently` | `Migrate`; `AddColumn`, `Begin`, `Scan`, `Validate` |
| | the webhook's row for an event; `subscription_sync` | `Receive`, `Insert`, `Refused`, `Commit`, `Rollback`; `Sync` |

A batch of signals is the time of its update. A look of `RuntimeSchema` is one
entry of `Plan`, the sequence of lookups in `ensure_runtime_schema`; on
PostgreSQL what a process has made stays in `own` until it commits, and a
statement waits for the locks of the others' (`Waits`); on SQLite each statement
commits by itself. `Begin`, `Scan` and `Validate` are the phases in which
PostgreSQL builds an index concurrently: it enters new rows only from the second
on, and a build that fails leaves an invalid index which `IF NOT EXISTS` accepts.
`UniqueIndex` in `Billing` is what an applied migration leaves behind.

## 3. Runs

`CHECK_DEADLOCK FALSE` is set because the bounds end every behaviour: when no
more event, code, call or tick may happen, the modelled system has nothing left
to do. Components that share no state are checked in one run: `part` says which
of them moves, and the others stay as they are.

| Run | Instance | Question |
|---|---|---|
| `billing_webhook` | 2 accounts, 2 subscriptions, one shared customer, 2 requests, 1 process, 3 events | do all delivery orders apply an event once, keep subscriptions apart, and let the newest decision win? |
| `billing_processes` | 1 account, 2 requests in 2 processes, 1 API request, unique index, operator toggles `is_active` | can any concurrent request make an account a paying one? |
| `billing_referrals` | a referrer, 2 referred accounts, webhook and worker, 2 days | are rewards paid once, and never more than bought and earned? |
| `billing_liveness` | 2 accounts, 2 requests, a worker, fairness | does a cancellation land, is a qualifying referral validated? |
| `auth_sessions` | 1 user, 2 channels, 2 requests, 2 codes, 3 guesses at a code that allows 2, operator toggles `is_active` | is every session earned, every code bounded, the owner policy implemented? |
| `auth_limits` | 2 addresses, 1 IP, 2 requests, 4 ticks of a 4-tick window, cooldown 1 | do concurrent sends stay within the limits? |
| `auth_email` | 2 users, 3 addresses, 2 requests, both register and move | is an address ever shared, or taken without a code mailed to it? |
| `lost_activation` | 1 account, webhook and request | expected violation, see section 5 |
| `analysis` | a chart of 5 bars out of 14 kinds in 3 contexts; about 8 600 rows of a trade; 8 tool profiles with every risk, remark and pulse, 11 feed rows, two passes | do signals, trade decisions and surfaces agree with what they stand on? |
| `platform` | 2 symbols (one a proxy), two refreshing threads; 2 charts, a reader, a cycle and a strip; an engine, two readers and a clear in 2 processes; 2 callers of the bars; API and AI worker over 3 tables and every schema an older release left; 2 operators and 2 webhooks | is a quote or a request ever lost or turned back, do the caches answer with what they say they know, and do processes and migration leave a schema that holds? |
| `pages` | engine, AI worker and reader in 2 processes over one file, 3 writes, 6 times; one symbol polled through a crash; fairness | is what is published whole, and does everyone come to see it? |
| `channels` | the modules of 2.7 and 2.3, each with 2 or 3 actors | see below |

### What the properties say

Billing and sign-in:

- `EventOnce`: however an event is delivered, at most one audit row carries it.
- `SubscriptionOwnedOnce`: no two accounts hold one subscription or customer.
  The columns have no unique constraint.
- `PremiumIsCurrent`: paid access rests on an activation of the account's own
  subscription which no cancellation or failed payment has followed.
- `AccessIsBought`: an account becomes a paying one only in the transaction
  whose audit row records the payment, although four kinds of transaction write
  its row column by column.
- `EntitlementBounded`: the end of a plan never lies beyond one plan length
  after some payment plus the months the referrals earned.
- `RewardOnce`: a group of referrals pays one month.
- `CancelLands`, `QualifiedIsValidated`: the liveness properties.
- `SessionsAreEarned`: a session comes from a registration or from one login
  code of its user that it uses up.
- `AttemptsBounded`: a code is compared with at most `MaxAttempts` guesses,
  however many requests guess at once.
- `SessionsFollowPolicy`: the refinement `AuthSession => SessionPolicy`, where
  `live[u][c]` is the set of open sessions and `issued` the number of rows.
- `SendsLimited`: the limits hold over every window of the ledger.
- `EmailChangeIsProven`: an account moves only in the transaction that uses up a
  code mailed to the new address for it. (`EmailsUnique`, that addresses of
  accounts stay apart, is proved and not run.)

Analysis:

- `SignalsFollowBars`: over any chart, the signal and the last event tell the
  position, also after the session close, and a
  pullback entry resumes a breakout that is still recent.
- `ReadyTradeIsConfirmed`: no ready decision was turned round by the coherence
  rules or stands on unconfirmed data.
- `SurfacesAgree`: radar, ranking, operational rules, final decision and
  envelope offer a row all or none, each by a list of its own.
- `ReadyIsSound`: what a ready row needs of feed and tools, whichever stage
  asked for it.
- `FallbackNeverTrades`: the second pass over old rows offers nothing.

Market data and pages:

- `RestLosesNoQuote`, `QuotesMoveForward`: no thread's write, reload or refresh
  loses a quote or brings an older one back.
- `RequestedUntilWarm`: a requested chart stays on the list until it is there.
- `LastGoodIsGood`, `ToolsBelongToRows`: the last good snapshot is never a
  degraded one; tools are of the generation of their rows.
- `ReadersCatchUp`: once the producers rest, a reading process serves the file.
- `FreshAnalysisStays`, `PolledSettles`: a settled analysis is not taken back
  within its lifetime, and a polled symbol settles again and again.

The rest of the platform:

- `KnownIsServed`: a process that takes the file of signals for known serves
  nothing older than it, where one engine publishes.
- `AnswersAreWhole`: an answer from the cached bars has every symbol asked for
  and is young enough; one thread downloads at a time.
- `StartedIsComplete`: a process that is up has the schema it needs, whoever else
  created and patched it meanwhile.
- `AppliedIsEnforced`: once a migration has ended well, no event is logged twice.

Channels:

- `NoGapInTheRoom`: history and broadcasts leave no gap between them.
- `OneAlertPerCooldown`, `OneSenderPerAlert`: alerts of a ticker reach a device a
  cooldown apart; an alert is under way in one thread.
- `OneCardPerStory`, `FileMovesForward`: no story on two useful cards; every
  locale keeps its newest entry, whoever writes late.
- `BooksBalance`: positions and trades agree, in memory and on
  disk; windows fill in their order and not before their time.
- `AlertsOfTheDay`: the page shows alerts of the day, active ones of one call.
- `VotesAreKept`: a write loses a vote only where a process was misled about the
  file by its time (`Misled` says when).
- `ModerationStands`: feed and page hide the same
  posts; reports do not undo a moderator's decision.
- `PromoUsesAreCounted`: a promotion's counter tells its redemptions and keeps
  its limit.

### Bounds, and why they are enough

`MaxEvents`, `MaxAudit` and `MaxDay` bound Stripe, the audit log and the
calendar; `MaxChallenges`, `MaxSessions`, `MaxLedger`, `MaxTries` and `MaxTime`
do so for sign-in. Three events are the smallest number with an activation, its
cancellation and a second activation of the same or another subscription, and
two requests let every delivery run beside every other. Two days (with plan
lengths of one to three) let a trial and a plan end while a payment, a reward
or a request is under way. In `auth_sessions` the tries exceed the attempts a
code allows by one, so the refusal happens. `auth_sessions` and `auth_limits`
use symmetry in the requests (all served by one process, so interchangeable)
and in the channels, which no rule of the code treats apart;
`auth_email` also in users and addresses, because nobody is registered
initially. No run that checks liveness uses symmetry.

Elsewhere the actors are two, the least that overlap, and times run one tick
past the longest lifetime, cooldown or rest, so that each ends within a run.
Five bars hold a breakout, a weak bar, a resumption, an exit and the cooldown
after it (`maxHold` and `pullbackBars` are shortened accordingly). Three writes
to the snapshot file are a generation, its tools and one more that either may
overtake. In `channels`, limits (`RoomLimit`, `Threshold`, `MaxTrades`,
`MaxRows`, `Limit`) are one or two so that they are reached. In `platform` two batches let
a load hold the older while the newer is published, two columns in two tables
with one patched index are all kinds of looks, and three tables one that the
others refer to; `MaxRunsOfScript` is a run that fails and one that finds what
it left, or two at once. Each bound is named
in its module's CONSTANTS. Where a theorem covers the property (section 6) the
bound is not the argument.

`Billing` runs with one process leave the unique index out: there the lock
alone must do, as on a database where migration 0001 has not run.

### Fairness

`billing_liveness` assumes strong fairness of receiving, verifying, applying
and committing each event, and of the worker's commit; weak fairness of its
scan. Stripe repeats an event until it is acknowledged with 2xx, so a delivery
that can succeed again and again is tried again and again; a request that fails
once (a rollback, an unreachable Stripe) is not the one that fails always;
`referral_worker` repeats hourly whatever the last cycle did. Nothing is
assumed of users, Stripe's state changes, `HookGiveUp` or the clock.

`pages` assumes weak fairness of a reader's read and of every step of a call
that has begun (threads are scheduled, no step waits for another process), of
polling (the page polls while it is open) and of the queue's thread. Nothing is
assumed of when producers begin, of writes succeeding, of candles arriving, or
of processes staying alive.

## 4. Which process runs what

`LockFree` and `LimitLockFree` depend on `Proc`, the assignment of requests to
processes. `render.yaml` starts one uvicorn process; the code says in several
places that it expects to be multi-process safe, so both cases are modelled.
The referral worker is off in the API process of `render.yaml` and on by
default elsewhere (`main.py:313`), so `Workers` may be empty or not.

## 5. Where code, tests and documents disagree

`lost_activation` ends in a counterexample on purpose; `PROJECT.json` quotes the
line of the repository it contradicts: a request reads u1 after the trial has
ended, the webhook activates u1, and the request commits its downgrade of plan
and access over it.

Further statements of tests, comments and documents are written down in the
modules as formulas that the code does not keep. They have no standing run; the
instance beside each produces the counterexample.

| Formula | Disagreement | Instance |
|---|---|---|
| `Billing!PaidUserIsPremium` (second cause) | u1 refers u2, both pay: validating u2's referral re-reads u1 as referrer and drops the pending activation; the audit row commits, the redelivery is a duplicate (`referrals.py:196`) | 2 accounts, `Purchases <- PairTheirOwn`, `Code <- CodeOfU1`, no API request, `MaxEvents = 2`, `MaxDay = 1` |
| `Billing!CustomerMayReturn` | `stripe_subscription_id` survives the downgrade, so the customer's next subscription is refused with 409 | `Purchases <- OneBuyerTwice`, 2 subscriptions, `MaxEvents = 3`, `MaxDay = 0` |
| `Billing!PaymentExtendsPlan` | a renewal paid during a running period does not move its end (`access_service.py:206`) | `billing_processes.cfg` with one request, no API request, `MaxDay = 2` |
| `Billing!PremiumExpires` | an activation keeping an old end date and a concurrent sync clearing it leave a paid plan without end | one request, `Managed = {}`, `MaxEvents = 3`, `MaxAudit = 4`, `MaxDay = 3` |
| `Billing!EndedStaysEnded` | an activation verified before a cancellation commits after it (`stripe_webhook.py:443`) | both requests in one process, no API request, `MaxEvents = 3`, `MaxAudit = 3`, `MaxDay = 0` |
| `Billing!StatsMatchReferrals` | statistics miss the referrals of their own transaction (`referrals.py:163`) | the first line's, with a worker, `MaxEvents = 1`, `MaxAudit = 1` |
| `AuthSession!OneSessionPerUser` | the document says one session per user over all channels, the code replaces sessions per channel | `auth_sessions.cfg` with `Home <- HomeOne`, `Managed = {}`, `MaxAttempts = 3`, `MaxTries = 2`, `MaxSessions = 3` |
| `AuthSession!ReplacedCodeIsWorthless` | a code invalidated while its verification is past the counter is claimed all the same | the same |
| `AuthSession!OneOpenLoginCode` | two password logins leave two open codes (`auth_session_service.py:149`) | the same |
| `AuthSession!OldAddressIsOut` | a login code mailed to the old address survives the change (`auth.py:921`) | the same with two addresses, three codes, one session |
| `AuthSession!SendsLimited` | two processes exceed a limit documented as multi-worker safe (`auth_session_service.py:42`) | the same with `Proc <- TwoProcs`, `MaxPerEmail = 1`, `MaxLedger = 2` |
| `AccountLinks!TokenLinksOnce` | a used or replaced link token links a chat when it was handed back in time (`auth_session_service.py:699`) | `channels.cfg` with 2 tokens, `PROPERTY TokenLinksOnce` |
| `SnapshotCache!NeverBackwards` | a load compares the write time in the file with the generation time in memory (`snapshot_cache.py:443`), so an older generation written late replaces a newer one | `pages.cfg` with engine and AI worker in two processes |
| `QuoteCache!FreshAnswerIsRecent` | a proxy answered from the cache is cached for its symbol with a new time: an answer calls itself fresh beyond the fresh age (`market_data_loader.py:2033`) | `platform.cfg` with `PromptSpec`, `MaxTime = 4`, `MaxRuns = 2` |
| `ChartCache!FileIsFound` | writing sets the time of the file as read (`market_data_loader.py:1042`): a chart that another thread wrote, or that memory had dropped, stays unseen | `platform.cfg` |
| `SignalCache!NeverOlder` | a load that read the file before an update installs it afterwards; the update then finds another batch in memory and is not written (`signal_cache_layer.py:110`) | `platform.cfg`, part `signals` |
| `SymbolHydration!OneSourceOfTruth` | panel and tools of a page read the analysis at two times, and the second may have changed source | `pages.cfg` |
| `SymbolHydration!EntryNeedsBothLevels` | a range of one price keeps one level, which is not rated, and the gate lets the action through | `pages.cfg` with a chart whose high is its low |
| `TickerRooms!RoomHolds` | a refused duplicate frees the slot of the connection it duplicates while that one is still being accepted | `channels.cfg` with `RoomLimit <- 1` |
| `PushAlerts!RegisteredDeviceStays` | the API and the worker replace one file each from its own copy (`push_service.py:147`, `176`): a device registered in between is lost | `channels.cfg` |
| `TelegramAlerts!NotSentTwice` | the session retries a POST whose answer was lost (`telegram_alert_engine.py:89`) | `channels.cfg` |
| `NewsFeed!OnlyItsOwnNews` | an item counts as the symbol's because it was filed under the ticker that was asked for, whatever its text says (`public_news_service.py:84`) | `channels.cfg` |
| `NewsCache!OneCallPerTTL`, `StoriesStay` | an entry without stories does not keep the next request from calling the provider; an answer without stories is written over those found meanwhile (`news_service.py:2221`) | `channels.cfg` |
| `AlertHistory!HistoryIsKept` | two processes load, merge and replace one file: the later replaces what the earlier added | `channels.cfg` |
| `WeeklyPolls!VoteIsOnItsQuestion` | a vote counts for the poll that is there when it is written, which may ask something else by then (`poll_service.py:623`) | `channels.cfg` with two events and three writes |
| `CommunityPosts!RemovedOnce`, `HiddenWasShown` | deletion and review both count one removal (`posts.py:199`); reports and reviews are taken of posts that do not exist yet | `channels.cfg` |

Seen while modelling, and kept as the code has it: the token of an expired link
is not marked, because the refusal returns before the commit
(`routes_internal.py:86`); a promotion stored in lower case can never be
redeemed, and what a redemption grants is never applied to the account; an
author cannot delete the own post once it is hidden.

## 6. What is proved

All theorems hold for every value of the constants that satisfies the named
assumptions (`DaysAssumption`, `NoneAssumption`, `RewardAssumption`,
`BillingAssumption`, `AuthAssumption`, `SnapshotAssumption`, `QuoteAssumption`,
`PlatformConstants`, `PageConstants`, `AnalysisConstants`, and in `Channels`
`RoomMessages`, `BookSnapshotsAre`, `DeliveredStories`, `PushTiming`,
`PollEvents`, `AlertTiming`, `HistoryReports`, `ReviewsKept`): finite sets of
users, requests and symbols, natural-number durations and limits, `None`
different from every identifier, a process for every thread, messages numbered
as a process posts them, inputs (snapshots, deliveries, reports, bars, rows) of
the shape the code gives them, a request to Telegram that is over
before its alert may be sent again, and a plan of looks at the schema that looks
for its tables first and for everything it patches, as `ensure_runtime_schema`
is written. `AccountLinks` states its own as the
hypothesis `LinkConstants` of each theorem. Five theorems have a hypothesis
about the deployment besides, because without it the code does not keep the
property:

- `SingleProcess`, `OneServer`: one process serves the webhooks, or the requests
  that send codes, as `render.yaml` deploys it. The locks that the arguments
  rest on are locks of a process.
- `OneEngine` (only `KnownHolds`): one thread publishes signals, as the loop of
  `worker.py` does. A snapshot asked for while the cache is empty runs the engine
  as well (`market_snapshot_engine.py:842`); two engines publish in one order
  and may write in the other, and the property is not claimed of them.
- `NoRequests` (only `EntitlementHolds`): no request takes an access away
  meanwhile. A request that ended a plan may commit the cleared end of it over a
  plan that was renewed while it ran; the plan then has no end, and a reward the
  account earns later counts from its own day. That is the hazard of
  `dependencies.py:66`; `lost_activation` shows its cause.

| Theorem | Argument |
|---|---|
| `BillingProofs!TypeCorrect`, `TypeOKAlways` | `TypeOK` is not inductive: a request refers to an event by number, and what it later reads of it must exist. `StripeOK` (a subscription in use has its user and customer) and `HookOK` (a busy request holds the number of an existing event) make it so; one lemma per operator of the rules, one per action. |
| `BillingProofs!EventAppliedOnce` | assumes the unique index, or that all requests run in one process. With the index `HookCommit` itself refuses. Without it: no two requests are open at once and an open request's event is not in the log, because `AtLock` has looked under the lock. |
| `BillingProofs!AccessAlwaysBought` | an action property, from the fact that a flush can only bring a paid plan into a row if the session's own copy changed to one, and only `HookActivate` prepares such a copy. |
| `BillingProofs!RewardHolds` | `RewardInv`: only users who exist have referrals, qualify or are copied, and no copy in a transaction erases a user. Months are booked and credited in one commit, under the referrer's row lock, from a count of validated referrals that only grows. |
| `BillingProofs!OwnershipHolds` | in one process. `OwnedInv`: what an open transaction is about to write into the Stripe columns belongs to nobody else, which its check established and no other transaction can undo, since only one is open; requests do not write these columns. |
| `BillingProofs!PremiumHolds` | in one process. `CurrentInv` adds what an open transaction prepared: an activation its own subscription, a downgrade the free plan for the row it has read; a row that is not free belongs to the last activation. |
| `BillingProofs!EntitlementHolds` | in one process without requests. `EndInv` follows the end of the plan through the open transaction: kept, or one plan length from today; `SoldInv` says that a subscription's product does not change once it is sold, which makes the bound of an old payment as good as ever. |
| `AuthSessionProofs!TypeOKAlways` | with `StageOK`: in each stage the request's code, session and user exist. |
| `AuthSafetyProofs!AttemptsAlwaysBounded` | `CountedFirst`: for each code, the guesses compared plus the requests that have counted and not yet compared are at most `attempts`. That is where the commit before the comparison is used; the bound alone is not inductive. |
| `AuthSafetyProofs!SessionsAlwaysEarned` | `EarnedInv`: at most one request holds a claim on a code, a claimed code is not used up yet, and sessions refer to used-up login codes of their user. |
| `AuthSafetyProofs!EmailsStayUnique` | inductive as it stands, from the check `EmailFree` at commit and `Owner(e) = {}` at registration. |
| `AuthSafetyProofs!EmailChangeHolds` | an action property. `ChangeInv`: from the moment it has read a code, a request carries a code that was mailed, for the user of its own session; while it changes the address, for the purpose of a change, and the sessions it revokes are that user's. Codes are never edited back. |
| `AuthSafetyProofs!SendsHold` | in one process. `SendInv`: of the requests past the limit check and before their commit there is at most one (the lock), and for it the limits still have room, because the window it counted can only lose entries as time passes. A window starting at an older entry gains an entry only if it also lies in the window that ends now. |
| `AuthSessionProofs!ImplementsPolicy` | `IssueInv`: two requests never issue for one user at once, and an issuing request has chosen every open session of its channel. Then `IssueCommit` is the policy's `Login`, `Logout`, `LogoutAll` and `ChangeCommit` are `Revoke`, everything else is a stutter. |
| `SnapshotProofs!TypesKept`, `LastGoodAlwaysGood`, `ToolsAlwaysMatch` | `SoundInv`: every payload in a memory, in the file and in a call on its way is sound (tools of its generation, last good not degraded). Each copy between them preserves it; a call that waits holds what was sound when it took it. |
| `SnapshotProofs!FreshHolds` | an action property of the page's symbol. `AnalysisInv`: memory is in step with the file of its only process (`InStep`), and a run that has been queued, or tries, found no settled analysis when it looked (`QueuedPast`, `TryingPast`); nothing settles one meanwhile but that run. |
| `AnalysisProofs!SignalsHold` | `ChartInv` adds what the book of each side remembers: a breakout that armed a pullback lies at least two bars back, so that a resumption has its breakout and the weak bar between. |
| `AnalysisProofs!ReadyTradeHolds` | `TradeInv`: a decision not taken yet is the one the row brought. The coherence rules are then followed in their order: each either leaves action and readiness alone or takes the readiness away. |
| `AnalysisProofs!SurfacesAlwaysAgree`, `ReadyRowHolds`, `FallbackHolds` | `PipelineInv`, stage by stage: one lemma per stage says which fields of the row it may change (`Keeps`) and what it writes there. `FromFeed` is what the row keeps of its feed, `AuditHolds` what a passed audit excludes, `MasterHolds` what stands behind a direction, `SurfacesHold` that a fault one surface lists every later one lists. The second pass is stale (`RowTypes`), whatever its rows say, and a stale snapshot fails the audit of every row. |
| `PlatformProofs!ForwardHolds` | an action property, from `CacheInv`: nothing in memory, in the file, in a copy or on its way is dated later than the clock, so what is cached now is later than all there is. A load takes a quote of the file only where memory has none or an older one. |
| `PlatformProofs!RestHolds` | for the one process that refreshes. `KeepInv`: wherever memory is later than the file, a thread will still write (`WillWrite`) or holds a copy at least as late; copies are taken and written by one thread at a time (`OneCopies`), and a copy on its way is never behind the file. The dirty flag alone does not imply this: a thread clears it after a write that another has overtaken. |
| `ChannelsProofs!ChatsStayApart` | inductive with the types: `Link` looks at the unique column in the step that writes it. |
| `ChannelsProofs!PromosAlwaysCounted` | `PromoInv`: of the transactions on one promotion there is one at most, and it holds the counter as it is, plus one, below the limit. That is what the row lock gives; the count itself is not inductive. |
| `RecordsProofs!RoomsHold` | `RoomInv`: who is sent a message is sent every later one of his room (`Reached`), although a broadcast copies the connections and a joining one reads the history first; a process posts one after another (`PostedInOrder`), and the room's file holds what was posted, in that order and cut at its oldest end (`Stored`). |
| `RecordsProofs!FeedHolds` | `ClustersGood`: a story's index points at the cluster whose card tells it, through every merge, move and reordering of the clusters; sorting and cutting draw from the cards without repeating one (`Drawn`). |
| `RecordsProofs!BooksHold` | `BooksInv`: memory and file each balance, position by position (`Balanced` gives every trade the position it closed), and windows fill in order; a failed write leaves the older file, which balances too. |
| `RecordsProofs!AlertsHold` | `HistoryInv`: every content there is (the file, the temporary file two processes share, what a call has loaded) holds alerts of calls that have finished, and no two calls begin at one time. |
| `ChannelsProofs!ModerationHolds` | an action property and an invariant. `CommunityInv`: review and queue stay sequences. One pass over the queue decides a post by its last item, which is what the feed asks of it one by one. |
| `ChannelsProofs!OneSenderHolds` | `SentIsReserved`: whoever posts reserved its fingerprint when its request began, not longer ago than a request takes; a second thread finds the reservation younger than the cooldown. |
| `ChannelsProofs!OneAlertHolds` | `AlertsRemembered`: every alert since the last restart is known to the stamps the next decision reads, those of the file between cycles, those in hand during one, but for the alerts just leaving. `SendsCooled` says these were a cooldown after the stamps. |
| `ChannelsProofs!VotesHold` | an action property. `PollLocks`: the lock of the process and the lock of the file exclude; `ChangesCopy`: whoever changes the file works on the copy whose time is the file's. A vote is lost only if that copy is not the file's content, which is `Misled`. |
| `ChannelsProofs!FileHolds` | an action property: a write merges, locale by locale, the newer of what the file has and what it brings; the times along the way are integers no later than the clock. |
| `PlatformProofs!RequestsHold` | an action property, with `RequestsInv`: a request is dated, and no time is zero, so that taking the date anew never looks like dropping the request. Then only the step that drops warmed requests makes one absent, and it drops those of its call. |
| `PlatformProofs!AppliedHolds` | `IndexInv`: what a run saw of an index by name may be of any state, so the argument is about the index alone. One build at a time moves it through its phases (`OneBuild`), nothing takes a good one away, and while it is good every row on its way was checked against it (`EnteredOnce`). |
| `PlatformProofs!CompleteHolds` | `SchemaInv`: what a process has settled of its plan stays settled, because the schema grows by whole tables, and a table that lacks an index was there or was made before the indexes were looked for (`Reached`, `TablesFirst`). `StartedIsComplete` alone says nothing of a process on its way. |
| `PlatformProofs!WholeHolds` | `BatchInv`: what a payload is taken to cover is in it, by name or as the only symbol (`Covers`); then an answer is whole as it is given. |
| `PlatformProofs!KnownHolds` | with one engine. `SignalInv`: a memory's modification time that equals the file's was seen with the file's own batch, or belongs to the engine that had published it; whoever is about to install it knows the file's batch or an older time (`Underway`). |

### Recursive definitions

Several properties are about what a loop of the code computes: the clusters of a
feed, the books after a snapshot, the merged day of alerts, one pass over the
queue of reports. The models write these loops as folds and as recursive functions on
the naturals. The library's induction theorems take an operator as parameter,
which the provers cannot instantiate, so each proof states its claim as the set
of naturals where it fails and takes the least one (`NatSets`, `LeastOne`,
`GreatestOne`, from `WFMin` over the order of the naturals): below it the claim
holds, and one step of the loop contradicts it. Every such lemma is about one
definition of the model; there is no general theorem on folds.

### Left to TLC

Liveness and fairness are out of the prover's reach: `CancelLands`,
`QualifiedIsValidated`, `ReadersCatchUp` and `PolledSettles` are only
model-checked, under the fairness of section 3. Every safety invariant and every
action property of a passing run has its theorem above.

Type correctness of `Billing`, `AuthSession`, `AccountLinks`, `QuoteCache`, the
chart, the rows of the pipeline, the channels, the schema, the migration and the
two smaller caches is proved on the way and, but for the instances, not run.

## 7. What is left

1. Abstract specifications for the caches: a register whose generation never
   goes back, which `QuoteCache` implements per symbol and `SnapshotCache` does
   only with one producing process.
2. The life cycle of the warm-up threads (start, stop, a start refused while
   the old thread runs), and `clear` of the snapshot cache.
3. The scheduler and the lifespan of `main.py`, which only start threads now.

## 8. Not modelled, and why

Signature verification, JWT and password hashing (cryptography, one Boolean of
the code's control flow), media uploads and official identities, checkout pages, e-mail and provider
transports beyond their outcomes. The indicators of the technical engines and
the tools' own scoring are floating point over price series with nothing to
interleave: the models start from their results. Formatting, wording and
translation. Follows, sentiment votes, mute and the social audit log, which
decide on nothing modelled. Metrics and logs (nothing decides on them), help,
video and legal pages (static), browser tickets (one critical section per
operation in one process). The clients under `apps/`. `worker.py` and the
lifespan of `main.py` are only present as the cycles of the threads they start.
