----------------------------- MODULE Channels -----------------------------
(***************************************************************************)
(* What reaches the users, and the files it goes through: ticker rooms,    *)
(* push and Telegram alerts, news, the books of trades and outcomes, the   *)
(* history of AI alerts, weekly polls, the community, and what an account  *)
(* is given once (the module itself).  Each part is on its own; "part"     *)
(* tells which, and the variables of the others stay Off, or as they were. *)
(***************************************************************************)
EXTENDS AccountLinks, SequencesExt

CONSTANTS
    Off,  \* the value of a variable of a part that is not there
    \* rooms
    Conns, Messages, HostOf, RoomOf, KeyOf, RoomLimit, GlobalLimit, MaxRoomMessages, HistorySize,
    \* push
    PushUsers, Tokens, Tickers, PushCooldown, MaxSignals, PushTime, PushCrashes,
    \* telegram
    Senders, Signals, AlertCooldown, MaxBatch, Retries, AlertTime, AlertCalls,
    \* feed
    Deliveries, FeedLimit, Ticker, Category,
    \* news
    Locales, TTL, Interval, Pause, NewsTime, NewsCalls, NewsAsks, NewsCrashes,
    \* books
    Snapshots, Windows, DedupFor, MaxTrades, MaxSkips, MaxRecords, MaxObservations, BookCycles, BookCrashes,
    \* history
    Writers, Reports, DayLength, MaxRows, HistoryTime,
    \* polls
    Requests, Workers, Proc, Voters, PollSymbols, Events, FirstDay, LastDay, MaxPolls, PollWrites, PollErrors,
    \* community
    Posters, Members, Moderators, Actions, Texts, Threshold, Window, RateLimit, MaxReviewed,
    MaxPosts, PostCalls, PostTime

\* Messages are numbered in the order a process posts them.
ASSUME RoomMessages == Messages \subseteq Nat /\ MaxRoomMessages \in Nat /\ HistorySize \in Nat

\* A snapshot is a sequence of rows, with times and prices.
ASSUME BookSnapshotsAre ==
    /\ Windows \subseteq Nat /\ MaxTrades \in Nat /\ MaxRecords \in Nat
    /\ \A snapshot \in Snapshots : /\ snapshot.rows \in Seq(ToSet(snapshot.rows))
                                   /\ \A row \in ToSet(snapshot.rows) : row.time \in Nat /\ row.price \in Int

\* A delivery is a sequence of stories, each with its age, its labels, its words and
\* how it names the ticker.
ASSUME DeliveredStories ==
    /\ FeedLimit \in Nat
    /\ \A d \in Deliveries : /\ d \in Seq(ToSet(d))
                            /\ \A r \in ToSet(d) : /\ r.age \in Int /\ IsFiniteSet(r.labels) /\ r.words \in SUBSET Nat
                                                  /\ r.match \in {"text", "related", "alias", "none"}

ASSUME PushTiming == PushCooldown \in Nat

\* An event has a name, and the days are in their order.
ASSUME PollEvents == "none" \notin Events /\ FirstDay \in Int /\ LastDay \in Int /\ FirstDay <= LastDay

\* A cooldown of at least a minute.
ASSUME AlertTiming == IsFiniteSet(Signals) /\ MaxBatch \in Nat /\ AlertCooldown \in Nat \ {0}

\* A report is a sequence of rows, with times.
ASSUME HistoryReports ==
    /\ MaxRows \in Nat
    /\ \A batch \in Reports : /\ batch \in Seq(ToSet(batch))
                             /\ \A row \in ToSet(batch) : row.found \in Nat /\ row.seen \in Nat

\* The file keeps the last reviews.
ASSUME ReviewsKept == MaxReviewed \in Nat

VARIABLES
    part,
    clock, crashes, calls, file, edit, call,  \* of more than one part
    conn, rooms, pending, counter, store, audited, post, targets, inbox,  \* rooms
    switch, stamps, cycle, log,                                           \* push
    fingerprints, cooldowns, sender, overdue, arrived, twice,             \* telegram
    raws, feed, page,                                                     \* feed
    version, memory, seen, requests, asks, pause, round, task, early,     \* news
    cycles, at, book,                                                     \* books
    tmp,                                                                  \* history
    day, cache, errors,                                                   \* polls
    posts, comments, likes, reposts, mod                                  \* community

roomVars == <<conn, rooms, pending, counter, store, audited, post, targets, inbox>>
pushVars == <<switch, stamps, cycle, log>>
telegramVars == <<fingerprints, cooldowns, sender, overdue, arrived, twice>>
feedVars == <<raws, feed, page>>
newsVars == <<version, memory, seen, requests, asks, pause, round, task, early>>
bookVars == <<cycles, at, book>>
pollVars == <<day, cache, errors>>
communityVars == <<posts, comments, likes, reposts, mod>>

NoRooms == conn = Off /\ rooms = Off /\ pending = Off /\ counter = Off /\ store = Off /\ audited = Off
           /\ post = Off /\ targets = Off /\ inbox = Off
NoPush == switch = Off /\ stamps = Off /\ cycle = Off /\ log = Off
NoTelegram == fingerprints = Off /\ cooldowns = Off /\ sender = Off /\ overdue = Off /\ arrived = Off /\ twice = Off
NoFeed == raws = Off /\ feed = Off /\ page = Off
NoNews == version = Off /\ memory = Off /\ seen = Off /\ requests = Off /\ asks = Off /\ pause = Off
          /\ round = Off /\ task = Off /\ early = Off
NoBooks == cycles = Off /\ at = Off /\ book = Off
NoHistory == tmp = Off
NoPolls == day = Off /\ cache = Off /\ errors = Off
NoCommunity == posts = Off /\ comments = Off /\ likes = Off /\ reposts = Off /\ mod = Off

---------------------------------------------------------------------------
R == INSTANCE TickerRooms WITH ProcOf <- HostOf

P == INSTANCE PushAlerts WITH
        now <- clock, Users <- PushUsers, Cooldown <- PushCooldown, MaxTime <- PushTime,
        MaxCrashes <- PushCrashes

T == INSTANCE TelegramAlerts WITH
        now <- clock, Cooldown <- AlertCooldown, MaxTime <- AlertTime, MaxCalls <- AlertCalls

N == INSTANCE NewsFeed WITH Limit <- FeedLimit

C == INSTANCE NewsCache WITH
        now <- clock, MaxTime <- NewsTime, MaxCalls <- NewsCalls, MaxAsks <- NewsAsks,
        MaxCrashes <- NewsCrashes

B == INSTANCE TradingBooks WITH MaxCycles <- BookCycles, MaxCrashes <- BookCrashes

H == INSTANCE AlertHistory WITH
        now <- clock, Procs <- Writers, Batches <- Reports, MaxTime <- HistoryTime

W == INSTANCE WeeklyPolls WITH
        Users <- Voters, Symbols <- PollSymbols, MaxWrites <- PollWrites, MaxErrors <- PollErrors

Q == INSTANCE CommunityPosts WITH
        now <- clock, Callers <- Posters, Users <- Members, Limit <- RateLimit, MaxCalls <- PostCalls,
        MaxTime <- PostTime

---------------------------------------------------------------------------
NoShared == clock = Off /\ crashes = Off /\ calls = Off /\ file = Off /\ edit = Off /\ call = Off
PartInit ==
    \/ /\ part = "rooms" /\ R!Init /\ NoShared
       /\ NoPush /\ NoTelegram /\ NoFeed /\ NoNews /\ NoBooks /\ NoHistory /\ NoPolls /\ NoCommunity
    \/ /\ part = "push" /\ P!Init /\ calls = Off /\ call = Off
       /\ NoRooms /\ NoTelegram /\ NoFeed /\ NoNews /\ NoBooks /\ NoHistory /\ NoPolls /\ NoCommunity
    \/ /\ part = "telegram" /\ T!Init /\ crashes = Off /\ file = Off /\ edit = Off /\ call = Off
       /\ NoRooms /\ NoPush /\ NoFeed /\ NoNews /\ NoBooks /\ NoHistory /\ NoPolls /\ NoCommunity
    \/ /\ part = "feed" /\ N!Init /\ NoShared
       /\ NoRooms /\ NoPush /\ NoTelegram /\ NoNews /\ NoBooks /\ NoHistory /\ NoPolls /\ NoCommunity
    \/ /\ part = "news" /\ C!Init /\ call = Off
       /\ NoRooms /\ NoPush /\ NoTelegram /\ NoFeed /\ NoBooks /\ NoHistory /\ NoPolls /\ NoCommunity
    \/ /\ part = "books" /\ B!Init /\ clock = Off /\ calls = Off /\ edit = Off /\ call = Off
       /\ NoRooms /\ NoPush /\ NoTelegram /\ NoFeed /\ NoNews /\ NoHistory /\ NoPolls /\ NoCommunity
    \/ /\ part = "history" /\ H!Init /\ crashes = Off /\ calls = Off /\ edit = Off
       /\ NoRooms /\ NoPush /\ NoTelegram /\ NoFeed /\ NoNews /\ NoBooks /\ NoPolls /\ NoCommunity
    \/ /\ part = "polls" /\ W!Init /\ clock = Off /\ crashes = Off /\ calls = Off /\ edit = Off
       /\ NoRooms /\ NoPush /\ NoTelegram /\ NoFeed /\ NoNews /\ NoBooks /\ NoHistory /\ NoCommunity
    \/ /\ part = "community" /\ Q!Init /\ crashes = Off /\ file = Off /\ edit = Off
       /\ NoRooms /\ NoPush /\ NoTelegram /\ NoFeed /\ NoNews /\ NoBooks /\ NoHistory /\ NoPolls
    \/ /\ part = "links" /\ NoShared
       /\ NoRooms /\ NoPush /\ NoTelegram /\ NoFeed /\ NoNews /\ NoBooks /\ NoHistory /\ NoPolls /\ NoCommunity

Shared == <<clock, crashes, calls, file, edit, call>>
RoomsMove == /\ part = "rooms" /\ R!Next
             /\ UNCHANGED <<part, Shared, pushVars, telegramVars, feedVars, newsVars, bookVars, tmp, pollVars, communityVars, vars>>
PushMoves == /\ part = "push" /\ P!Next
             /\ UNCHANGED <<part, calls, call, roomVars, telegramVars, feedVars, newsVars, bookVars, tmp, pollVars, communityVars, vars>>
TelegramMoves == /\ part = "telegram" /\ T!Next
                 /\ UNCHANGED <<part, crashes, file, edit, call, roomVars, pushVars, feedVars, newsVars, bookVars, tmp, pollVars,
                                communityVars, vars>>
FeedMoves == /\ part = "feed" /\ N!Next
             /\ UNCHANGED <<part, Shared, roomVars, pushVars, telegramVars, newsVars, bookVars, tmp, pollVars, communityVars, vars>>
NewsMoves == /\ part = "news" /\ C!Next
             /\ UNCHANGED <<part, call, roomVars, pushVars, telegramVars, feedVars, bookVars, tmp, pollVars, communityVars, vars>>
BooksMove == /\ part = "books" /\ B!Next
             /\ UNCHANGED <<part, clock, calls, edit, call, roomVars, pushVars, telegramVars, feedVars, newsVars, tmp, pollVars,
                            communityVars, vars>>
HistoryMoves == /\ part = "history" /\ H!Next
                /\ UNCHANGED <<part, crashes, calls, edit, roomVars, pushVars, telegramVars, feedVars, newsVars, bookVars,
                               pollVars, communityVars, vars>>
PollsMove == /\ part = "polls" /\ W!Next
             /\ UNCHANGED <<part, clock, crashes, calls, edit, roomVars, pushVars, telegramVars, feedVars, newsVars, bookVars,
                            tmp, communityVars, vars>>
CommunityMoves == /\ part = "community" /\ Q!Next
                  /\ UNCHANGED <<part, crashes, file, edit, roomVars, pushVars, telegramVars, feedVars, newsVars, bookVars,
                                 tmp, pollVars, vars>>
LinksMove == /\ part = "links" /\ Next
             /\ UNCHANGED <<part, Shared, roomVars, pushVars, telegramVars, feedVars, newsVars, bookVars, tmp, pollVars,
                            communityVars>>

ChannelsNext == RoomsMove \/ PushMoves \/ TelegramMoves \/ FeedMoves \/ NewsMoves \/ BooksMove \/ HistoryMoves \/ PollsMove
        \/ CommunityMoves \/ LinksMove
all == <<part, Shared, roomVars, pushVars, telegramVars, feedVars, newsVars, bookVars, tmp, pollVars, communityVars, vars>>
ChannelsInit == Init /\ PartInit
ChannelsSpec == ChannelsInit /\ [][ChannelsNext]_all

---------------------------------------------------------------------------
\* Whenever a connection joined, history and broadcasts leave no gap between them
\* (websocket_chat, list_room_messages).
NoGapInTheRoom == part = "rooms" => R!NoGapInTheRoom

\* A device gets two alerts of a ticker a cooldown apart, whatever became of the
\* other devices, unless the stamp of the first was lost (dispatch_signal_pushes).
OneAlertPerCooldown == part = "push" => P!OneAlertPerCooldown

\* Two threads send the same alert at the same time only while a request of it has
\* outlasted the cooldown (_dispatch_prepared_alert).
OneSenderPerAlert == part = "telegram" => T!OneSenderPerAlert

\* No two useful cards of a feed tell the same story (_cluster_news).
OneCardPerStory == part = "feed" => N!OneCardPerStory

\* Every locale keeps its newest entry in the file, whoever writes it late
\* (_persist_news_cache).
FileMovesForward == [][part = "news" => C!MovesForward]_all

\* A symbol has one open position, its trades are the last it closed, and the
\* windows of a signal are filled in their order (_process_row, _close_position,
\* _update_record_from_future_snapshot).
BooksBalance == part = "books" => B!BooksBalance

\* The alerts a page shows are of the day, and those called active of one call,
\* unless they are of a file that two processes wrote at once
\* (persist_ai_alert_history).
AlertsOfTheDay == part = "history" => H!AlertsOfTheDay

\* A write loses no vote on a poll it keeps, unless its process was misled about
\* the file (_mutate_store).
VotesAreKept == [][part = "polls" => W!VoteKept]_all

\* The feed and the page of a post agree on what is hidden, and reports do not
\* undo what a moderator decided (get_hidden_post_ids, is_post_hidden, report).
ModerationStands == [][part = "community" => (Q!FeedAgreesWithPage)' /\ Q!ReviewStands]_all
===========================================================================
