SPECIFICATION ChannelsSpec
CONSTANTS
    Off = Off
    c1 = c1
    c2 = c2
    c3 = c3
    \* links
    Users = {"u", "v"}
    Chats = {"x", "y"}
    Promos = {"k"}
    Clients = {"c", "d"}
    MaxUses <- OneUse
    TokenLife = 0
    NoChat = NoChat
    MaxTokens = 1
    MaxTime = 1
    \* rooms
    Conns <- ThreeConns
    Messages <- ThreeMessages
    HostOf <- SecondElsewhere
    RoomOf <- OneRoom
    KeyOf <- TwoOfOneUser
    RoomLimit = 2
    GlobalLimit = 3
    MaxRoomMessages = 2
    HistorySize = 1
    \* push
    PushUsers = {"u"}
    Tokens = {"t1", "t2"}
    Tickers = {"s"}
    PushCooldown = 2
    MaxSignals = 1
    PushTime = 4
    PushCrashes = 1
    \* telegram
    Senders = {"p", "q"}
    Signals <- AlertSignals
    AlertCooldown = 2
    MaxBatch = 2
    Retries = 1
    AlertTime = 3
    AlertCalls = 3
    \* feed
    Deliveries <- StoryDeliveries
    FeedLimit = 2
    Ticker = "T"
    Category = "Stock"
    \* news
    Locales = {"pt", "en"}
    TTL = 1
    Interval = 1
    Pause = 1
    NewsTime = 2
    NewsCalls = 2
    NewsAsks = 1
    NewsCrashes = 1
    \* books
    Snapshots <- BookSnapshots
    Windows = {1, 3}
    DedupFor = 4
    MaxTrades = 1
    MaxSkips = 1
    MaxRecords = 2
    MaxObservations = 2
    BookCycles = 3
    BookCrashes = 1
    \* history
    Writers = {"ai", "web"}
    Reports <- AlertBatches
    DayLength = 2
    MaxRows = 2
    HistoryTime = 4
    \* polls, Thursday to Sunday: the week ends in between
    Requests = {"r"}
    Workers = {"w"}
    Proc <- RequestAndWorker
    Voters = {"u"}
    PollSymbols = {1}
    Events = {"earn"}
    FirstDay = 4
    LastDay = 7
    MaxPolls = 1
    PollWrites = 2
    PollErrors = 1
    \* community
    Posters = {"c", "d"}
    Members = {"u"}
    Moderators = {}
    Actions = {"hide", "Hide", "keep"}
    Texts = {{}, {"betting"}}
    Threshold = 2
    Window = 0
    RateLimit = 1
    MaxReviewed = 1
    MaxPosts = 2
    PostCalls = 4
    PostTime = 1
INVARIANTS
    NoGapInTheRoom
    OneAlertPerCooldown
    OneSenderPerAlert
    OneCardPerStory
    BooksBalance
    AlertsOfTheDay
    PromoUsesAreCounted
PROPERTIES
    FileMovesForward
    VotesAreKept
    ModerationStands
CHECK_DEADLOCK FALSE
