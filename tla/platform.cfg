SPECIFICATION PlatformSpec
CONSTANTS
    Symbols = {"IBOV", "WIN"}
    Procs = {"web"}
    Warmers = {"warmup", "request"}
    Proc <- OneWriter
    Chunks <- WarmerChunks
    Reference <- MiniFuture
    Ttl = 1
    Cooldown = 2
    Fresh = 2
    Retention = 3
    MaxTime = 3
    MaxRuns = 1
    Charts = {"petr", "vale"}
    Defaults = {"petr"}
    Threads = {"request", "again", "cycle", "strip"}
    Crews <- CycleBesideRequests
    ChartProc <- ChartHome
    ChartKind <- ChartDuty
    ChartTtl = 0
    ChartRetention = 1
    ChartRest = 1
    MaxCharts = 1
    MaxResident = 1
    MaxCalls = 1
    Apis = {"api"}
    Workers = {"ai"}
    Tables = {"users", "sessions", "events"}
    ColumnPatches = {"role", "expires"}
    IndexPatches = {"event"}
    Rules = {"policy"}
    TableOf <- TableOfItem
    References <- UsersFirst
    TablePatches = {"sessions", "events"}
    Plan <- FiveLooks
    MaxFails = 1
    Operators = {"ana", "bia"}
    Hooks = {"first", "second"}
    StripeEvents = {"paid"}
    MaxRunsOfScript = 2
    Engines = {"engine"}
    Clients = {"stream", "page"}
    Keepers = {"keeper"}
    SignalProc <- SignalHome
    MaxBatches = 2
    MaxClears = 1
    MaxWrites = 2
    Askers = {"engine", "ranking"}
    BatchSymbols = {"PETR", "VALE"}
    BatchLimit = 1
    BatchTtl = 1
    BatchCooldown = 1
    BatchHours = 2
INVARIANTS RestLosesNoQuote StartedIsComplete AppliedIsEnforced KnownIsServed AnswersAreWhole
PROPERTIES QuotesMoveForward RequestedUntilWarm
CHECK_DEADLOCK FALSE
