SPECIFICATION Spec
CONSTANTS
    u1 = u1
    u2 = u2
    a = a
    b = b
    p1 = p1
    p2 = p2
    None = None
    Procs = {p1, p2}
    Users = {u1}
    Emails = {a}
    Channels = {web, app}
    Ips = {}
    Reqs = {r1, r2}
    Managed = {u1}
    MaxAttempts = 2
    MaxPerEmail = 9
    MaxPerIp = 9
    Window = 1
    Cooldown = 0
    CodeLife = 0
    SessionLife = 0
    MaxChallenges = 2
    MaxSessions = 2
    MaxLedger = 1
    MaxTries = 3
    MaxTime = 0
    Proc <- OneProc
    Home <- HomeNone
INVARIANTS SessionsAreEarned AttemptsBounded
PROPERTIES SessionsFollowPolicy
SYMMETRY Symmetry
CHECK_DEADLOCK FALSE
