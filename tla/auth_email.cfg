SPECIFICATION Spec
CONSTANTS
    u1 = u1
    u2 = u2
    a = a
    b = b
    p1 = p1
    p2 = p2
    None = None
    Procs = {p1, p2}
    Users = {u1, u2}
    Emails = {a, b, c}
    Channels = {web}
    Ips = {}
    Reqs = {r1, r2}
    Managed = {}
    MaxAttempts = 1
    MaxPerEmail = 9
    MaxPerIp = 9
    Window = 1
    Cooldown = 0
    CodeLife = 0
    SessionLife = 0
    MaxChallenges = 2
    MaxSessions = 2
    MaxLedger = 1
    MaxTries = 1
    MaxTime = 0
    Proc <- OneProc
    Home <- HomeNone
PROPERTIES EmailChangeIsProven
SYMMETRY Newcomers
CHECK_DEADLOCK FALSE
