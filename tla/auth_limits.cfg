SPECIFICATION Spec
CONSTANTS
    u1 = u1
    u2 = u2
    a = a
    b = b
    p1 = p1
    p2 = p2
    None = None
    Procs = {p1, p2}
    Users = {u1}
    Emails = {a, b}
    Channels = {web}
    Ips = {ip1}
    Reqs = {r1, r2}
    Managed = {}
    MaxAttempts = 3
    MaxPerEmail = 2
    MaxPerIp = 2
    Window = 4
    Cooldown = 1
    CodeLife = 0
    SessionLife = 0
    MaxChallenges = 1
    MaxSessions = 1
    MaxLedger = 3
    MaxTries = 0
    MaxTime = 4
    Proc <- OneProc
    Home <- HomeNone
INVARIANTS SendsLimited
SYMMETRY Symmetry
CHECK_DEADLOCK FALSE
