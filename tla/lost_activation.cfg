SPECIFICATION Spec
CONSTANTS
    None = None
    u1 = u1  u2 = u2  u3 = u3
    s1 = s1  s2 = s2  s3 = s3
    c1 = c1  c2 = c2  c3 = c3
    h1 = h1  h2 = h2
    p1 = p1  p2 = p2
    Users = {u1}
    Subs = {s1}
    Custs = {c1}
    Hooks = {h1}
    Procs = {p1}
    Workers = {}
    Reqs = {r1}
    Managed = {}
    Code <- NoCodes
    Proc <- OneProc
    Purchases <- OneBuyer
    TrialDays = 1  MonthDays = 1  AnnualDays = 2
    ValidAfter = 1  RewardEvery = 1  RewardDays = 1
    UniqueIndex = FALSE
    Expanded = {FALSE}
    Sound = {TRUE}
    MaxEvents = 1  MaxAudit = 2  MaxDay = 2
INVARIANT
    PaidUserIsPremium
CHECK_DEADLOCK FALSE
