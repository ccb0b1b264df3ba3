SPECIFICATION Spec
CONSTANTS
    None = None
    u1 = u1  u2 = u2  u3 = u3
    s1 = s1  s2 = s2  s3 = s3
    c1 = c1  c2 = c2  c3 = c3
    h1 = h1  h2 = h2
    p1 = p1  p2 = p2
    Users = {u1}
    Subs = {s1}
    Custs = {c1}
    Hooks = {h1, h2}
    Procs = {p1, p2}
    Workers = {}
    Reqs = {r1}
    Managed = {u1}
    Code <- NoCodes
    Proc <- TwoProcs
    Purchases <- OneBuyer
    TrialDays = 1  MonthDays = 1  AnnualDays = 2
    ValidAfter = 1  RewardEvery = 1  RewardDays = 1
    UniqueIndex = TRUE
    Expanded = {FALSE}
    Sound = {TRUE}
    MaxEvents = 2  MaxAudit = 3  MaxDay = 1
PROPERTIES
    AccessIsBought
CHECK_DEADLOCK FALSE
