SPECIFICATION Spec
CONSTANTS
    None = None
    u1 = u1  u2 = u2  u3 = u3
    s1 = s1  s2 = s2  s3 = s3
    c1 = c1  c2 = c2  c3 = c3
    h1 = h1  h2 = h2
    p1 = p1  p2 = p2
    Users = {u1, u2, u3}
    Subs = {s1, s2, s3}
    Custs = {c1, c2, c3}
    Hooks = {h1}
    Procs = {p1}
    Workers = {w1}
    Reqs = {}
    Managed = {}
    Code <- CodeOfU1
    Proc <- OneProc
    Purchases <- EachTheirOwn
    TrialDays = 1  MonthDays = 2  AnnualDays = 3
    ValidAfter = 1  RewardEvery = 1  RewardDays = 1
    UniqueIndex = FALSE
    Expanded = {FALSE}
    Sound = {TRUE}
    MaxEvents = 3  MaxAudit = 3  MaxDay = 2
INVARIANTS
    EntitlementBounded
    RewardOnce
CHECK_DEADLOCK FALSE
