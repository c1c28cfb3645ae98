SPECIFICATION FairSpec
CONSTANTS
    None = None
    sort = sort
    limit = limit
    Intent = intent
    Result = result
    Ops <- TwoOps
    Supported <- SortLimit
    SqlOps = {limit}
    Sqls = {s0}
    Gold = s0
    Templates = {"gold"}
    Runs = {r1}
    Threads = {t1, t2}
    Objs = {o1, o2, o3}
    Serial = TRUE
    MaxEdits = 2
    MaxGenerates = 0
    MaxRestarts = 1
    MaxResets = 1
    DbMayFail = FALSE
INVARIANTS
    TypeOK
    RunIsWalk
    DurableProgress
PROPERTIES
    StepByStep
    EmptySqlStays
    RunIsCounter
    FullRunEnds
