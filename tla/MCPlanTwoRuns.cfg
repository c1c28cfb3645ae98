SPECIFICATION Spec
CONSTANTS
    None = None
    sort = sort
    limit = limit
    Intent = intent
    Result = result
    Ops <- OneOp
    Supported <- NoPairs
    SqlOps = {}
    Sqls = {s0}
    Gold = s0
    Templates = {"gold"}
    Runs = {r1, r2}
    Threads = {t1, t2}
    Objs = {o1, o2, o3, o4}
    Serial = TRUE
    MaxEdits = 1
    MaxGenerates = 0
    MaxRestarts = 1
    MaxResets = 0
    DbMayFail = FALSE
SYMMETRY Symmetry
INVARIANTS
    GraphShowsRun
