SPECIFICATION Spec
CONSTANTS
    None = None
    sort = sort
    limit = limit
    Intent = intent
    Result = result
    Ops <- OneOp
    Supported <- NoPairs
    SqlOps = {limit}
    Sqls = {s0, s1}
    Gold = s0
    Templates = {"gold"}
    Runs = {r1}
    Threads = {t1, t2}
    Objs = {o1, o2, o3}
    Serial = FALSE
    MaxEdits = 1
    MaxGenerates = 1
    MaxRestarts = 0
    MaxResets = 1
    DbMayFail = FALSE
SYMMETRY Symmetry
INVARIANTS
    FreshInStore
    DoneHasResult
