SPECIFICATION Spec
CONSTANTS
    None = None
    sort = sort
    limit = limit
    Intent = intent
    Result = result
    Ops <- TwoOps
    Supported <- SortLimit
    SqlOps = {limit}
    Sqls = {s0, s1}
    Gold = s0
    Templates = {"gold"}
    Runs = {r1}
    Threads = {t1, t2}
    Objs = {o1, o2, o3}
    Serial = TRUE
    MaxEdits = 3
    MaxGenerates = 0
    MaxRestarts = 0
    MaxResets = 1
    DbMayFail = FALSE
SYMMETRY Symmetry
PROPERTIES
    ReexecuteUsesStoredSql
