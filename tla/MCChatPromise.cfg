SPECIFICATION Spec
CONSTANTS
    None = None
    bird = bird
    spider = spider
    media = media
    Datasets = {bird, spider}
    DbTypes <- SqliteTypes
    Sqls = {s1, s2}
    Llm = TRUE
    Sessions = {c1}
    Questions = {q1, q2, q3, q4}
    Asked = {"free"}
    Scopes <- Named
    Overlap = FALSE
    DbMayFail = FALSE
    MaxCalls = 1
SYMMETRY Symmetry
CHECK_DEADLOCK FALSE
INVARIANTS
    SomePromiseKept
