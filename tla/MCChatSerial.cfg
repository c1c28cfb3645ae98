SPECIFICATION Spec
CONSTANTS
    None = None
    bird = bird
    spider = spider
    media = media
    Datasets = {bird, media}
    DbTypes <- SqliteTypes
    Sqls = {s1}
    Llm = FALSE
    Sessions = {c1}
    Questions = {q1, q2, q3, q4}
    Asked = {"schema", "free"}
    Scopes <- Named
    Overlap = FALSE
    DbMayFail = TRUE
    MaxCalls = 1
SYMMETRY Symmetry
CHECK_DEADLOCK FALSE
INVARIANTS
    TypeOK
    StateIsLatestQuery
    RevisionOfAnswer
