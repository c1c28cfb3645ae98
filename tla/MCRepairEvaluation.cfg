\* Two users and a gold plan: a failed run, an edit, a run, and a case on them.
SPECIFICATION Spec
CONSTANTS
    None = None
    p = p
    Users = {u, v}
    Plans = {p}
    Clients = {c}
    GoldPlans <- GoldP
    Serial = TRUE
    DbMayFail = FALSE
    MaxRecords = 5
    MaxCases = 1
SYMMETRY Symmetry
INVARIANTS
    TypeOK
    PickedIsRecovery
    EditCameFirst
    UnavailableNotZero
    RepairIsFound
    EvaluationAddsUp
