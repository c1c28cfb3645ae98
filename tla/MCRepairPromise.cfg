\* A stepwise run, a failed execution, an edit, a refused execution, two cases.
SPECIFICATION Spec
CONSTANTS
    None = None
    p = p
    Users = {u}
    Plans = {p}
    Clients = {c}
    GoldPlans <- GoldP
    Serial = TRUE
    DbMayFail = FALSE
    MaxRecords = 6
    MaxCases = 2
INVARIANT SomePromiseKept
