SPECIFICATION Spec
CONSTANTS
    U1 = U1
    F1 = F1
    F2 = F2
    V0 = V0
    V1 = V1
    Users = {U1}
    Fields = {F1, F2}
    Vals = {V0, V1}
    MaxTime = 2
    NoDoc = NoDoc
    Foreign = Foreign
    Requests = {r1, r2}
    Calls <- CreateOrGet
    NoCall = NoCall
    InitDocs <- EmptyStart
    NoTx = NoTx
    MaxAttempts = 1
    BeginErrors = {"transient", "backend", "missing"}
SYMMETRY RequestSymmetry
INVARIANTS
    CreateStatusDocumented
CHECK_DEADLOCK FALSE
