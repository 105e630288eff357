SPECIFICATION Spec
CONSTANTS
    U1 = U1
    F1 = F1
    F2 = F2
    V0 = V0
    V1 = V1
    Users = {U1}
    Fields = {F1, F2}
    Vals = {V0, V1}
    MaxTime = 2
    NoDoc = NoDoc
    Foreign = Foreign
    Requests = {r1, r2}
    Calls <- CallsOneUser
    NoCall = NoCall
    InitDocs <- AnyStart
    NoTx = NoTx
    MaxAttempts = 2
    BeginErrors = {"transient", "backend"}
SYMMETRY RequestSymmetry
INVARIANTS
    IndInv
    DefiniteAnswersAreFinal
    AtMostOnce
    InitializerAlive
PROPERTIES
    DocumentsEvolve
CHECK_DEADLOCK FALSE
