SPECIFICATION FairSpec
CONSTANTS
    U1 = U1
    F1 = F1
    F2 = F2
    V0 = V0
    V1 = V1
    Users = {U1}
    Fields = {F1}
    Vals = {V0, V1}
    MaxTime = 1
    NoDoc = NoDoc
    Foreign = Foreign
    Requests = {r1, r2}
    Calls <- CallsOneUser
    NoCall = NoCall
    InitDocs <- OldStart
    NoTx = NoTx
    MaxAttempts = 2
    BeginErrors = {"transient", "backend"}
PROPERTIES
    ContractSpec
    EventuallyAnswered
CHECK_DEADLOCK FALSE
