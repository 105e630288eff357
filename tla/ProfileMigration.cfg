SPECIFICATION Spec
CONSTANTS
    V1 = V1
    V2 = V2
    Users = {1, 2}
    Vals = {V1, V2}
    Ticks = {0, 1, 2, 3}
    Runs = {r1, r2}
    NoDoc = NoDoc
    Orphan = Orphan
    InitBodies <- Starts
    WriterBodies <- Writes
    MaxWrites = 1
    MaxAttempts = 2
SYMMETRY RunSymmetry
INVARIANTS
    IndInv
    PreflightFirst
    SuccessIsComplete
    CountIsHonest
    ConcurrentChangeIsReal
PROPERTIES
    OnlyLegacyConverted
CHECK_DEADLOCK FALSE
