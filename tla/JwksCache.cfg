SPECIFICATION Spec
CONSTANTS
    Requests = {r1, r2}
    Keys = {k1, k2}
    NoKey = NoKey
    NoRequest = NoRequest
    NoCache = NoCache
    Rotating = {k1}
    TTLs = {0, 2}
    MaxTTL = 2
    Cooldown = 1
    Timeout = 1
    MaxClock = 4
SYMMETRY RequestSymmetry
INVARIANTS
    IndInv
    WithdrawnKeysRefused
    PublishedKeysAccepted
PROPERTIES
    FetchesAreNeeded
    NoStaleFailure
CHECK_DEADLOCK FALSE
