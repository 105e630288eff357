\* A leeway of one second and a deadline of one: every claim time lies before,
\* at or past each of the bounds at some clock, two changes of the account or
\* the key fit around a call, and a call may begin within and after each of the
\* windows in which the cached keys lag the published ones.
CONSTANTS
    Missing = Missing
    Tokens <- MCTokens
    Keys = {"k1", "broken"}
    UsableKeys = {"k1"}
    Leeway = 1
    Deadline = 1
    MaxTTL = 1
    Cooldown = 0
    MaxTime = 4
    MaxChanges = 2
SPECIFICATION FairSpec
CHECK_DEADLOCK FALSE
INVARIANTS
    IndInv
    AcceptedWasValid
    RefusedForCause
PROPERTY
    EventuallyVerdict
