SPECIFICATION Spec
CONSTANTS
    N1 = N1
    N2 = N2
    I1 = I1
    I2 = I2
    V1 = V1
    V2 = V2
    VLong = VLong
    Ops = {"repos", "activity"}
    Names = {N1}
    Ids = {I1}
    Limits = {1}
    MaxPage = 3
    Values = {V1, V2}
    TooLong = {}
    MaxRedirects = 3
    MaxBody = 2
    Chunks = {0, 1}
    Own = Own
    Other = Other
    NoCursor = NoCursor
    Garbled = Garbled
    NoParam = NoParam
    Unreadable = Unreadable
    NoUrl = NoUrl
INVARIANTS
    UpstreamCursorIs422
