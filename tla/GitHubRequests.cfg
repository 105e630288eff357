SPECIFICATION FairSpec
CONSTANTS
    N1 = N1
    N2 = N2
    I1 = I1
    I2 = I2
    V1 = V1
    V2 = V2
    VLong = VLong
    Ops = {"owner", "repos", "tags", "activity"}
    Names = {N1, N2}
    Ids = {I1, I2}
    Limits = {1}
    MaxPage = 5
    Values = {V1, V2, VLong}
    TooLong = {VLong}
    MaxRedirects = 3
    MaxBody = 3
    Chunks = {0, 1, 2, 4}
    Own = Own
    Other = Other
    NoCursor = NoCursor
    Garbled = Garbled
    NoParam = NoParam
    Unreadable = Unreadable
    NoUrl = NoUrl
INVARIANTS
    IndInv
    RedirectsKept
PROPERTIES
    NoPageTwice
    EventuallyAnswered
