SPECIFICATION Spec
CONSTANTS
    Tools = Tools
    Power = Power
    Size = 6
    Categories = {Tools, Power}
    CategoryOf <- MCCategoryOf
    Limits = {1, 2, 4}
    DefaultLimit = 2
    NoLimit = NoLimit
    All = All
    Unknown = 0
    NoCursor = NoCursor
    Garbled = Garbled
    NoLink = NoLink
INVARIANTS
    IndInv
    WalkReadsOnce
PROPERTIES
    BackRetraces
    LinksAdjoin
