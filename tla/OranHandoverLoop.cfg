SPECIFICATION FairSpec
CONSTANTS
    null = null
    unknown = unknown
    Ues <- TwoUes
    Cells <- MCCells
    Places <- TwoPlaces
    Distance <- MCDistance
    Unknown = unknown
    NoNode = null
    Configs <- MCConfigs
    MaxReports = 1
INVARIANTS
    TypeOK
    RightUe
    NoSecondHandover
PROPERTIES
    DefaultLmPrecedes
    EventuallyClosest
    LoopUsesService
