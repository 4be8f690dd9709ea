SPECIFICATION FairSpec
CONSTANTS
    null = null
    unknown = unknown
    Ues <- TwoUes
    Cells <- MCCells
    Places <- TwoPlaces
    Distance <- MCDistance
    Unknown = unknown
    NoNode = null
    Configs <- RefusedConfigs
    MaxReports = 1
PROPERTIES
    RefusedIsRetried
