SPECIFICATION Spec
CONSTANTS
    null = null
    unknown = unknown
    Ues <- TwoUes
    Cells <- MCCells
    Places <- TwoPlaces
    Distance <- MCDistance
    Unknown = unknown
    NoNode = null
    Configs <- TorchConfigs
    MaxReports = 1
INVARIANTS
    TargetIsServing
