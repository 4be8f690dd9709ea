SPECIFICATION Spec
CONSTANTS
    ue1 = ue1
    wired1 = wired1
    null = null
    Nodes <- MCNodes
    NoNode = null
    UeNodes <- MCUeNodes
    EnbNodes <- MCEnbNodes
    Configs <- MCConfigs
    MaxId = 3
    MaxRounds = 2
    Horizon = 6
INVARIANTS
    TypeOK
    IdsOwned
    InactiveForgetsId
    OneIdPerNode
    InactivityBound
PROPERTIES
    StableId
