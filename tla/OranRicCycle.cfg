SPECIFICATION Spec
CONSTANTS
    dflt = dflt
    lm1 = lm1
    lm2 = lm2
    LMs <- MCLMs
    InitDefaultLm = dflt
    InitAdditional <- MCAdditional
    Configs <- MCConfigs
    Horizon = 5
    MaxQueries = 3
INVARIANTS
    TypeOK
    NoResend
    UnexpectedCycleOnlyIfDetached
    HoldBound
    FreshCollection
    OneResultPerLm
PROPERTIES
    CompleteDispatch
