SPECIFICATION Spec
CONSTANTS
    dflt = dflt
    lm1 = lm1
    lm2 = lm2
    LMs <- MCLMs
    InitDefaultLm = dflt
    InitAdditional <- MCAdditional
    Configs <- OverlapConfigs
    Horizon = 6
    MaxQueries = 3
PROPERTIES
    ProcessOnlyWhenAllReturned
