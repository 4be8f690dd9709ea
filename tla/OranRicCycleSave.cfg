SPECIFICATION Spec
CONSTANTS
    dflt = dflt
    lm1 = lm1
    lm2 = lm2
    LMs <- MCLMs
    InitDefaultLm = dflt
    InitAdditional <- MCAdditional
    Configs <- SaveConfigs
    Horizon = 7
    MaxQueries = 3
PROPERTIES
    SavedCommandsAreSent
