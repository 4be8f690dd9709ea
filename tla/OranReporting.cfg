SPECIFICATION FairSpec
CONSTANTS
    Reporters <- TwoReporters
    Configs <- MCConfigs
INVARIANTS
    TypeOK
    EachReportOnce
    TriggerChains
    AbortOnlyAfterDeactivation
    
PROPERTIES
    StoredIsSent
