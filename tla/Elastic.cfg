SPECIFICATION FairSpec
CONSTANTS
    n1 = n1
    n2 = n2
    Networks = {"local", "testnet"}
    Nodes <- MCNodes
    Configs <- MCConfigs
    GivenStakes = {}
    Periods = {1, 2}
    FixedPeriod = 2
    Faults = {"crash", "reject", "timeout"}
    MaxSubs = 2
    MaxAssets = 2
INVARIANTS
    TypeOK
    SkippedIsDone
    
PROPERTIES
    ElasticKeepsOne
    
CHECK_DEADLOCK FALSE
