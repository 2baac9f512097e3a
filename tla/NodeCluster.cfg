SPECIFICATION Spec
CONSTANTS
    t1 = t1
    t2 = t2
    c1 = c1
    i1 = i1
    i2 = i2
    i3 = i3
    i4 = i4
    None = None
    Terminals <- TwoTerminals
    Typed <- StopBesideOthers
    Clusters <- OneCluster
    Instances <- ThreeInstances
    Plans <- OneOrTwoRegions
    Options <- BothServices
    Faults = {"crash", "rent", "api", "credentials", "release", "console", "disk", "ssh"}
SYMMETRY Symmetry
CHECK_DEADLOCK FALSE
INVARIANT TypeOK
INVARIANT ListedCanBeStopped
INVARIANT CreateRecordsEverything
PROPERTY DirGoneOnlyWhenReleased
PROPERTY RemovedOnlyWhenStopped
