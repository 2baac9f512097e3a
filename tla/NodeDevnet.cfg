SPECIFICATION Spec
CONSTANTS
    t1 = t1
    t2 = t2
    c1 = c1
    i1 = i1
    i2 = i2
    i3 = i3
    i4 = i4
    None = None
    Terminals <- OneTerminal
    Typed <- AnyCommand
    Clusters <- OneCluster
    Instances <- TwoInstances
    Plans <- OneNode
    Options <- AnyOfAws
    Faults = {}
CHECK_DEADLOCK FALSE
PROPERTY StopLeavesNothingRunning
