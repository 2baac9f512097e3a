SPECIFICATION Spec
CONSTANTS
    c1 = c1
    n1 = n1
    n2 = n2
    default = default
    s1 = s1
    Slots <- OneSlot
    Names <- TwoNames
    Snapshots <- WithCustom
    Default = default
    NumSubnets = 2
    Faults = {}
    MaxChains = 4
INVARIANT IncrementalSubnets
PROPERTY KeepsReadmePromise
PROPERTY StopSavesState
SYMMETRY Symmetry
