SPECIFICATION FairSpec
CONSTANTS
    c1 = c1
    n1 = n1
    n2 = n2
    default = default
    s1 = s1
    Slots <- OneSlot
    Names <- TwoNames
    Snapshots <- DefaultOnly
    Default = default
    NumSubnets = 2
    Faults = {"rpc", "version", "config", "kill"}
    MaxChains = 4
INVARIANT SidecarsAgree
INVARIANT InstallFindsNoPlugin
PROPERTY RecordedChainsSurvive
 
