SPECIFICATION FairSpec
CONSTANTS
    u1 = u1
    u2 = u2
    u3 = u3
    p1 = p1
    p2 = p2
    Users <- ThreeUsers
    Keys <- Addresses
    Ordered <- Ascending
    WalletOf <- OneKeyEach
    Deployers <- OneUser
    Managers <- NoUser
    OwnerChoices <- ThreeOfThree
    Paths <- OnePath
    Flags <- NoFlags
    Redeploy = FALSE
    IntoGiven = FALSE
    Faults = {"reject"}
    MaxIds = 4
CHECK_DEADLOCK FALSE
INVARIANT RecordedChainIsHosted
INVARIANT RetryReusesSubnet
PROPERTY FilesGetCommitted
