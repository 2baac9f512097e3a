SPECIFICATION Spec
CONSTANTS
    u1 = u1
    u2 = u2
    u3 = u3
    p1 = p1
    p2 = p2
    Users <- TwoUsers
    Keys <- Addresses
    Ordered <- Ascending
    WalletOf <- TwoKeysFirst
    Deployers <- TwoUsers
    Managers <- TwoUsers
    OwnerChoices <- OneOfThree
    Paths <- OnePath
    Flags <- NoFlags
    Redeploy = FALSE
    IntoGiven = FALSE
    Faults = {}
    MaxIds = 5
CHECK_DEADLOCK FALSE
INVARIANT AuthCanBeChosen
