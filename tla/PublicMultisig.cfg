SPECIFICATION Spec
CONSTANTS
    u1 = u1
    u2 = u2
    u3 = u3
    p1 = p1
    p2 = p2
    Users <- TwoUsers
    Keys <- Addresses
    Ordered <- Ascending
    WalletOf <- TwoKeysFirst
    Deployers <- OneUser
    Managers <- OtherUser
    OwnerChoices <- TwoOrOneOfThree
    Paths <- TwoPaths
    Flags <- FlagsDistinct
    Redeploy = TRUE
    IntoGiven = TRUE
    Faults = {"crash", "query", "reject", "timeout", "disk"}
    MaxIds = 4
CHECK_DEADLOCK FALSE
INVARIANT TypeOK
INVARIANT SignersAreChosen
INVARIANT AcceptedAreSigned
SYMMETRY Symmetry
