SPECIFICATION Spec
CONSTANTS
    Terminals <- MCTerminals
    Makers = {"t1"}
    Networks = {"testnet"}
    Published = "testnet"
    Public = {"testnet"}
    Precompiles = {"txAllowList", "nativeMint"}
    Addresses = {"a1", "a2"}
    Airdrops <- MCAirdrops
    Word = 2
    Rpcs = {1, 2}
    Faults = {"crash", "torn", "fail"}
    MaxIds = 2
INVARIANTS
    TypeOK
    AdminsFunded
    ConfigIsWhole
PROPERTIES
    UpdateKeeps
CHECK_DEADLOCK FALSE
