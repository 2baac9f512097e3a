SPECIFICATION Spec
CONSTANTS
    Precompiles <- MCPrecompiles
    WithAdmins = {"txAllowList"}
    MaxTime = 1
    Imports <- MCImports
    Versions = {1, 2}
    Created = 1
    Latest = 2
    Rpc <- MCRpc
    Faults = {"crash", "fail", "timeout"}
    MaxChains = 2
    MaxVmOps = 1
INVARIANTS
    TypeOK
    ActivatedStay
    ChainSurvives
    RecordedRpc
    TrackedHasVM
CHECK_DEADLOCK FALSE
