SPECIFICATION FairSpec
CONSTANTS
    Terminals = {t1, t2}
    Names = {alice, bob}
    Keys = {k1, k2}
    First = k1
    Owner = alice
    Funds = 12
    Amounts = {1, 3}
    Fee = 1
    Faults = {"crash", "reject", "timeout"}
    MaxSends = 2
    MaxKeyOps = 2
    MaxFaults = 3
INVARIANTS
    TypeOK
    DoneMeansDelivered
PROPERTIES
    Arrives
CHECK_DEADLOCK FALSE
