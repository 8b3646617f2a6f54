SPECIFICATION FairSpec
CONSTANTS
    u1 = u1
    u2 = u2
    Admin = admin
    Treasury = treasury
    Pool = pool
    Users <- MCUsers
    Funds <- QueueFunds
    FeeRates = {0}
    Caps = {5}
    Multiplier = 4
    ProcessLimit = 1
    MinDLPBalance = 1
    Amounts <- QueueAmounts
    Harvests = {0}
    MaxQueue = 2
    MaxShares = 4
    MaxBoost = 1
INVARIANTS
    TypeOK
    QueueAccounting
    ClaimsPayable
PROPERTIES
    OnlySweepBreaksBacking
    PaymentsMatchEntries
    QueueIsTicketed
    

