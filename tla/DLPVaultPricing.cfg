SPECIFICATION Spec
CONSTANTS
    u1 = u1
    u2 = u2
    Admin = admin
    Treasury = treasury
    Pool = pool
    Users <- PricingUsers
    Funds <- PricingFunds
    FeeRates = {1}
    Caps = {6}
    Multiplier = 4
    ProcessLimit = 1
    MinDLPBalance = 2
    Amounts <- PricingAmounts
    Harvests = {0, 1}
    MaxQueue = 1
    MaxShares = 6
    MaxBoost = 0
INVARIANT SharesAddUp
PROPERTY SharePriceNeverFalls
