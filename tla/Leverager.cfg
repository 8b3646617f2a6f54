CONSTANTS
  u1 = u1
  u2 = u2
  Users = {u1, u2}
  MULTIPLIER = 8
  PRECISION = 4
  RAY = 4
  Fee = 4
  BorrowRatio = 4
  PremiumRate = 1
  VestDuration = 1
  Threshold = 2
  MaxTime = 4
  IncomeIndex <- MCIncome
  DebtIndex <- MCDebt
  Amounts = {1, 2, 4}
  RewardFunds = 2
  Harvests = {1}
  MaxHarvests = 1
  MaxMoves = 3
  MaxClaims = 2
SPECIFICATION FairSpec
INVARIANTS TypeOK StakesAddUp  RewardsAreSharedOnce PaidFromVested
PROPERTIES ClaimsAreVested EveryClaimIsPaid
