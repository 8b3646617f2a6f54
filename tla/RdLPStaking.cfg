CONSTANTS
  u1 = u1
  u2 = u2
  lpA = lpA
  lpB = lpB
  Users = {u1, u2}
  Owner = Owner
  Chef = Chef
  RADTFunds = 0
  Locked = 2
  vestingPeriod = 3
  Amounts = {2}
  MaxTime = 3
  MaxCalls = 4
  LPTokens = {lpA, lpB}
  PRECISION = 2
  FeeShare = 3
  startTime = 1
  AllocPoints = {0, 2}
  initialRate = 1
  initialRPRate = 1
  Rates = {1, 2}
  Supplies = {2}
  MaxPools = 2
  Deposits = {0, 3}
  LPFunds = 3
SYMMETRY Permuted
SPECIFICATION Spec
INVARIANTS TypeOK  ClaimsKeepTheSchedule PointsAddUp  RewardsWithinEmission
CHECK_DEADLOCK FALSE
