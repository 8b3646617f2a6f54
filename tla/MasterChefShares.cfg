CONSTANTS
  u1 = u1
  u2 = u2
  lp1 = lp1
  lp2 = lp2
  Users = {u1, u2}
  LPTokens = {lp1}
  MULTIPLIER = 2
  AllocPoints = {1}
  MaxPools = 1
  LPFunds = 2
  RewardFunds = 3
  MaxMoves = 3
SPECIFICATION Spec
 
PROPERTY EarningsAreKept
