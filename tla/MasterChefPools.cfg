CONSTANTS
  u1 = u1
  u2 = u2
  lp1 = lp1
  lp2 = lp2
  Users = {u1, u2}
  LPTokens = {lp1, lp2}
  MULTIPLIER = 2
  AllocPoints = {0, 1}
  MaxPools = 2
  LPFunds = 1
  RewardFunds = 3
  MaxMoves = 3
SPECIFICATION Spec
SYMMETRY Symmetry
INVARIANTS TypeOK AllocationsAddUp StakesAreHeld OverpaidByRoundingOnly
