CONSTANTS
  u1 = u1
  u2 = u2
  Users = {u1, u2}
  guestList = {u2}
  Scale = 3
  vestDuration = 3
  initialRate = 1
  initialCap = 3
  recoverTime = 4
  USDCFunds = 1
  Rates = {0, 2}
  Caps = {1, 4}
  Amounts = {1}
  Deliveries = {4, 8}
  RADFunds = 8
  unlockTime = 2
  fullTime = 4
  MaxTime = 6
  MaxCalls = 8
SPECIFICATION Spec
INVARIANTS TypeOK SalesAddUp VestingIsKept 
CHECK_DEADLOCK FALSE
