\* Two tasks, two providers, epochs of two time units, a cap of 2 per epoch.
CONSTANTS
  MaxTime = 3
  Tasks = {t1, t2}
  Accounts = {p1, p2}
  PoolAmounts = {1, 2}
  PoolShares = {1, 2}
  RiskControls <- MCFixedControls
  CoverageCaps <- MCCaps
  MaxBalance = 3
  MaxShares = 6
SPECIFICATION PoolSpecFixedControls
SYMMETRY MCSymmetry
INVARIANTS PoolBacked ClaimsPayable
PROPERTY SharePriceKept
CHECK_DEADLOCK FALSE
