SPECIFICATION Spec
CONSTANTS
  Order = {o1, o2}
  Key = {k1, k2}
  Promo = {p1}
  Resv = {v1}
  Proc = {r1, r2}
  Cost = 2
  Base = 1
  FirstBonus = 1
  Cap = 2
  Initial = 2
  MaxPoints = 3
  MaxLedger = 3
  MaxBought = 2
  Limits = {1, 2}
  None = None
  Profiles <- RewardsProfiles
SYMMETRY RewardsSymmetry
INVARIANTS
  BalanceSound
  PaidOnce
  CodesAccounted
  PerUserLimit
  OneOrderPerKey
CHECK_DEADLOCK FALSE
