SPECIFICATION Spec
CONSTANTS
  Order = {o1, o2}
  Request = {q1}
  Proc = {r1, r2}
  MaxBatch = 2
  MaxQty = 2
  MaxLedger = 2
  Recipes = {1, 2}
  Initial = 2
  Profiles <- StockProfiles
SYMMETRY StockSymmetry
INVARIANTS
  LedgerExplainsQty
  NeverNegative
  DeductedOnce
  UnproducibleIsHidden
CHECK_DEADLOCK FALSE
