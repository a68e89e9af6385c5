SPECIFICATION Spec
CONSTANTS
  Tenant = {t1, t2}
  Lag = 4
  InStep = TRUE
SYMMETRY TenantSymmetry
INVARIANTS
  SchemaFollowsRevision
  NeverBlocked
CHECK_DEADLOCK FALSE
