SPECIFICATION Spec
CONSTANTS
  MaxPay = 2
  Proc = {r1, r2}
  Total = 2
  MaxCrash = 1
  Profiles <- PayProfiles
SYMMETRY ProcSymmetry
INVARIANTS
  CollectedBeforePaid
  ReleasedIsCanceled
  RefundsBacked
  CapturedAsStripeSays
  NothingForgotten
  HoldsKnown
PROPERTIES
  ImplementsLifecycle
  CollectedStays
CHECK_DEADLOCK FALSE
