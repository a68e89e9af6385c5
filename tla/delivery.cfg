SPECIFICATION Spec
CONSTANTS
  o1 = o1
  o2 = o2
  Order = {o1, o2}
  Driver = {d1, d2}
  Deliv <- MCDeliv
  OrderOf <- MCOrderOf
  Cap = 1
  MaxFailed = 1
  MaxNonce = 2
  Proc = {r1, r2}
  Profiles <- MCProfiles
SYMMETRY DeliverySymmetry
INVARIANTS
  DeliveryFollowsOrder
  ClaimsWithinCap
  RunsInStep
  AttemptsBounded
  DeliveredIsProven
  RefundedStaysHere
CHECK_DEADLOCK FALSE
