SPECIFICATION Spec
CONSTANTS
  burger = burger
  fries = fries
  drink = drink
  sauce = sauce
  Order = {o1}
  Proc = {r1, r2}
  Item <- MCItem
  StationOf <- MCStationOf
  Threshold = 1
  Profiles <- PrepProfiles
SYMMETRY KitchenSymmetry
INVARIANTS
  ReadyIsPrepared
PROPERTIES
  ImplementsLifecycle
CHECK_DEADLOCK FALSE
