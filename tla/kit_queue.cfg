SPECIFICATION FairSpec
CONSTANTS
  burger = burger
  fries = fries
  drink = drink
  sauce = sauce
  Order = {o1, o2, o3, o4}
  Proc = {r1, r2}
  Item <- OneItem
  StationOf <- OneStationOf
  Threshold = 2
  Profiles <- QueueProfiles
INVARIANTS
  OvershootBounded
PROPERTIES
  ShortQueueDrains
CHECK_DEADLOCK FALSE
