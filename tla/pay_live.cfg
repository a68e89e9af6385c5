SPECIFICATION FairSpec
CONSTANTS
  MaxPay = 1
  Proc = {r1, r2}
  Total = 1
  MaxCrash = 0
  Profiles <- LiveProfiles
PROPERTIES
  SucceededIsSettled
  
CHECK_DEADLOCK FALSE
