SPECIFICATION FairSpec
CONSTANTS
  Quotas <- McQuotas
  TIMER_PEROID_MIN = 15
  DAY_MINS = 45
  MaxSwapOut = 6
  MaxFaults = 3
  ULLONG_SIZE = 64
INVARIANT QuotaHeld
PROPERTY ClosedForGood
PROPERTY ReopensLater
PROPERTY ChargesAccount
CHECK_DEADLOCK FALSE
