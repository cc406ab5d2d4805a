CONSTANTS
  x1 = x1
  x2 = x2
  k1 = k1
  k2 = k2
  Boot = Boot
  Free = Free
  Lookups = {x1}
  KeyIds = {k1, k2}
  InitialKeys = {k1}
  Cooldown = 1
  MinTtl = 1
  MaxTtl = 2
  RequestedTtls = {0}
  MaxFlight = 1
  StartTime = 1
  Horizon = 3
  Gated = TRUE
SPECIFICATION FairSpec
PROPERTIES
  FailedStartIsRetried
CHECK_DEADLOCK FALSE
