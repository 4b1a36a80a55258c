\* One rotator: the comment of latest_key_value.
CONSTANTS
  ke = ke
  ntp = ntp
  k1 = k1
  Servers = {ke}
  MasterKey <- MCMasterKey
  Duration = 2
  Forward = 2
  Backward = 1
  KeyIdSpace = 12
  MaxTry = 2
  RetryDelay = 1
  FillBack = 1
  FillAhead = 4
  None = None
  MemcachedFails = TRUE
  MaxFills = 1
  MaxLate = 1
  StartTime = 4
  MaxTime = 12
SPECIFICATION Spec
INVARIANT LatestAlwaysCached
