\* One rotator under failures, evictions and crashes, past a wrap of the key ids.
CONSTANTS
  ke = ke
  ntp = ntp
  k1 = k1
  Servers = {ke}
  MasterKey <- MCMasterKey
  Duration = 2
  Forward = 2
  Backward = 1
  KeyIdSpace = 12
  MaxTry = 2
  RetryDelay = 1
  FillBack = 1
  FillAhead = 4
  None = None
  MemcachedFails = TRUE
  MaxFills = 1
  MaxLate = 1
  StartTime = 4
  MaxTime = 13
SPECIFICATION Spec
INVARIANTS TypeOK WindowCached LatestUsable NoStaleKeys
