\* Rotation with failures, evictions, crashes and one run of the fill script.
CONSTANTS
  Ke = ke
  Ntp = ntp
  k1 = k1
  Servers <- MCServers
  MasterKey <- MCMasterKey
  Duration = 1
  Forward = 1
  Backward = 1
  KeyIdSpace = 5
  MaxTry = 1
  RetryDelay = 1
  FillBack = 1
  FillAhead = 2
  None = None
  MemcachedFails = TRUE
  MaxFills = 1
  MaxLate = 0
  StartTime = 2
  MaxTime = 5
SPECIFICATION ServiceSpec
INVARIANTS ServiceTypeOK FriendsHaveOurKey KeysAgree
PROPERTIES FreshCookieGetsTime PanicOnlyAfterOutage
