\* Two rotators and two runs of the fill script.
CONSTANTS
  ke = ke
  ntp = ntp
  k1 = k1
  Servers <- MCServers
  MasterKey <- MCMasterKey
  Duration = 2
  Forward = 2
  Backward = 1
  KeyIdSpace = 12
  MaxTry = 2
  RetryDelay = 1
  FillBack = 1
  FillAhead = 4
  None = None
  MemcachedFails = FALSE
  MaxFills = 2
  MaxLate = 1
  StartTime = 4
  MaxTime = 10
SPECIFICATION Spec
SYMMETRY MCSymmetry
INVARIANT KeysAgree
