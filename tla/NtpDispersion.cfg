CONSTANTS
  Threads = {t1, t2}
  MeasClient = meas
  OtherClient = other_client
  None = None
  Era = 8
  Skew = 2
  BUF_SIZE = 1280
  Dispersions = {400}
  MaxSends = 2
  MeasThread = t1
  OtherThread = t2
  OtherIds <- MCOtherIds
  OtherWire <- MCOtherWire
  Wire <- QueryWire
  StartTimes = {5}
  TIMEOUT = 2
  MaxTicks = 2
SPECIFICATION Spec
INVARIANT DispersionWithin1Ulp
CHECK_DEADLOCK FALSE
