CONSTANTS
  Threads = {t1, t2}
  MeasClient = meas
  OtherClient = other_client
  None = None
  Era = 8
  Skew = 2
  BUF_SIZE = 1280
  Dispersions = {400}
  MaxSends = 2
  MeasThread = t1
  OtherThread = t2
  OtherIds <- MCOtherIds
  OtherWire <- MCOtherWire
  Wire <- MCWire
  StartTimes = {5}
  TIMEOUT = 1
  MaxTicks = 2
SPECIFICATION Spec
INVARIANTS
  TypeOK
  LongerNeedsCutUidOrShortNonce
  
  ClientUnderstandsServer
  MisrecordNeedsOverlap
  LagBoundedByErrors
  OffsetErrorBounded
PROPERTIES
  ImplementsTransfer
  PanicNeedsOverlongAuthenticator
CHECK_DEADLOCK FALSE
