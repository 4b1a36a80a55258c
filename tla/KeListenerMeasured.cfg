\* Two clients that wait: whose exchanges are recorded.
CONSTANTS
  Clients = {c1, c2}
  Measured = {c1}
  TokenMax = 2
  Timeout = 1
  None = None
  Rude = {}
  MaxErrors = 0
  MaxTime = 2
SPECIFICATION Spec
INVARIANT OnlyMeasuredRecorded
CHECK_DEADLOCK FALSE
