\* A client that may abort, close early or send garbage, next to one that waits.
CONSTANTS
  Clients = {c1, c2}
  Measured = {c1}
  TokenMax = 2
  Timeout = 1
  None = None
  Rude = {c2}
  MaxErrors = 1
  MaxTime = 2
SPECIFICATION Spec
INVARIANTS TypeOK DeadlinesMatch PanicNeedsEarlyLeaver
PROPERTIES NoServiceAfterDeadline AnsweredOrDropped
CHECK_DEADLOCK FALSE
