\* The width of the record type.
CONSTANTS
  Requests <- MCRequests
  Cookie <- MCCookie
  NextPort = 123
SPECIFICATION Spec
INVARIANT OnlyType0Ends
CHECK_DEADLOCK FALSE
