\* Requests of up to three records, cut in every way.
CONSTANTS
  Requests <- MCRequests
  Cookie <- MCCookie
  NextPort = 123
SPECIFICATION Spec
INVARIANTS TypeOK ChunkingIrrelevant AnsweredOnce BufferIsOneRecord ClientUnderstands
CHECK_DEADLOCK FALSE
