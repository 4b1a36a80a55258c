SPECIFICATION Spec
CONSTANTS
  Pool = 2
  Step = 1
  Limit = 2
  Runtime = 1
  Exchanges = 2
  AuxRate = 2
  MaxAux = 1
  MaxCycles = 1
  MaxOver = 2
  Empty = Empty
  Server = Server
  Client = Client
INVARIANTS TypeOK SummaryClosesRun LabelMatchesLoad SkippedOnlyIfTorn PastLastOnlyIfMissed
PROPERTIES ImplementsCampaign SweepEnds
CHECK_DEADLOCK FALSE
