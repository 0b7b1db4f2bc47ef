SPECIFICATION CollectorSpec
CONSTANTS
  c1 = c1
  c2 = c2
  NoValue = NoValue
  Producers <- Both
  NumPoints <- DriftPoints
  Key <- DriftKeys
  MaxPolls <- DriftPolls
  RetryCount <- Retries
  Raw <- DriftRaw
  Near <- MCNear
  Values <- Readings
  NonFinite = {}
  SinkOrder <- DbOnly
  MaxQueue = 1
  BufSize = 2
  MaxAccepted = 5
  MaxRestarts = 0
  MaxWorkers = 1
CHECK_DEADLOCK FALSE
INVARIANTS
  CacheIsLastAccepted
PROPERTIES
  NeverLeftOutWhenChanged
  FreeSlotIsTaken
