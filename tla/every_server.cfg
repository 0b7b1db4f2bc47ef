SPECIFICATION Spec
CONSTANTS
  ServerOrder <- TwoServers
  Layout <- WithPoints
  NumRows = 2
  Size = 3
  RetryCount <- Retries
  MaxStarts = 1
  SnapshotMode = FALSE
  Foreign = Foreign
PROPERTIES
  EveryServerStarts
CHECK_DEADLOCK FALSE
