SPECIFICATION Spec
CONSTANTS
  ServerOrder <- TwoServers
  Layout <- WithPoints
  NumRows = 2
  Size = 3
  RetryCount <- Retries
  MaxStarts = 1
  SnapshotMode = TRUE
  Foreign = Foreign
INVARIANTS
  RegistersFollowTheRows
  SnapshotShowsRows
  ReturnedMeansDown
PROPERTIES
  NoRowBegunAfterRun
  UpdatersEnd
  RunEndsWithoutClients
CHECK_DEADLOCK FALSE
