SPECIFICATION CollectorSpec
CONSTANTS
  c1 = c1
  c2 = c2
  NoValue = NoValue
  Producers <- Both
  NumPoints <- StopPoints
  Key <- StopKeys
  MaxPolls <- StopPolls
  RetryCount <- Retries
  Raw <- StopRaw
  Near <- NearOrNaN
  Values <- Readings
  NonFinite <- NaNs
  SinkOrder <- JsonAndDb
  MaxQueue = 1
  BufSize = 3
  MaxAccepted = 3
  MaxRestarts = 0
  MaxWorkers = 2
CHECK_DEADLOCK FALSE
INVARIANTS
  Fifo
  OneReadingAfterCancel
  PanicOnlyAfterGrace
  ReturnedMeansStored
PROPERTIES
  ImplementsLog
  ShutdownTerminates
