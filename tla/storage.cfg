SPECIFICATION HandleSpec
CONSTANTS
  Producers = {p1}
  Values = {x}
  NonFinite = {}
  SinkOrder <- CsvAndDb
  MaxQueue = 1
  BufSize = 3
  MaxAccepted = 3
  MaxRestarts = 1
  NoValue = NoValue
CHECK_DEADLOCK FALSE
INVARIANTS
  TypeOK
  CloseLosesNothing
  BoundedLoss
  OneTornLinePerRun
  HeaderOnce
PROPERTIES
  ImplementsLog
  AcceptedIsTaken
  CloseTerminates
  HandleReturns
