SPECIFICATION Spec
CONSTANTS
  tty = tty
  c1 = c1
  c2 = c2
  Serial = tty
  Conns <- TwoConns
  Lines <- AllLines
  Pieces <- MCPieces
  MaxPieces <- MCMaxPieces
  Station = 1
  Size = 2
  WordMod = 2
  ReadLimit <- LimitOfTwo
  WriteLimit <- LimitOfTwo
  Seed <- MCSeed
  Counter = 0
  Updater = Updater
  Nobody = Nobody
INVARIANTS
  AnswersFollowFrames
  NoLostTick
  SerialEndsCleanly
PROPERTIES
  LinesImplementRegisters
  RequestsAnswered
  EndsAfterCancel
CHECK_DEADLOCK FALSE
