SPECIFICATION Spec
CONSTANTS
  Clients = {c1}
  Locals = {setter}
  Requests <- AllFrames
  LocalCalls <- AllCalls
  Tables <- OneTable
  Size = 2
  ReadLimit <- LimitOfTwo
  WriteLimit <- LimitOfTwo
  Words = {0, 1}
  NoRequest = NoRequest
  Nobody = Nobody
INVARIANTS
  MutualExclusion
  QuietAfterClose
PROPERTIES
  ImplementsRegisters
  RequestsEnd
  CloseReturnsWithoutClients
