SPECIFICATION FairSpec
CONSTANTS
  AddrSpace = 8
  HramStart = 0
  Devices = {}
  IntSpace = 8
  QueueLen = 2
  NoWord = NoWord
  DataAddrs = {4}
  IllegalVector = 6
  Kinds <- KindsOf
  Programs <- StraightPrograms
  StartAddrs = {0}
  Before1 <- FetchFirst
  Before2 <- FreeOrder
INVARIANTS
  PgcOfInstruction
PROPERTIES
  KeepsToThePort
  ExecutesTheProgram
  InstructionsEnd
