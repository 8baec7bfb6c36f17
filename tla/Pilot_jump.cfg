SPECIFICATION Spec
CONSTANTS
  AddrSpace = 8
  HramStart = 0
  Devices = {}
  IntSpace = 8
  QueueLen = 2
  NoWord = NoWord
  DataAddrs = {4}
  IllegalVector = 6
  Kinds <- KindsOf
  Programs <- JumpingPrograms
  StartAddrs = {0}
  Before1 <- StageOrder
  Before2 <- StageOrder
PROPERTIES
  AwaitsBranch
