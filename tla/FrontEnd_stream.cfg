SPECIFICATION Spec
CONSTANTS
  AddrSpace = 8
  HramStart = 0
  Devices = {}
  IntSpace = 8
  QueueLen = 5
  NoWord = NoWord
  Kinds <- ShortOrBack
  ExecAddr = {4}
  BranchTargets = {0}
  MayHalt = FALSE
  StartAddrs = {4}
  Before1 <- StageOrder
  Before2 <- StageOrder
PROPERTIES
  ImplementsWordStream
