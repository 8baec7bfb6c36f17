SPECIFICATION Spec
CONSTANTS
  AddrSpace = 8
  HramStart = 4
  Devices = {0}
  IntSpace = 16
  QueueLen = 2
  NoWord = NoWord
  Kinds <- PlainOrBack
  ExecAddr = {5}
  BranchTargets = {4}
  MayHalt = TRUE
  StartAddrs = {4}
  Before1 <- FetchFirst
  Before2 = {}
INVARIANTS
  TypeOK
  FetchOwnsItsRead
  RoomForTheRead
  StreamInOrder
  ReadsAligned
PROPERTIES
  NoPendingInstructionOverwritten
  NoWordDropped
