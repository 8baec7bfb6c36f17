SPECIFICATION FairSpec
CONSTANTS
  AddrSpace = 6
  HramStart = 0
  Devices = {}
  IntSpace = 6
  QueueLen = 2
  NoWord = NoWord
  Kinds <- PlainOrIllegal
  ExecAddr = {4}
  BranchTargets = {4}
  MayHalt = FALSE
  StartAddrs = {4}
  Before1 <- StageOrder
  Before2 <- FreeOrder
INVARIANTS
  FetchAddrInStep
  PgcFollowsOpcode
PROPERTIES
  DecoderIsFed
