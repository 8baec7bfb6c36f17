SPECIFICATION Spec
CONSTANTS
  AddrSpace = 8
  HramStart = 4
  Devices = {0, 2}
  DataAddrs = {0, 4}
  WordAddrs = {2}
  IllegalVector = 2
  Opcodes <- Accessing
  Instructions <- Offers
  Before1 <- StageOrder
  Before2 <- DecodeFirst
INVARIANTS
  TypeOK
  AnswerReaches
PROPERTIES
  AccessAnnounced
  RunsMicroprograms
