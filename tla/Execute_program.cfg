SPECIFICATION FairSpec
CONSTANTS
  AddrSpace = 8
  HramStart = 4
  Devices = {}
  DataAddrs = {4}
  WordAddrs = {}
  IllegalVector = 2
  Opcodes <- Sequenced
  Instructions <- Offers
  Before1 <- StageOrder
  Before2 <- StageOrder
PROPERTIES
  RunsMicroprograms
  OfferTaken
