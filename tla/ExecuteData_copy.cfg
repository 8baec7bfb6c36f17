SPECIFICATION DataSpec
CONSTANTS
  AddrSpace = 16777216
  HramStart = 16774144
  Devices <- SlowDevices
  WordAddrs = {0}
  DataAddrs <- CellAddrs
  IllegalVector = 16764896
  Instructions <- Offers
  Listings <- LongCopy
  Programs <- Assembled
  FirstRegs <- Apart
  FirstMem <- Cells
  Before1 <- StageOrder
  Before2 <- DecodeFirst
INVARIANT CopiesWholeWord
