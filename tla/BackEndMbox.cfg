SPECIFICATION FairSpec
CONSTANTS
  Reg = {1, 2}
  StaticInsts <- MulsAndDivs
  FuncUnits <- LongPool
  ExecuteBufferSize = 2
  MemoryBufferSize = 2
  WritebackBufferSize = 2
  OrderSize = 20
  ShadowOps = {}
  MaxInst = 2
  Faults = {}
PROPERTY EveryInstRetires
