SPECIFICATION FairSpec
CONSTANTS
  Reg = {1, 2}
  StaticInsts <- Dependent
  FuncUnits <- Pool
  ExecuteBufferSize = 2
  MemoryBufferSize = 2
  WritebackBufferSize = 2
  OrderSize = 20
  ShadowOps = {}
  MaxInst = 3
  Faults = {}
PROPERTY EveryInstRetires
