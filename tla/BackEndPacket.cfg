SPECIFICATION FairSpec
CONSTANTS
  Reg = {1, 2}
  StaticInsts <- IndependentBranching
  FuncUnits <- Pool
  ExecuteBufferSize = 2
  MemoryBufferSize = 1
  WritebackBufferSize = 2
  OrderSize = 20
  ShadowOps = {"Alu"}
  MaxInst = 4
  Faults = {}
PROPERTY EveryInstRetires
