SPECIFICATION Spec
CONSTANTS
  Reg = {1, 2}
  StaticInsts <- StraightLine
  FuncUnits <- Pool
  ExecuteBufferSize = 2
  MemoryBufferSize = 2
  WritebackBufferSize = 2
  OrderSize = 20
  ShadowOps = {}
  MaxInst = 4
  Faults = {}
INVARIANT OperandsAreLatest
