SPECIFICATION Spec
CONSTANTS
  Reg = {1, 2}
  StaticInsts <- Independent
  FuncUnits <- Pool
  ExecuteBufferSize = 2
  MemoryBufferSize = 2
  WritebackBufferSize = 2
  OrderSize = 20
  ShadowOps = {}
  MaxInst = 7
  Faults = {}
INVARIANT ReservesWhatIsFree
