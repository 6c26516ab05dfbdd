SPECIFICATION Spec
CONSTANTS
  Reg = {1, 2}
  StaticInsts <- EveryUnit
  FuncUnits <- LongPool
  ExecuteBufferSize = 2
  MemoryBufferSize = 2
  WritebackBufferSize = 2
  OrderSize = 6
  ShadowOps = {}
  MaxInst = 4
  Faults = {}
INVARIANTS TypeOK RetiresThePath OrderNamesWhatIsHeld RequestsHeld
  FreeRegistersAreWritten BusyRegistersWillBeWritten ForwardsTheLatest
  WritebackKeepsUp
PROPERTY MemRequestsInOrder
