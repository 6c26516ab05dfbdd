SPECIFICATION Spec
CONSTANTS
  Reg = {1, 2}
  StaticInsts <- Branching
  FuncUnits <- Pool
  ExecuteBufferSize = 2
  MemoryBufferSize = 2
  WritebackBufferSize = 2
  OrderSize = 6
  ShadowOps = {"Alu", "Load", "Branch"}
  MaxInst = 5
  Faults = {}
CHECK_DEADLOCK FALSE
INVARIANTS RetiresThePath FreeRegistersAreWritten ProgramRequestsHeld
  StreamsAgree AnswersFindTheirRequest
PROPERTY MemRequestsInOrder
