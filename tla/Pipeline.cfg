SPECIFICATION PipelineFairSpec
CONSTANTS
  Reg = {1}
  StaticInsts <- LoopInsts
  FuncUnits <- Pool
  ExecuteBufferSize = 2
  MemoryBufferSize = 2
  WritebackBufferSize = 2
  OrderSize = 6
  ShadowOps <- AllOps
  MaxInst = 6
  Faults = {}
  FetchLimit = 2
  Fetch2BufferSize = 3
  DecodeBufferSize = 3
  NumWords = 4
  Compressed = {0, 3, 6, 7}
  Program <- Loop
  Targets <- LoopTargets
  Entry = 0
INVARIANT ViewsAgree
PROPERTIES ImplementsIsa ProgramGoesOn
