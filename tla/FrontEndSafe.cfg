SPECIFICATION Spec
CONSTANTS
  FetchLimit = 2
  Fetch2BufferSize = 2
  DecodeBufferSize = 2
  ExecuteBufferSize = 2
  NumWords = 2
  Compressed = {0, 3}
  MaxStream = 3
  Faults <- MayFault
INVARIANTS TypeOK NoOrphanedRequest RetryFindsRequest SlotsSuffice
  FetchIsForFront NoGap BytesAreAtPc RedirectFlushes
PROPERTY ImplementsInstStream
