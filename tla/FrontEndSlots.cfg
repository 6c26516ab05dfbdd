SPECIFICATION Spec
CONSTANTS
  FetchLimit = 1
  Fetch2BufferSize = 2
  DecodeBufferSize = 3
  ExecuteBufferSize = 3
  NumWords = 2
  Compressed = {}
  MaxStream = 3
  Faults <- NoFaults
INVARIANT ReservedForFuturePushes
