SPECIFICATION FairSpec
CONSTANTS
  FetchLimit = 2
  Fetch2BufferSize = 2
  DecodeBufferSize = 2
  ExecuteBufferSize = 2
  NumWords = 1
  Compressed = {0}
  MaxStream = 3
  Faults <- MayFault
PROPERTY FetchGoesOn
