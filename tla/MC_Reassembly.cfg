\* Split-frame reassembly over every cut of two three- and four-frame streams.
CONSTANTS
  SizeTBits = 16
  Streams <- MCStreams
  ChunkSizes = {2, 3, 5, 6}
  StageCap = 6
SPECIFICATION Spec
INVARIANT TypeOK
INVARIANT NoStagingOverflow
INVARIANT DeliveredInOrder
PROPERTY AllSentDelivered
