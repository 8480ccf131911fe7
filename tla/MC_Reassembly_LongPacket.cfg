\* A packet that claims more words than its frame holds.
CONSTANTS
  SizeTBits = 16
  Streams <- MCLongPacketStreams
  ChunkSizes = {2, 3, 5, 6}
  StageCap = 6
SPECIFICATION Spec
INVARIANT NoStagingOverflow
