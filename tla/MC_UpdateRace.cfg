\* set_channel re-applies the channel while work() runs, as a GNU Radio
\* callback does when the block takes no lock.
CONSTANTS
  NumStreams = 1
  NumThreads = 1
  Capacity = 2
  NumRecursive = 2
  MaxPacketCount = 1
  MaxFrameCount = 1
  StreamIds = {0}
  OtherTypes = {4}
  PacketSizes = {1}
  PacketsPerFrame = 1
  MaxDrop = 0
  MaxSamples = 2
  RequestSizes = {1}
  InitTuners = {1}
  TunerValues = {1}
  RuntimeReconfig = TRUE
  Serialized = FALSE
  AllowStop = FALSE
SPECIFICATION Spec
INVARIANT BufferCountsInBounds
