\* stop() is called while the flowgraph runs; the radio keeps sending.
\* After stop() every thread may end: no deadlock check.
CONSTANTS
  NumStreams = 1
  NumThreads = 1
  Capacity = 2
  NumRecursive = 2
  MaxPacketCount = 1
  MaxFrameCount = 1
  StreamIds = {0}
  OtherTypes = {4}
  PacketSizes = {1}
  PacketsPerFrame = 1
  MaxDrop = 0
  MaxSamples = 2
  RequestSizes = {1}
  InitTuners = {1}
  TunerValues = {1}
  RuntimeReconfig = FALSE
  Serialized = TRUE
  AllowStop = TRUE
SPECIFICATION Spec
CHECK_DEADLOCK FALSE
PROPERTY StopReturns
