\* Shutdown of a running source block with conversions that overlap: one
\* channel, two tasks, packets of one sample into buffers of three (two
\* packets per buffer, so the second packet is dispatched while the first
\* task may still be converting), stop() at any time, and packets with the
\* stream id NUM_STREAMS, one past m_mang, on the wire.
CONSTANTS
  NumStreams = 1
  NumThreads = 2
  Capacity = 3
  NumRecursive = 2
  MaxPacketCount = 1
  MaxFrameCount = 1
  StreamIds <- MCStreamIds
  OtherTypes = {4}
  PacketSizes = {1}
  PacketsPerFrame = 1
  MaxDrop = 0
  MaxSamples = 3
  RequestSizes = {1}
  InitTuners = {1}
  TunerValues = {1}
  RuntimeReconfig = TRUE
  Serialized = TRUE
  AllowStop = TRUE
SPECIFICATION Spec
\* After stop() the demux thread and the tasks end: the program stops.
CHECK_DEADLOCK FALSE
INVARIANT DeliveredSamplesAreAdmitted
PROPERTY FifoRefinement
