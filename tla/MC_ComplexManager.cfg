\* Data path of a running source block: one channel, two tasks, a consumer
\* calling work() forever for one or two samples, and the channel re-applied
\* with set_channel between work() calls (GNU Radio serializes the call with
\* the scheduler only if the block locks; this run assumes it does).
\* Packets of two samples into buffers of three: the second packet of a
\* buffer is deferred until the consumer has emptied the other one.
CONSTANTS
  NumStreams = 1
  NumThreads = 2
  Capacity = 3
  NumRecursive = 2
  MaxPacketCount = 2
  MaxFrameCount = 2
  StreamIds = {0}
  OtherTypes = {4}
  PacketSizes = {2}
  PacketsPerFrame = 1
  MaxDrop = 1
  MaxSamples = 4
  RequestSizes = {1, 2}
  InitTuners = {1}
  TunerValues = {1}
  RuntimeReconfig = TRUE
  Serialized = TRUE
  AllowStop = FALSE
SPECIFICATION Spec
INVARIANT BufferCountsInBounds
INVARIANT DeliveredSamplesAreAdmitted
INVARIANT LossReportedIffLost
PROPERTY AdmittedSamplesEventuallyDelivered
PROPERTY FifoRefinement
