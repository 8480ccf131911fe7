\* stop() while the demux thread has a packet to dispatch and a task is
\* still converting the previous one: one task, packets of one sample into
\* buffers of three, so a second packet of the buffer reaches the dispatch
\* loop while the first is converted; set_channel concurrent and stop() at
\* any time, as GNU Radio calls them.
\* After stop() every thread may end: no deadlock check.
CONSTANTS
  NumStreams = 1
  NumThreads = 1
  Capacity = 3
  NumRecursive = 2
  MaxPacketCount = 1
  MaxFrameCount = 1
  StreamIds <- MCStreamIds
  OtherTypes = {4}
  PacketSizes = {1}
  PacketsPerFrame = 1
  MaxDrop = 0
  MaxSamples = 2
  RequestSizes = {1}
  InitTuners = {1}
  TunerValues <- MCTunerValues
  RuntimeReconfig = TRUE
  Serialized = FALSE
  AllowStop = TRUE
SPECIFICATION Spec
CHECK_DEADLOCK FALSE
INVARIANT StoppedOnlyWhenTasksIdle
