\* One padding word between frames, the stream cut at every place.
CONSTANTS
  SizeTBits = 16
  Streams <- MCPaddedStreams
  ChunkSizes = {2, 3, 5, 6}
  StageCap = 6
SPECIFICATION Spec
INVARIANT DeliveredInOrder
