\* Decoder offsets and frame parsing against the VITA-49 data model.
CONSTANTS
  SizeTBits = 16
SPECIFICATION Spec
INVARIANT FieldOffsetsMatchLayout
INVARIANT FrameDecodesToItsPackets
INVARIANT GettersReadTheirFields
