CONSTANTS
  Null = Null
  Blocks <- MCBlocks
  Streams <- MCStreams
  InitSize <- MCInitSize
  MinSize <- MCMinSize
SPECIFICATION Spec
CHECK_DEADLOCK FALSE
PROPERTY UnknownEndsLink
