CONSTANTS
  Null = Null
  Blocks <- MCBlocks
  Streams <- MCStreams
  InitSize <- MCInitSize
  MinSize <- MCMinSize
SPECIFICATION Spec
CHECK_DEADLOCK FALSE
INVARIANTS TypeOK BlocksAccounted BytesKept RepliesIntact UnknownOnlyBehindEmptyBulk FullOnlyAtLineStart
