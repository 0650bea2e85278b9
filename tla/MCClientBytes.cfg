CONSTANTS
  Null = Null
  Blocks <- MCBlocks
  Streams <- MCStreams
  PlainLen <- MCPlainLen
  InitSize <- MCInitSize
  MinSize <- MCMinSize
  MaxRoom <- MCMaxRoom
SPECIFICATION Spec
CHECK_DEADLOCK FALSE
INVARIANTS TypeOK BlocksAccounted ArgumentsIntact BytesInOrder WholeCommands
PROPERTY StreamSpec
