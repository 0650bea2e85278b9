CONSTANTS
  a1 = a1
  a2 = a2
  c1 = c1
  c2 = c2
  ServerAddr = ServerAddr
  Redis = Redis
  AuthReader = AuthReader
  NoAddr = NoAddr
  NoPeer = NoPeer
  Addrs <- MCAddrs
  Peers <- MCPeers
  Upstreams <- MCUpstreams
  Items <- MCItems
  CmdLen <- MCCmdLen
  QueueSize <- MCQueueSize
  Total <- MCTotal
  ReadCuts <- MCReadCuts
SPECIFICATION Spec
SYMMETRY Symmetry
CHECK_DEADLOCK FALSE
CONSTRAINT OneLongOrTwoShort
INVARIANTS TypeOK AnswersInOrder
PROPERTY PipelineSpec
