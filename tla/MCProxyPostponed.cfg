CONSTANTS
  a1 = a1
  a2 = a2
  c1 = c1
  c2 = c2
  ServerAddr = ServerAddr
  Redis = Redis
  AuthReader = AuthReader
  NoAddr = NoAddr
  NoPeer = NoPeer
  Addrs <- MCAddrs
  Peers <- OnePeers
  Upstreams <- MCUpstreams
  Items <- MCItems
  CmdLen <- MCCmdLen
  QueueSize <- MCQueueSize
  Total <- MCTotal
  ReadCuts <- MCReadCuts
SPECIFICATION FairSpec
CHECK_DEADLOCK FALSE
PROPERTY PostponedIsTakenUp
