CONSTANTS
  a1 = a1
  c1 = c1
  c2 = c2
  bytes = bytes
  ServerAddr = ServerAddr
  Redis = Redis
  NoPeer = NoPeer
  Addrs <- MCAddrs
  Peers <- MCPeers
  Upstreams <- MCUpstreams
  Items <- MCItems
  MaxUnsent <- MCMaxUnsent
SPECIFICATION FairSpec
CHECK_DEADLOCK FALSE
INVARIANTS TypeOK ListMatchesBits AllOutputScheduled WalkSurvives
PROPERTIES OutputDrains CloseFlagCloses
