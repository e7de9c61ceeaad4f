SPECIFICATION FairSpec
CHECK_DEADLOCK FALSE
CONSTANTS
  Transports = {"tcppool", "gonet", "quic", "tcpsendfile"}
  NumThreads = 2
  Cons = 1
  BatchSize = 2
  Commands = {1, 5}
  Pieces <- SmallBlocks
  Sockets = {s1, s2, s3}
  NoConn = NoConn
  SockReqs = 1
  SockPieces = 1
  MaxFaults = 1
INVARIANTS
  TypeOK
  PooledClean
  GetReturnsItsBlock
  ConnsBounded
PROPERTIES
  GetTerminates
