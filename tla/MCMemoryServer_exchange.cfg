SPECIFICATION ServerSpec
CONSTANTS
  x1 = x1
  x2 = x2
  c1 = c1
  Client = {c1}
  Addr <- MCAddr
  NoAddr = NoAddr
  Xid <- MCXid
  NoReply = NoReply
  Broadcast = Broadcast
  Listeners = {8, 9}
  Tasks = {t1, t2}
  Packets <- ExchangePackets
  Origins = {7, 8, 9}
  ScopeLo = 1
  ScopeHi = 3
  SubnetSize = 4
  Configured = {"Router"}
  LeaseDuration = 1
  MaxTime = 1
  NoLease = NoLease
  NoPacket = NoPacket
SYMMETRY TaskSymmetry
INVARIANTS
  TypeOK
  GrantMatchesRequest
  AckCompletesExchange
  ReplyReachesClient
  GrantIsRoutable
