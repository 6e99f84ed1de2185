SPECIFICATION ClaimSpec
CONSTANTS
  x1 = x1
  c1 = c1
  Client = {c1}
  Addr <- MCAddr
  NoAddr = NoAddr
  Xid = {x1}
  NoReply = NoReply
  Broadcast = Broadcast
  Listeners = {9}
  Tasks = {t1}
  Packets <- MCPackets
  Origins = {9}
  ScopeLo = 1
  ScopeHi = 3
  SubnetSize = 4
  Configured = {"Router"}
  LeaseDuration = 2
  MaxTime = 4
  NoLease = NoLease
  NoPacket = NoPacket
INVARIANT DeclinedIsNotOffered
