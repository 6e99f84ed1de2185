SPECIFICATION Spec
CONSTANTS
  x1 = x1
  x2 = x2
  c1 = c1
  Client = {c1}
  Addr <- MCAddr
  NoAddr = NoAddr
  Xid <- MCXid
  NoReply = NoReply
  Broadcast = Broadcast
  Tasks = {t1}
  Packets <- MCPackets
  Origins = {9}
  ScopeLo = 1
  ScopeHi = 3
  SubnetSize = 4
  Configured = {"Router"}
  LeaseDuration = 2
  MaxTime = 4
  NoLease = NoLease
  NoPacket = NoPacket
  Nobody = Nobody
PROPERTIES
  ImplementsAddressBook
