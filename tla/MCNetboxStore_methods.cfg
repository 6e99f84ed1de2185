SPECIFICATION Spec
CONSTANTS
  x1 = x1
  c1 = c1
  c2 = c2
  Client = {c1, c2}
  Addr <- MCAddr
  NoAddr = NoAddr
  Xid = {x1}
  NoReply = NoReply
  Broadcast = Broadcast
  Tasks = {t1}
  Packets <- AllPackets
  Origins = {3, 7}
  Pool = {1, 2, 5}
  SubnetSize = 4
  MaxId = 3
  Declined = Declined
  NoLease = NoLease
  NoPacket = NoPacket
INVARIANTS
  TypeOK
  RefusalIsJustified
