SPECIFICATION ServerSpec
CONSTANTS
  x1 = x1
  c1 = c1
  c2 = c2
  Client = {c1, c2}
  Addr <- MCAddr
  NoAddr = NoAddr
  Xid = {x1}
  NoReply = NoReply
  Broadcast = Broadcast
  Tasks = {t1, t2}
  Packets <- McPackets
  Listeners = {3}
  Origins = {3}
  Pool = {1, 2}
  SubnetSize = 4
  MaxId = 2
  Declined = Declined
  NoLease = NoLease
  NoPacket = NoPacket
  Nobody = Nobody
SYMMETRY TaskSymmetry
INVARIANTS
  AddressLeasedOnce
  GrantIsRecorded
  RefusalIsJustified
  RemovalIsComplete
  PromiseKept
  NoFalseDenial
  ReplyReachesClient
PROPERTIES
  DeclineUndoneOnlyByOverlap
  LeaseKeptUnlessGivenUp
  NewLeaseOnlyIfNone
  ImplementsLedger
