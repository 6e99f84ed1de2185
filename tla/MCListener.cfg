SPECIFICATION FairSpec
CONSTANTS
  l1 = l1
  l2 = l2
  Listeners = {l1, l2}
  iface_name <- McIface
  Datagrams <- McDatagrams
  Broadcast = Broadcast
  BufferSize = 2
  QueueSize = 2
  MaxFaults = 1
  Blank = Blank
INVARIANTS
  TaskSeesItsDatagram
PROPERTIES
  ListenerServes
  QueuedIsTaken
CHECK_DEADLOCK FALSE
