CONSTANTS
  k1 = k1
  k2 = k2
  k3 = k3
  Clients = {k1, k2, k3}
  Messages <- SomeMessages
  max_conns = 2
  MaxFaults = 1
  NoClient = NoClient
  NoText = NoText
SPECIFICATION FairSpec
INVARIANT RunningIsSafe
PROPERTY ConnectionsEnd
PROPERTY DaemonStops
CHECK_DEADLOCK FALSE
