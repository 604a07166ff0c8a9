CONSTANTS
  n1 = n1
  n2 = n2
  c1 = c1
  c2 = c2
  Nodes = {n1, n2}
  Cids = {c1, c2}
  Stores <- CrossStores
  Addresses <- BothWays
  Cancelling = {}
  MaxInFlight = 1
  MaxFaults = 1
  NoPeer = NoPeer
  NoCid = NoCid
SPECIFICATION Spec
INVARIANT MarkedMeansServed
INVARIANT RemoteQueuesTheFile
CHECK_DEADLOCK FALSE
