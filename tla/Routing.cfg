CONSTANTS
  p1 = p1
  p2 = p2
  k1 = k1
  me = me
  Remotes = {p1, p2}
  Me = me
  Keys = {k1}
  Callers = {c1, c2}
  BootstrapPeers <- TwoAddresses
  Holds <- OneHolder
  Announced <- BothAnnounced
  Operations = {"find_providers", "get_value", "provide", "find_peer", "ping"}
  MaxCalls = 2
  MaxFaults = 1
  NoPeer = NoPeer
  NoKey = NoKey
SPECIFICATION FairSpec
INVARIANT EveryProviderAsked
INVARIANT ProvideTellsConnected
PROPERTY CallsEnd
CHECK_DEADLOCK FALSE
