CONSTANTS
  Threads = {t1, t2}
  Peers = {p1, p2}
  Operations = {"find_peer", "find_entry"}
  MaxEntries = 4
  NoPeer = NoPeer
SPECIFICATION FairSpec
INVARIANT WalksEnd
PROPERTY CallsReturn
CHECK_DEADLOCK FALSE
