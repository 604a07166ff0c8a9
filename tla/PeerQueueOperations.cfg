CONSTANTS
  Threads = {t1}
  Peers = {p1, p2, p3}
  Operations = {"find_peer", "find_entry", "add", "remove", "pop"}
  MaxEntries = 5
  NoPeer = NoPeer
SPECIFICATION Spec
SYMMETRY Symmetry
INVARIANT TypeOK
INVARIANT FreedIsNotFound
INVARIANT FreeReleasesAll
CHECK_DEADLOCK FALSE
