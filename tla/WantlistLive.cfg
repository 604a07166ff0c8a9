CONSTANTS
  Cids = {c1, c2}
  GetCallers = {g1}
  AsyncCallers = {a1}
  Receivers = {r1}
  Processor = p
  Free = free
  NoCid = nocid
  Timeout = 2
  MaxAttempts = 0
  Lost = {c1}
SPECIFICATION LostSpec
PROPERTIES
  GetBlockTerminates
  StoredBlockReachesEntry
  ImplementsExchange
