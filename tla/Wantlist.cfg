CONSTANTS
  Cids = {c1, c2}
  GetCallers = {g1}
  AsyncCallers = {a1}
  Receivers = {r1}
  Processor = p
  Free = free
  NoCid = nocid
  Timeout = 1
  MaxAttempts = 0
  Lost = {}
SPECIFICATION Spec
SYMMETRY Symmetry
INVARIANTS
  TypeOK
  UniqueEntries
  IndexedAfterStored
  PointsToOwnEntry
  StoredBeforeReturned
  BoundedRetries
PROPERTY
  DeliveredStays
