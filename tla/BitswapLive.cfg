CONSTANTS
  n1 = n1
  n2 = n2
  c1 = c1
  c2 = c2
  Nodes = {n1, n2}
  Cids = {c1, c2}
  Stores <- LiveStores
  Addresses <- BothWays
  Cancelling = {n2}
  MaxInFlight = 1
  MaxFaults = 1
  NoPeer = NoPeer
  NoCid = NoCid
SPECIFICATION FairSpec
ACTION_CONSTRAINT LiveSteps
INVARIANT TypeOK
INVARIANT OnlyWhatWasAsked
 
CHECK_DEADLOCK FALSE
