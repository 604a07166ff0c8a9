CONSTANTS
  MAX_DATA_SIZE = 2
  NoHash = NoHash
  NoNode = NoNode
  Failed = Failed
  NoText = NoText
  NotRun = NotRun
  NoPath = NoPath
  Bytes = {0, 1}
  MaxFile = 5
  MaxInList = 2
SPECIFICATION Spec
INVARIANTS
  RoundTrip
  ExportsTheFile
  LinksBeforeRoots
  ResolvesOneLevel
  ResolvesTheName
CHECK_DEADLOCK FALSE
