SPECIFICATION Spec
CONSTANTS
  writerThread = writerThread
  handlerThread = handlerThread
  pathA = pathA
  pathB = pathB
  Keys = {1}
  Names = {2}
  Paths = {pathA}
  Times <- MCTimes
  Threads = {writerThread, handlerThread}
  NoThread = NoThread
  NoRecord = NoRecord
  Garbage = Garbage
  Handler = handlerThread
  Messages <- MCMessages
  LastN = 10
  AnnounceSecs = 100
  MaxFaults = 1
INVARIANTS
  TypeOK
  DataJournalled
  JournalMatchesData
  RecordMeansFile
  EarliestKept
  TransactionEnds
CHECK_DEADLOCK FALSE
