SPECIFICATION FairSpec
CONSTANTS
  Null = Null
  MaxWorkers = 2
  MaxRequests = 3
  MaxStrays = 1
INVARIANTS
  TypeOK
  OwnResult
  OneReader
  OneProcess
  WaitOnce
  QuietBetweenCalls
PROPERTIES
  ReadersReturn
  WorkerGone
  NoOrphans
