SPECIFICATION Spec
CONSTANTS
  t1 = t1
  t2 = t2
  d1 = d1
  Threads <- TwoThreads
  BlockCount = 2
  MaxTransfer = 2
  MinTransfer = 1
  RetryWindow = 1
  ReplayBlocks = 3
  MaxReplayRounds = 2
  DriveWindow = 1
  Data <- OneData
  Calls <- ReadsAndWrites
  Lost = Lost
  Unknown = Unknown
  NoThread = NoThread
INVARIANTS
  TypeOK
  AckedWritesSurvive
  LossIsReplayable
