SPECIFICATION FairSpec
CONSTANTS
  t1 = t1
  t2 = t2
  d1 = d1
  Threads <- TwoThreads
  BlockCount = 2
  MaxTransfer = 2
  MinTransfer = 1
  RetryWindow = 1
  ReplayBlocks = 2
  MaxReplayRounds = 2
  DriveWindow = 0
  Data <- OneData
  Calls <- Reads
  Lost = Lost
  Unknown = Unknown
  NoThread = NoThread
PROPERTY CallsReturn
