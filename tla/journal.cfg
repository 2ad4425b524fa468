SPECIFICATION Spec
CONSTANTS
  b1 = b1
  b2 = b2
  v1 = v1
  Magic = Magic
  Zeroed = Zeroed
  Torn = Torn
  Home <- TwoHome
  Values <- TwoValues
  LogLen = 7
  SeqSpan = 16
  FirstSeq = 15
  FirstHeads <- Heads
  FirstContents <- AllSame
  Features <- AllFeatures
  MaxTx = 2
INVARIANTS
  TypeOK
  VolumeHoldsCommitted
  WritableMeansEmptyLog
