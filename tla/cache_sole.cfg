SPECIFICATION SoleFetchSpec
CONSTANTS
  r1 = r1
  r2 = r2
  w1 = w1
  d1 = d1
  d2 = d2
  Readers <- TwoReaders
  Writers <- OneWriter
  BlockCount = 3
  BlocksPerLine = 2
  MaxLines = 1
  Data <- TwoData
  Zero = Zero
  NoLine = NoLine
  NoThread = NoThread
  NoData = NoData
SYMMETRY Symmetry
INVARIANTS
  TypeOK
  CacheAgreesWithDevice
  InFlightMarksHaveOwner
