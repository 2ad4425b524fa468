SPECIFICATION QuietSpec
CONSTANTS
  r1 = r1
  r2 = r2
  w1 = w1
  d1 = d1
  d2 = d2
  Readers <- OneReader
  Writers <- OneWriter
  BlockCount = 4
  BlocksPerLine = 3
  MaxLines = 1
  Data <- TwoData
  Zero = Zero
  NoLine = NoLine
  NoThread = NoThread
  NoData = NoData
SYMMETRY Symmetry
PROPERTY Transparent
