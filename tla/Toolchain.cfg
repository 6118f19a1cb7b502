SPECIFICATION MCSpec
CONSTANTS
  Unit = 1
  CompareWidths = {1, 2, 4}
  Constants <- MCConstants
  CharHalf = 2
  Literals <- MCLiterals
  Buffers <- MCBuffers
  EarlyWords <- MCWords
  MaxAutoExtra = 3
  CmpLengths = {0, 1, 2, 3, 4}
  Graphs <- MCGraphs
  MaxWords = 1
  EdgeNumbers = {2, 3}
  HitCounts = {0, 1, 3}
  WordBytes = 2
  Threads = {t1, t2}
  Lengths = {0, 2, 5, 27}
  SizeMax = 64
  Page = 16
  Header = 8
  MaxMem = 14
  MaxBlocks = 3
  TminInputs <- MCTminInputs
  AlphaSize = 3
  Zero = 1
  TminSetSteps = 4
  TminSetMin = 2
  TminDelSteps = 2
INVARIANTS
  ComparesReplaced
  SameEquality
  EdgesExact
  EdgeByEdge
  BlocksAsAsked
  TminKept
PROPERTY
  TminEnds
CHECK_DEADLOCK FALSE
