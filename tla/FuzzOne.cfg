SPECIFICATION MCSpec
CONSTANTS
  Inputs <- MCInputs
  Interesting8 <- MCInteresting8
  Interesting16 <- MCInteresting16
  Interesting32 <- MCInteresting32
  EffScale = 1
  ArithMax = 35
  EffMinLen = 3
  EffMaxPerc = 90
  Tokens <- MCTokens
  MinAutoExtra = 1
  MaxAutoExtra = 3
  MaxDictFile = 3
  UseAutoExtras = 1
  MaxAutoExtras = 2
  MaxUser = 2
  MaxHits = 1
  MaxStarts = 2
  Cksums = {"a", "b"}
  MaxFile = 6
  TrimInputs <- MCTrimInputs
  TrimMinLen = 3
  TrimMinBytes = 2
  TrimStart = 4
  TrimEnd = 8
  PowersOfTwo = {1, 2, 4, 8, 16, 32}
  Contents <- MCContents
  ExtraLens = {1}
  Times = {2}
  Sizes = {1}
  AvgTime = 2
  AvgSize = 1
  Depths = {1}
  Handicaps = {1}
  HavocCycles = 1
  HavocCyclesInit = 2
  SpliceHavoc = 1
  HavocMin = 1
  HavocDiv = 1
  HavocMaxMult = 1
  StackPow2 = 1
  BlkSmall = 1
  BlkMedium = 1
  BlkLarge = 2
  BlkXL = 2
  MaxFileLen = 6
  SpliceCycles = 2
  Stride = 2
  MaxPaths = 3
INVARIANTS
  EveryValueTried
  TokenStagesExact
  TrimmedIsKnown
  HavocBounded
  SplicesAreOfTwo
PROPERTIES
  TokensExact
  EntryEnds
CHECK_DEADLOCK FALSE
