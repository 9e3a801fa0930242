SPECIFICATION FairSpec
CONSTANTS
  MaxSize = 2
  MaxHeader = 1
  MaxAsk = 3
  MaxDelta = 2
  Beyond = 1
  Layouts <- MCLayouts
  Asks <- MCAsks
  Deltas <- MCDeltas
INVARIANTS
  TypeOK
PROPERTIES
  ReadReturns
  ReadsLikeOneFile
