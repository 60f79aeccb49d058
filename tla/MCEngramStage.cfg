SPECIFICATION FairSpec
CONSTANTS
  ta = ta
  tb = tb
  tc = tc
  v0 = v0
  v1 = v1
  v2 = v2
  Zero = Zero
  Torn = Torn
  Tokens = {ta, tb, tc}
  Values = {v0, v1, v2, Zero}
  NumLayers = 2
  HashId <- MCHashId
  VocabStart <- MCVocabStart
  VocabEnd <- MCVocabEnd
  Table <- MCTable
  RowBytes <- MCRowBytes
  Batches <- MCBatches
  MaxTokens = 3
  Threads = 2
  ChunkCap = 2
  MaxSteps = 2
  MaxAhead = 2
INVARIANTS
  TypeOK
  ServedRowsCorrect
  NoTornRow
PROPERTIES
  PinnedStable
  EveryStepServed
  ImplementsService
\* A run ends when MaxSteps steps are served or a read has failed.
CHECK_DEADLOCK FALSE
