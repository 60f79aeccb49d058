CONSTANTS
  NumLayers = 7
  Ratio <- MCRatio
  IndexSources <- MCSources
  CandidateSource = 4
  TopK = 2
  MaxRows = 6
  Batches <- MCUniform
  MaxSteps = 3
  None = None
  Everything = Everything
  DcpRow <- MCDcpRow
  DcpRanks = {0, 1}
  DcpOwner <- MCDcpOwner
  DcpTopk = 2
  Scores <- MCScores
  StableTopk <- MCStableTopk
  NumAttnLayers = 4
  Compressed <- MCCompressed
  KvSourceLayers <- MCKvLayers
  IndexSourceLayers <- MCIndexLayers
  Aux = TRUE
  MaxAttnSteps = 2
  MaxAhead = 6
SPECIFICATION AttentionSpec
INVARIANTS
  TypeOK RowsFromOwnSource RowsFromOwnWeights MaskedByOwnCandidates MergeExact
  StreamsTypeOK NoRace
\* The bounded number of steps ends.
CHECK_DEADLOCK FALSE
