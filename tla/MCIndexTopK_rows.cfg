CONSTANTS
  NumLayers = 7
  Ratio <- MCRatio
  IndexSources <- MCSources
  CandidateSource = 4
  TopK = 2
  MaxRows = 6
  Batches <- MCPadded
  MaxSteps = 3
  None = None
  Everything = Everything
  DcpRow <- MCDcpRow
  DcpRanks = {0, 1}
  DcpOwner <- MCDcpOwner
  DcpTopk = 2
  Scores <- MCScores
  StableTopk <- MCStableTopk
SPECIFICATION MCSpec
INVARIANTS RowsFromOwnSource
\* The bounded number of steps ends.
CHECK_DEADLOCK FALSE
