SPECIFICATION Spec
CONSTANTS
  a = a
  b = b
  Requests = {a, b}
  PromptLen <- MCPromptLen
  Spans <- MCSpans
  MaxLen = 6
  NumBlocks = 6
  BlockSize = 2
  Window = 3
  MaxImageTokens = 4
  NumSpec <- MCNumSpec
  Deployments <- MCDeployments
  DraftBlock = 2
  PrefillChunk = 1
  MaxTokens = 6
  MaxPreempts = 1
  None = None
  PlanModelLen = 6
  PlanBatched = 6
  PlanWindow = 3
  PlanChunkSizes = {1, 2}
  PlanRatios = {0, 1, 2}
  PlanRequests = 3
INVARIANTS
  TypeOK
  WindowExact
  DraftWindowExact
  PaddingReadsNothing
  GatherCovers
  PlanFits
\* A run ends when the requests have their full length.
CHECK_DEADLOCK FALSE
