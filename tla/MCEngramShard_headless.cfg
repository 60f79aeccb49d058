SPECIFICATION Spec
CONSTANTS
  Layouts <- MCLayouts
  Steps <- MCSteps
  Slack <- MCSlack
  Surplus <- MCSurplus
  VocabSize = 2
  MaxPrime = 40
  NumLayers = 2
  Layer = 1
  TpSizes = {1, 2, 3}
  Maps = {2}
  Zero = Zero
  Hole = Hole
  Beyond = Beyond
  Stale = Stale
  Untouched = Untouched
  None = None
INVARIANTS
  HeadlessWriteZeros
\* The ranks stop after the last step, or when one of them has failed.
CHECK_DEADLOCK FALSE
