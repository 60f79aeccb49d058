CONSTANTS
  World = 2
  Shards = 3
  MaxWorkers = 2
  MaxKills = 1
  None = None
  Faulty <- ModelFaulty
  Tensors <- ModelTensors
  HeldBy <- ModelHeldBy
  Tables <- ModelTables
  Parts <- ModelParts
  Skips <- ModelSkips
SPECIFICATION Spec
INVARIANTS TablesStayOnDisk
\* The loads end.
CHECK_DEADLOCK FALSE
