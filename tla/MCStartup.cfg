CONSTANTS
  World = 2
  Shards = 3
  MaxWorkers = 2
  MaxKills = 1
  None = None
  Faulty <- ModelFaulty
  Tensors <- ModelTensors
  HeldBy <- ModelHeldBy
  Tables <- ModelTables
  Parts <- ModelParts
  Skips <- ModelSkips
  Nodes = 3
  PollN = 2
  MaxFaults = 2
  NotYet = NotYet
SPECIFICATION StartupSpec
INVARIANTS TypeOK LoadExact NoneTwice FailsForAReason ListedAreWhole PrefetchedOnce
  LaunchTypeOK OkIsThisLaunch OldOutlivesItsCalls
PROPERTIES LoadEnds ScriptEnds
\* The script exits, and the loads end.
CHECK_DEADLOCK FALSE
