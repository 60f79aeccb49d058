CONSTANTS
  Nodes = 3
  PollN = 2
  MaxFaults = 2
  NotYet = NotYet
SPECIFICATION LaunchSpec
INVARIANTS GuardGate
CHECK_DEADLOCK FALSE
