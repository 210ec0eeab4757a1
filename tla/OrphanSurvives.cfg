CONSTANTS
  TableSize = 4
  MaxHandle = 5
  MaxLive = 4
  DestructorsSpawn = TRUE
  HostReparents = FALSE
  Sweeps = FALSE
SPECIFICATION Spec
INVARIANT DescendantsOfSystem
CHECK_DEADLOCK FALSE
