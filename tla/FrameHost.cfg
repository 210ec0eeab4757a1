CONSTANTS
  TableSize = 4
  MaxHandle = 7
  MaxLive = 5
  DestructorsSpawn = TRUE
  HostReparents = TRUE
  Sweeps = TRUE
  Deactivation = FALSE
  SystemExit = TRUE
  HostTerminates = TRUE
SPECIFICATION FrameSpec
INVARIANTS
  TraversalIsPath
  DestroyedOnce
PROPERTIES
  Spec
CHECK_DEADLOCK FALSE
