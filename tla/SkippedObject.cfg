CONSTANTS
  TableSize = 4
  MaxHandle = 5
  MaxLive = 5
  DestructorsSpawn = FALSE
  HostReparents = FALSE
  Sweeps = FALSE
  Deactivation = FALSE
  SystemExit = FALSE
  HostTerminates = FALSE
SPECIFICATION FrameSpec
PROPERTY ActiveIsVisited
CHECK_DEADLOCK FALSE
