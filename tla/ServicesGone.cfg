CONSTANTS
  TableSize = 4
  MaxHandle = 4
  MaxLive = 4
  DestructorsSpawn = FALSE
  HostReparents = FALSE
  Sweeps = FALSE
  Deactivation = FALSE
  SystemExit = TRUE
  HostTerminates = FALSE
SPECIFICATION FrameSpec
INVARIANT ServicesOutliveApplication
CHECK_DEADLOCK FALSE
