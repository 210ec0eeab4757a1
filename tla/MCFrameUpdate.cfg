CONSTANTS
  TableSize = 4
  MaxHandle = 6
  MaxLive = 6
  DestructorsSpawn = FALSE
  HostReparents = FALSE
  Sweeps = FALSE
  Deactivation = TRUE
  SystemExit = FALSE
  HostTerminates = FALSE
SPECIFICATION FairFrameSpec
INVARIANTS
  ServicesOutliveApplication
  DepthInTree
PROPERTIES
  VisitedOnce
  SkippedBehindDeletion
  FrameEnds
  ShutsDown
CHECK_DEADLOCK FALSE
