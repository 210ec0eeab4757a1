CONSTANTS
  TableSize = 4
  MaxHandle = 5
  MaxLive = 4
  DestructorsSpawn = FALSE
  HostReparents = TRUE
  Sweeps = TRUE
SPECIFICATION FairSpec
INVARIANTS
  TableOK
  LinksAgree
  SingleTree
PROPERTY DestructionEnds
CHECK_DEADLOCK FALSE
