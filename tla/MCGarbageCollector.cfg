CONSTANTS
  Handles = {System, Application, a, b}
  Root = System
  App = Application
  MaxRefs = 1
SPECIFICATION FairSpec
INVARIANTS
  NothingHidden
  SystemSurvives
PROPERTIES
  SweepsGarbageOnly
  GarbageIsCollected
CHECK_DEADLOCK FALSE
