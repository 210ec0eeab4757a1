CONSTANTS
  Handles = {System, Application, a, b}
  Root = System
  App = Application
  MaxRefs = 1
SPECIFICATION SweepSpec
INVARIANT SystemSurvives
CHECK_DEADLOCK FALSE
