CONSTANTS
  Handles = {System, Application, a, b}
  Root = System
  App = Application
  MaxRefs = 1
SPECIFICATION Spec
PROPERTY SweepsUnreachableOnly
SYMMETRY HandleSymmetry
CHECK_DEADLOCK FALSE
