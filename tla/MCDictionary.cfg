CONSTANTS
  Keys = {1, 2, 3, 4}
  Values = {v}
  None = None
  MaxNodes = 4
SPECIFICATION Spec
INVARIANTS
  NodesAreFound
  IteratesOnce
PROPERTY IsMap
CHECK_DEADLOCK FALSE
