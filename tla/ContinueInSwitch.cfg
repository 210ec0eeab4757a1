SPECIFICATION Spec
CONSTANTS
  Scripts <- MCLeavesSwitch
  Programs <- MCPrograms
  StackMap <- MCStackMap
  Capacity = 60
  BuiltinObjects <- MCBuiltinObjects
  Accessors <- MCAccessors
PROPERTIES ReturnsMeaning
CHECK_DEADLOCK FALSE
