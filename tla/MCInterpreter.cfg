SPECIFICATION Spec
CONSTANTS
  Scripts <- MCScripts
  Programs <- MCPrograms
  StackMap <- MCStackMap
  Capacity = 60
  BuiltinObjects <- MCBuiltinObjects
  Accessors <- MCAccessors
INVARIANTS StackBalanced
PROPERTIES RulesEnforced ReturnsMeaning CodeIsVerified FramesProtected Ends
CHECK_DEADLOCK FALSE
