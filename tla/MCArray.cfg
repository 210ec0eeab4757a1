CONSTANTS
  InitialSize = 3
  MaxSize = 12
  Null = Null
  Free = Free
  Values = {1, 2}
  This = This
  Gap = 2
SPECIFICATION MCSpec
INVARIANTS Contiguous VisitsElements
PROPERTIES IsList SortsTheArray
CHECK_DEADLOCK FALSE
