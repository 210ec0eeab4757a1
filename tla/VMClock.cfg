CONSTANTS
  Epoch = 3
  States = {"main", "other"}
  Adjustments = {1, 3}
  MaxTime = 5
  MaxTicks = 8
SPECIFICATION Spec
INVARIANTS CountsRunningTime TimeoutsAreOnTime
CHECK_DEADLOCK FALSE
