CONSTANTS
  Objects = {"Object", "A"}
  Object = "Object"
  Functions = {"f", "g"}
  Tags = {"s", "t"}
  Hash <- MCHash
  TagGroup <- MCTagGroup
  Capacity = 8
  MaxCapacity = 32
SPECIFICATION MCSpec
INVARIANTS KeepsEntries ViewsAgree
CHECK_DEADLOCK FALSE
