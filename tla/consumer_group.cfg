\* Two processes share the group and two partitions.
SPECIFICATION Spec
CONSTANTS
  c1 = c1
  c2 = c2
  p1 = p1
  p2 = p2
  NoOne = NoOne
  Consumers = {c1, c2}
  Partitions = {p1, p2}
  Kinds = {"word"}
  MaxOffset = 2
  MaxLaunches = 3
INVARIANT TypeOK
INVARIANT OnlyDroppedAreSkipped
SYMMETRY GroupSymmetry
CHECK_DEADLOCK FALSE
