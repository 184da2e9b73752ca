\* Two processes share the group and one partition.
SPECIFICATION FairSpec
CONSTANTS
  c1 = c1
  c2 = c2
  p1 = p1
  NoOne = NoOne
  Consumers = {c1, c2}
  Partitions = {p1}
  Kinds = {"word", "empty"}
  MaxOffset = 2
  MaxLaunches = 3
INVARIANT TypeOK
INVARIANT CommittedArePrinted
PROPERTY PolledIsCommitted
PROPERTY QuitsOnEmpty
CHECK_DEADLOCK FALSE
