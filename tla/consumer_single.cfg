\* One consumer process, relaunched once, alone in its group.
SPECIFICATION FairSpec
CONSTANTS
  c1 = c1
  p1 = p1
  NoOne = NoOne
  Consumers = {c1}
  Partitions = {p1}
  Kinds = {"word", "empty"}
  MaxOffset = 3
  MaxLaunches = 2
INVARIANT ReadsFromBeginning
PROPERTY StopsWhenAsked
PROPERTY EveryRecordProcessed
CHECK_DEADLOCK FALSE
