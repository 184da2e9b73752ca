\* A producer and two consumers, of which one can have the port; two are launched.
SPECIFICATION FairSpec
CONSTANTS
  p1 = p1
  c1 = c1
  c2 = c2
  NoOne = NoOne
  Producers = {p1}
  Consumers = {c1, c2}
  Damaged = {"Nouns"}
  Elements = 2
  MaxLaunches = 2
INVARIANT TypeOK
INVARIANT ServerOutlivesThread
INVARIANT BadWordNeedsBadFile
PROPERTY BoundUntilEnd
PROPERTY AskedToStopEnds
CHECK_DEADLOCK FALSE
