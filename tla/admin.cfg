\* Two clients at the same time.
SPECIFICATION FairSpec
CONSTANTS
  c1 = c1
  c2 = c2
  Clients = {c1, c2}
INVARIANT TypeOK
INVARIANT NoTopicLeft
INVARIANT ListShowsCreated
PROPERTY EveryClientEnds
CHECK_DEADLOCK FALSE
