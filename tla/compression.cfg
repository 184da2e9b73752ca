\* Three files of two names, two processes after each other.
SPECIFICATION FairSpec
CONSTANTS
  a = a
  b = b
  Names = {a, b}
  MaxFiles = 3
  MaxLaunches = 2
INVARIANT TypeOK
INVARIANT NothingLost
PROPERTY FullGetsCompressed
CHECK_DEADLOCK FALSE
