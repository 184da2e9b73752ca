\* The end of main.
SPECIFICATION FairSpec
CONSTANTS
  p1 = p1
  c1 = c1
  c2 = c2
  NoOne = NoOne
  Producers = {p1}
  Consumers = {c1, c2}
  Damaged = {"Nouns"}
  Elements = 2
  MaxLaunches = 2
INVARIANT ReturnMeansExit
CHECK_DEADLOCK FALSE
