\* Three messages over two launches, each tried up to twice.
SPECIFICATION FairSpec
CONSTANTS
  p1 = p1
  Partitions = {p1}
  MaxMessages = 3
  MaxAttempts = 2
  MaxLaunches = 2
INVARIANT TypeOK
INVARIANT DeliveryOrder
PROPERTY ImplementsDelivery
PROPERTY StopsWhenAsked
CHECK_DEADLOCK FALSE
