SPECIFICATION FairSpec
CONSTANTS
  w1 = w1
  w2 = w2
  Workers <- MCWorkers
  Events = {1, 2}
  Kind <- MCTwoKinds
  MaxAttempts = 2
  MaxFaults = 1
  NoEvent = NoEvent
INVARIANTS
  ExclusiveClaim
  RepeatsAccounted
PROPERTIES
  QueueSpec
  EventuallySettled
CHECK_DEADLOCK FALSE
