SPECIFICATION FairSpec
CONSTANTS
  w1 = w1
  w2 = w2
  q1 = q1
  q2 = q2
  rent = rent
  dishes = dishes
  Workers <- MCWorkers
  Requests = {q1}
  Routines = {dishes}
  Payments = {rent}
  MaxItems = 1
  Horizon = 2
  Period = 1
  Offsets = {0, 2}
  MaxFaults = 1
  NoItem = NoItem

INVARIANTS
  NextIsForecast
  RemindedOnce
  OccurrenceOnce
PROPERTY DueIsAdvanced
CHECK_DEADLOCK FALSE
