SPECIFICATION Spec
CONSTANTS
  u1 = u1
  c1 = c1
  c2 = c2
  w1 = w1
  w2 = w2
  Uploads <- MCUploads
  Calls <- MCCalls
  Workers <- MCWorkers
  MaxFaults = 1
  NoUpload = NoUpload
SYMMETRY MCSymmetry
INVARIANTS
  RowHasObjects
  NothingLeaks
  ExclusiveLease
CHECK_DEADLOCK FALSE
