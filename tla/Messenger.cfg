SPECIFICATION Spec
CONSTANTS
  ann = ann
  bob = bob
  cyd = cyd
  q1 = q1
  q2 = q2
  People <- MCPeople
  Requests <- MCRequests
  c1 = c1
  c2 = c2
  Convs <- MCConvs
  Keys = {"k1"}
  Media = {"photo"}
  Reserved = {}
  MaxStamp = 2
  MaxCalls = 5
SYMMETRY MCSymmetry
INVARIANTS
  GroupIsOwned
  DirectIsShared
  MessagesStand
  ReadWasSeen
CHECK_DEADLOCK FALSE
