SPECIFICATION ASpec
CONSTANTS
  q1 = q1
  q2 = q2
  s1 = s1
  s2 = s2
  t1 = t1
  t2 = t2
  p1 = p1
  p2 = p2
  none = none
  Requests <- MCRequests
  Sessions <- MCSessions
  Tokens <- MCTokens
  Pictures <- MCPictures
  NoPicture = none
  Horizon = 2
  Grace = 1
  Lifetime = 1
  SessionTime = 2
  MaxCalls = 6
SYMMETRY MCSymmetry
INVARIANTS
  SessionsOfPassword
  DeletionHolds
  AvatarStands
CHECK_DEADLOCK FALSE
