SPECIFICATION Spec
CONSTANTS
  first = first
  retry = retry
  again = again
  other = other
  Requests = {first, retry, again, other}
  Keys = {1}
  Key <- MCKey
  Hash <- MCHash
  MaxExpiries = 2
  NoRecord = NoRecord
  NoRequest = NoRequest
SYMMETRY MCSymmetry
INVARIANTS
  ExclusiveRun
  ReplayIsGenuine
  RepeatsAccounted
CHECK_DEADLOCK FALSE
