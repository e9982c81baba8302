SPECIFICATION FairSpec
CONSTANTS
  phone = phone
  laptop = laptop
  Sockets = {phone, laptop}
  Users = {"ann"}
  Owner <- MCOwner
  Rooms = {"c1"}
  Handlers = {"q1", "q2", "q3"}
INVARIANTS
  OnlineIsThere
PROPERTIES
  TypingEnds
CHECK_DEADLOCK FALSE
