SPECIFICATION Spec
CONSTANTS
  Owners = {a, b}
  NoOwner = none
  Kinds = {"READ"}
  Trio = {}
  Windows = 2
  Depth = 2
  Polite = TRUE
  MaxRequests = 2
  MaxMixed = 2
  MaxTroubles = 0
PROPERTY ReadersServed
CHECK_DEADLOCK FALSE
