SPECIFICATION Spec
CONSTANTS
  Owners = {a, b}
  NoOwner = none
  Kinds = {"READ", "WRITE", "DIR", "CREATE", "CLOSE", "FLUSH", "SETEOF"}
  Trio = {"WRITE", "FLUSH"}
  Windows = 2
  Depth = 2
  Polite = TRUE
  MaxRequests = 3
  MaxMixed = 2
  MaxTroubles = 1
INVARIANTS OneTrueAnswer ResultIsOwn BarrierHolds FilesFreed
CHECK_DEADLOCK FALSE
PROPERTIES Served
