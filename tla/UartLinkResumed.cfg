SPECIFICATION Spec
CONSTANTS
  Frames = 2
  Slow = {"open", "openDir", "stat", "read", "write", "readDir"}
  MaxRequests = 5
  MaxLate = 2
  MaxLosses = 1
PROPERTIES ResumedIsWhole
CHECK_DEADLOCK FALSE
