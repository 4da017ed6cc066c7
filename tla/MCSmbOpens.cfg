SPECIFICATION Spec
CONSTANTS
  Conn = {c1, c2}
  Path = {p1, p2}
  Slot = {s1, s2}
  LockSlot = {}
  Byte = {0}
  IoDepth = 1
  MaxOpens = 2
  MaxFiles = 2
SYMMETRY Symmetry
(* The bounds on opens and connections end every behaviour. *)
CHECK_DEADLOCK FALSE
PROPERTIES
  StaleCloseHarmless
  SharedNeverTruncated
