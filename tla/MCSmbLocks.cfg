SPECIFICATION Spec
CONSTANTS
  Conn = {c1, c2}
  Path = {p1}
  Slot = {s1, s2}
  LockSlot = {1, 2}
  Byte = {0, 1}
  IoDepth = 0
  MaxOpens = 2
  MaxFiles = 1
SYMMETRY Symmetry
(* The bounds on opens and connections end every behaviour. *)
CHECK_DEADLOCK FALSE
INVARIANTS
  LocksHaveOwner
  LocksExclude
PROPERTIES
  RefusedLockUndone
