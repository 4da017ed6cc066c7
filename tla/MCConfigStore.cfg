SPECIFICATION Spec
CONSTANTS
  Text = {t1, t2, t3}
  NoText = NoText
  Broken = Broken
  Fails = TRUE
SYMMETRY TextSymmetry
INVARIANTS
  ReplaceIsAtomic
  WrittenIsStored
  CacheIsMain
