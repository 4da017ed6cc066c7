SPECIFICATION Spec
CONSTANTS
  File = {f, k}
  Kept = {k}
  NoFile = NoFile
  Misses = TRUE
  MaxLosses = 1
  Rounds = 2
  Attempts = 2
INVARIANTS
  CopySurvives
  NameSurvives
  SameIsNew
PROPERTIES
  KeptUntouched
  QuietWhenInDoubt
