SPECIFICATION Spec
CONSTANTS
  Text = {t1, t2, t3}
  NoText = NoText
  Broken = Broken
  Fails = FALSE
SYMMETRY TextSymmetry
INVARIANT ReplaceSurvivesReset
