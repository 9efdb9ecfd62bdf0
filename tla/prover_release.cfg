CONSTANTS
  c1 = c1
  c2 = c2
  c3 = c3
  NoCall = NoCall
  Calls = {c1, c2, c3}
  Level = 0
  StderrFails = TRUE
  Unwinds = FALSE
SPECIFICATION Spec
INVARIANTS
  SilentLevelIsSafe
SYMMETRY Symmetry
