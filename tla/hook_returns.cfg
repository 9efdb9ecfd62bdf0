CONSTANTS
  c1 = c1
  c2 = c2
  c3 = c3
  NoCall = NoCall
  Calls = {c1, c2}
  Level = 1
  StderrFails = TRUE
  Unwinds = TRUE
SPECIFICATION Spec
INVARIANTS
  HookReturns
