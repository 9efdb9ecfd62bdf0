CONSTANTS
  c1 = c1
  c2 = c2
  c3 = c3
  NoCall = NoCall
  Calls = {c1, c2}
  Level = 2
  StderrFails = TRUE
  Unwinds = TRUE
SPECIFICATION FairSpec
INVARIANTS
  IInv
  EscapesOnlyUnprotected
PROPERTIES
  PoisonIsContained
CHECK_DEADLOCK FALSE
