CONSTANTS
  c1 = c1
  c2 = c2
  c3 = c3
  NoCall = NoCall
  Calls = {c1, c2}
  Level = 2
  StderrFails = FALSE
  Unwinds = TRUE
SPECIFICATION FairSpec
INVARIANTS
  ReturnedProofVerifies
  ProvesWithDetectedConfig
  HookInstalledOnce
  DumpIsFresh
PROPERTIES
  ConfigWrittenOnce
  EveryCallReturns
