CONSTANTS
  Runs = {r1, r2}
  None = None
  Unlisted = unlisted
  Listed = listed
  Older = {unlisted, listed}
  Retired = {listed}
  Repos = {"provii-verifier", "provii-mobile-sdk", "provii-agegate", "provii-management"}
  First <- MCFirst
  HasToken = TRUE
  HasPat = TRUE
SYMMETRY Symmetry
SPECIFICATION Spec
INVARIANTS
  IInv
  ManifestNamesWholeFiles
  ManifestIsBacked
  PropagatedWasCommitted
  PassedCheckMissesOnlyDrift
CHECK_DEADLOCK FALSE
