CONSTANTS
  Runs = {r1}
  None = None
  Unlisted = unlisted
  Listed = listed
  Older = {unlisted, listed}
  Retired = {listed}
  Repos = {"provii-verifier", "provii-mobile-sdk"}
  First <- MCLevel
  HasToken = TRUE
  HasPat = TRUE
SPECIFICATION Spec
INVARIANTS
  PullRequestIsWhatItSays
CHECK_DEADLOCK FALSE
