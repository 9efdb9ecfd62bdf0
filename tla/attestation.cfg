CONSTANTS
  MaxWord = 5
  MaxAge = 2
  Tolerance = 1
  Drift = 2
  Byte = {1}
  Ids <- MCIds
  MaxLen = 1
  Dobs = {dob1, dob2}
  Nonces = {0}
  Nothing = Nothing
  MaxSigned = 1
SYMMETRY Symmetry
SPECIFICATION Spec
INVARIANTS
  IInv
  AcceptedWasIssued
  AcceptedIsRecent
  FreshIsAccepted
PROPERTIES
  VerdictsAdvance
