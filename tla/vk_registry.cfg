CONSTANTS
  Inits = {i1, i2}
  Verifiers = {v1}
  Ids = {0, 1}
  Keys = {k1, k2}
  Garbage = Garbage
  Publics = {p1, p2}
  MaxEntries = 2
  Nothing = Nothing
SPECIFICATION FairSpec
INVARIANTS
  IInv
  OneWinner
  AcceptedUnderRegisteredKey
PROPERTIES
  ImplementsWriteOnce
  GoodInitFillsRegistry
