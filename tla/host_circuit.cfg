SPECIFICATION Spec
CONSTANTS
  P = 293
  EDWARDS_D = 13
  MONTGOMERY_A = 82
  MONTGOMERY_SCALE = 76
  Order = 37
  FieldBits = 9
  Base <- MCBase
  Segments <- MCSegments
  Chunks = 2
  DobBits = 3
  MIN_PEDERSEN_RANDOMNESS_BITS = 4
  MAX_PEDERSEN_RANDOMNESS_BITS = 9
  ByteBits = 2
  MinUnique = 2
  NULLIFIER_DST <- MCDST
  ScalarBits = 6
  Secrets = {0, 1, 5, 36}
  Lengths = {0, 1, 2, 3, 4, 5, 6, 7, 8, 9, 10}
  Foreign <- MCForeign
  Torsion <- MCTorsion
INVARIANTS
  IInv
  CommitmentAgrees
  NullifierAgrees
  SignedIsAccepted
  MulIsForced
  CircuitAgreesOnSignatures
