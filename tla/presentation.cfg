SPECIFICATION Spec
CONSTANTS
  Half = 3
  Byte = {1, 2}
  CRED_DST = 7
  CHALLENGE_DST = 8
  Separator = 9
  MaxField = 2
  KID_SIZE_BYTES = 1
  SCHEMA_SIZE_BYTES = 1
  NonceLength = 2
  Issuers = {1, 2}
  Requests <- MCRequests
  Sessions <- MCSessions
  Origins <- MCOrigins
  Randomness <- MCRandomness
  RBits = 2
  WindowOffset = 2
  MAX_PEDERSEN_RANDOMNESS_BITS = 3
  MaxDay = 1
  PedersenHash <- MCPedersenHash
  MaxIssued = 2
  MaxOpened = 2
  MaxProofs = 2
INVARIANTS
  IInv
  AcceptedMeansIssued
  BoundToSession
  OncePerSession
  ProvableIffTrue
PROPERTIES
  ImplementsAgeVerification
CHECK_DEADLOCK FALSE
