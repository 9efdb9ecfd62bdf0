SPECIFICATION Spec
CONSTANTS
  Bits = 3
  Half = 4
INVARIANTS
  IInv
  AgeSound
  HonestComplete
