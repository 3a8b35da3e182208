SPECIFICATION Spec
CONSTANTS
  BLOCK = 8
  LENGTH = 2
  BYTE_MOD = 16
  WEIGHT <- Weights
  BITLEN_MOD = 256
  Buffers <- Pieces
  Garbage = {0, 11}
  IndexMod = 9
  MaxBytes = 17
  MaxBlocks = 4
INVARIANTS
  AbsorbedSoFar
  DigestOfMessage
PROPERTY
  OversizedNeverReturns
CHECK_DEADLOCK FALSE
