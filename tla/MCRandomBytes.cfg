SPECIFICATION RandomSpec
CONSTANTS
  BLOCK = 8
  LENGTH = 2
  BYTE_MOD = 2
  WEIGHT <- Weights
  BITLEN_MOD = 4
  SHA256_BLOCK_SIZE = 4
  COUNTER = 4
  COUNTER_MOD = 16
  UrandomSeeds <- Strong
  WeakSeeds <- Weak
  Leftover = {0, 1}
  Lengths = {0, 3, 12, 18}
  MaxMade = 9
INVARIANTS
  NoInputTwice
  EqualOutputs
  BytesInPlace
CHECK_DEADLOCK FALSE
