SPECIFICATION Spec
CONSTANTS
  t1 = t1
  t2 = t2
  t3 = t3
  b1 = b1
  b2 = b2
  b3 = b3
  NULL = NULL
  Threads <- ThreeThreads
  Blocks <- ThreeBlocks
  Sizes = {3, 8, 13}
  Payloads <- NoPayload
  Calls <- AllocAndFree
  WordMod = 64
  Long = 8
INVARIANTS
  FreesWhatItCounted
  NeverOverstates
PROPERTY
  KeepsExactAccount
