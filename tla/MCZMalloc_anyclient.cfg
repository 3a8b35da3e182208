SPECIFICATION Spec
CONSTANTS
  t1 = t1
  t2 = t2
  t3 = t3
  b1 = b1
  b2 = b2
  b3 = b3
  NULL = NULL
  Threads <- TwoThreads
  Blocks <- TwoBlocks
  Sizes = {0, 3, 8}
  Payloads = {5, 8}
  Calls <- AllCalls
  WordMod = 16
  Long = 8
INVARIANTS
  OneOwner
PROPERTY
  DriftOnlyFromWrongSize
