SPECIFICATION Spec
CONSTANTS
  a1 = a1
  a2 = a2
  a3 = a3
  i1 = i1
  i2 = i2
  k0 = k0
  k1 = k1
  k3 = k3
  k128 = k128
  NULL = NULL
  Garbage = Garbage
  Addresses <- MCAddresses
  Keys <- OneKeyEach
  Hash <- MCHash
  Iterators = {i1}
  Sizes = {0, 3, 4, 5, 127, 255}
  Rounds = {0, 1, 2}
  Counts = {1}
  LONG_MAX = 127
  MinUsable = 24
  MaxEntries = 1
  MaxIterator = 1
  MaxIndex = 5
INVARIANT
  MinusOneWhenIdle
CHECK_DEADLOCK FALSE
