SPECIFICATION FairSpec
CONSTANTS
  t1 = t1
  t2 = t2
  h1 = h1
  h2 = h2
  NULL = NULL
  Threads <- TwoThreads
  Handlers <- TwoHandlers
  MaxDepth = 2
  malloc_init_state = "malloc_init_initialized"
INVARIANTS
  HandlerKept
  NoLockInUserCode
  Contract
PROPERTIES
  GivesUpForWantOfHandler
  HandlerComesBack
