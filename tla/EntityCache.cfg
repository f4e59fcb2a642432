SPECIFICATION MCSpec
CONSTANTS
  Parents = {p1}
  Children = {c1}
  Partial = {}
  p2 = p2
  k1 = k1
  NULL = NULL
  UNLOADED = UNLOADED
  MaxLen = 3
  MaxForks = 1
  MaxCrashes = 0
INVARIANTS TypeOK CacheCoherent FlushOrderFkSafe
PROPERTIES CacheTransparent FlushFaithful ImplementsIndexer BatchesImplementIndexer CatchesUp
CHECK_DEADLOCK FALSE
