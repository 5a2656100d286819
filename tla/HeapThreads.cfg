SPECIFICATION FairSpec
CONSTANTS
  NULL = NULL
  t1 = t1
  t2 = t2
  heap = heap
  b1 = b1
  b2 = b2
  KernelHeap = heap
  HeapBytes = 65536
  Threads = {t1, t2}
  BucketIds = {heap}
  Sizes = {19950}
  ReallocSizes = {19830, 25000}
  Alignments = {}
  FlagSets <- PlainFlags
  MaxLive = 1
INVARIANTS TilesExactly HeapInOrder
PROPERTIES ImplementsAbstractHeap LocksReleased
