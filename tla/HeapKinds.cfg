SPECIFICATION Spec
CONSTANTS
  NULL = NULL
  t1 = t1
  t2 = t2
  heap = heap
  b1 = b1
  b2 = b2
  KernelHeap = heap
  HeapBytes = 65536
  Threads = {t1}
  BucketIds = {heap, b1, b2}
  Sizes = {23000, 69184}
  ReallocSizes = {}
  Alignments = {128, 4096}
  FlagSets <- AllFlags
  MaxLive = 2
INVARIANTS ListsWellFormed Coalesced NoOrphan BlocksUsable NewBucketFits BucketListWhole
CHECK_DEADLOCK FALSE
