SPECIFICATION Spec
CONSTANTS
  NULL = NULL
  t1 = t1
  t2 = t2
  heap = heap
  b1 = b1
  b2 = b2
  KernelHeap = heap
  HeapBytes = 65536
  Threads = {t1, t2}
  BucketIds = {heap, b1}
  Sizes = {23000, 46000}
  ReallocSizes = {}
  Alignments = {}
  FlagSets <- PlainFlags
  MaxLive = 2
INVARIANTS TypeOK  HeapMutualExclusion HeapListWellFormed HeapInOrder
CHECK_DEADLOCK FALSE
