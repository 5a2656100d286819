SPECIFICATION Spec
CONSTANTS
  REG_MAX_SIZE = 3
  REG_NAME_DEPTH_MAX = 2
  REG_GROW = 40
  Threads = {t1}
  Paths <- NamePaths
  Values <- SomeValues
  ReadSizes = {2, 3}
  InitialSize = 51
  MaxTokens = 10
  MaxBlocks = 1
  t1 = t1
  t2 = t2
INVARIANTS EndTagIsOwn

CHECK_DEADLOCK FALSE
