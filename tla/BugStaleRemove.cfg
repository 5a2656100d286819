SPECIFICATION Spec
CONSTANTS
  REG_MAX_SIZE = 2
  REG_NAME_DEPTH_MAX = 2
  REG_GROW = 20
  t1 = t1
  t2 = t2
  Threads = {t1, t2}
  Paths <- FewPaths
  Values <- OneValue
  ReadSizes = {2}
  InitialSize = 50
  MaxTokens = 5
  MaxBlocks = 2

PROPERTIES RemoveAlwaysTrue
CHECK_DEADLOCK FALSE
