SPECIFICATION Spec
CONSTANTS
  Threads = {"t1", "t2", "t3"}
  Procs = {"p", "q"}
  Paths = {"default"}
  DEFAULT_PATH = "default"
  DEFAULT_MAX_SIZE = 1
  LOG_LEVEL = 2
  Levels = {2, 3}
  BufSizes = {2, 3}
  Lengths = {1, 2, 3}
  FileSizes = {0, 9}
  MaxCalls = 4
  ProcOf <- MCProcOf
  Configs <- MCConfigs
INVARIANTS
  LogBounded
  CountCovers
PROPERTY
  EveryLogCallReturns
CHECK_DEADLOCK FALSE
