SPECIFICATION BSpec
CONSTANTS
  k1 = k1
  k2 = k2
  k3 = k3
  blk1 = blk1
  blk2 = blk2
  frg1 = frg1
  Keys = {k1, k2, k3}
  Threads = {t1}
  Entries = {e1, e2, e3}
  Bufs = {b1, b2, b3}
  Hash <- MCHash
  Sizes <- MCSizes
  Blocks = {blk1, blk2}
  Frags = {frg1}
  CacheKey <- MCSame
  max_entries = 2
  max_memory = 2
  INITIAL_BUCKETS = 1
  BUCKET_CAP = 2
  MaxCalls = 10
  NoThread = NoThread
  NoKey = NoKey
  NoBuf = NoBuf
  NoJob = NoJob
  Zeros = Zeros
SYMMETRY Symmetry
INVARIANTS
  BytesOfTheKey
  NoUseAfterFree
