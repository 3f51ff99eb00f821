SPECIFICATION BFairSpec
CONSTANTS
  k1 = k1
  k2 = k2
  k3 = k3
  blk1 = blk1
  blk2 = blk2
  frg1 = frg1
  Keys = {k1, k2, k3}
  Threads = {t1, t2}
  Entries = {e1, e2}
  Bufs = {b1, b2, b3}
  Hash <- MCHash
  Sizes <- MCSizes
  Blocks = {blk1}
  Frags = {frg1}
  CacheKey <- MCApart
  max_entries = 1
  max_memory = 2
  INITIAL_BUCKETS = 1
  BUCKET_CAP = 1
  MaxCalls = 6
  NoThread = NoThread
  NoKey = NoKey
  NoBuf = NoBuf
  NoJob = NoJob
  Zeros = Zeros
INVARIANTS
  BufsOwnedOnce
  FragmentsNotLeaked
PROPERTY EveryReadReplies
