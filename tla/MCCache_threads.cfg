SPECIFICATION Spec
CONSTANTS
  k1 = k1
  k2 = k2
  k3 = k3
  Keys = {k1, k2, k3}
  Threads = {t1, t2}
  Entries = {e1, e2, e3}
  Bufs = {b1, b2, b3, b4}
  Hash <- MCHash
  Sizes <- MCSizes
  max_entries = 2
  max_memory = 4
  INITIAL_BUCKETS = 1
  BUCKET_CAP = 2
  MaxCalls = 5
  NoThread = NoThread
  NoKey = NoKey
  NoBuf = NoBuf
SYMMETRY Symmetry
INVARIANTS
  TypeOK
  LockDiscipline
  StructureOK
  EntriesBounded
  MemoryExact
  MemoryWithinLimit
  BufsOwnedOnce
  NoLeak
  LookupsNotInvented
PROPERTIES
  ReadersUndisturbed
  UsedIsMostRecent
  ImplementsMap
