SPECIFICATION InodeSpec
CONSTANTS
  META_BLOCK_SIZE = 4
  TRAILER = 1
  HEADER = 1
  StreamSizes = {3, 4, 7, 9}
  Tables <- MCTables
  Items <- MCItems
  Inodes <- MCInodes
INVARIANTS
  StreamSlice
  IntactReads
  InodeInBounds
  LoadFindsInode
  InodesOwned
