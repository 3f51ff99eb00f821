SPECIFICATION FairSpec
CONSTANTS
  block_size = 3
  MaxSize = 7
  Offset = 1
  Files <- IntactFiles
  Offsets <- MCOffsets
  Lengths <- MCLengths
  Junk = Junk
PROPERTY ReadsEnd
INVARIANTS
  ReadIsSlice
  ZeroedTailOnly
