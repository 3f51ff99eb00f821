SPECIFICATION Spec
CHECK_DEADLOCK FALSE
CONSTANTS
  IDS_PER_BLOCK = 2
  FRAGS_PER_BLOCK = 2
  MIN_BLOCK = 2
  MAX_BLOCK = 4
  MaxIds = 5
  MaxFrags = 5
  Tails = {0, 5}
  NoCache = {FALSE, TRUE}
  Images <- MCImages
INVARIANTS
  FragmentsFaithful
  Unwinds
  PaddedImagesMount
