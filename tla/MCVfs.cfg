SPECIFICATION FairSpec
CONSTANTS
  Workers = {w1, w2}
  Handles = {h1}
  Nodes <- MCNodes
  Root = "root"
  Kind <- MCKind
  Children <- MCChildren
  Uid <- MCUid
  Xattr <- MCXattr
  Ids <- MCIds
  NoXattr = 99
  HasXattrs = {TRUE, FALSE}
  Names <- MCNames
  Paths <- MCPaths
  None = None
PROPERTY EveryRequestAnswered
INVARIANTS
  AnswersThePath
  OwnedOnce
