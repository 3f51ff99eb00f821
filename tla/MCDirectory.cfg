SPECIFICATION Spec
CONSTANTS
  HEADER_BYTES = 12
  ENTRY_BYTES = 8
  FIRST_CAPACITY = 1
  WORD = 8
  Bases = {1, 3}
  Types = {1, 8}
  Kinds = {"dir", "ldir"}
  Listings <- MCListings
INVARIANTS
  ListingComplete
  NamesOwned
