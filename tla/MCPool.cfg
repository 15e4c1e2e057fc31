CONSTANTS
  v1 = v1
  Words <- MCWords
  Junk = Junk
  Null = Null
  Sizes <- MCSizes
  Counts <- MCCounts
  NodeSize = 1
  Align = 2
  SizeMax = 6
  NoBlock = NoBlock
  Stale = Stale
  Users = {u1, u2}
  Requests = {0, 1, 2, 126}
  Times = {0, 2}
  Alignments = {4}
  MaxLevel = 2
  Places = 7
  PlaceSize = 16
  W = 7
SPECIFICATION AllSpec
VIEW View
SYMMETRY Symm
INVARIANTS
  FreeListInv
  LentBlocksKeepTheirWords
  ParentIsSquare
  BlocksComeHome
