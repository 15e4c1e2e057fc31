CONSTANTS
  Handles = {h1, h2}
  Als = {a1, a2}
  Blocks = {1, 2, 3}
  Lends <- MCLends
  Kinds = {"bitset"}
  Junk = Junk
  Null = Null
  OK = OK
  NoMem = NoMem
  Lens = {0, 1, 2, 3, 4, 5, 6, 7}
  WordBits = 2
  WordBytes = 2
  SizeMax = 8
SPECIFICATION Spec
SYMMETRY Symm
VIEW View
INVARIANTS
  BooksBalance
PROPERTIES
  ImplementsBitStore
