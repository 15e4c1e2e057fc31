CONSTANTS
  Handles = {h1, h2}
  Als = {a1, a2}
  Blocks = {1, 2, 3}
  Lends <- MCLends
  Kinds = {"vec", "arr", "stack", "pqueue"}
  Vals = {1, 2}
  Zero = 0
  Junk = Junk
  Null = Null
  OK = OK
  NoMem = NoMem
  Inputs <- MCInputs
  Counts <- MCCounts
  Orders <- MCOrders
  Programs <- MCPrograms
  ElemSize = 2
  SizeMax = 13
SPECIFICATION Spec
SYMMETRY Symm
VIEW View
INVARIANTS
  BooksBalance
PROPERTIES
  ImplementsSeqStore
  ImplementsPrioStore
