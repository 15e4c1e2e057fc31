CONSTANTS
  Handles = {h1, h2}
  Als = {a1, a2}
  Blocks = {b1, b2, b3}
  Vals = {v1}
  Zero = Zero
  Junk = Junk
  Null = Null
  OK = OK
  NoMem = NoMem
  Inputs <- MCInputs2
  Counts <- MCCounts2
  Rooms <- MCRooms2
  ElemSize = 3
  SizeMax = 31
SPECIFICATION QSpec
SYMMETRY Symm2
VIEW View2
INVARIANTS
  BooksBalance
  WrappersStayWithTheirDeque
PROPERTIES
  ImplementsSeqStore
