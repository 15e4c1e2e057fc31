CONSTANTS
  Handles = {h1}
  Als = {a1}
  Blocks = {b1, b2}
  Vals = {v1, v2}
  Zero = Zero
  Junk = Junk
  Null = Null
  OK = OK
  NoMem = NoMem
  Inputs <- MCInputs
  Counts <- MCCounts
  Rooms <- MCRooms
  ElemSize = 3
  SizeMax = 31
SPECIFICATION Spec
SYMMETRY Symm
VIEW View
INVARIANTS
  RingInv
  RefusedOnlyForNeed
  LoopsReadBeforeTheyWrite
PROPERTIES
  CapacityIsKept
  ImplementsSeqStore
