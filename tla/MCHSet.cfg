CONSTANTS
  Handles = {h1, h2}
  Als = {a1, a2}
  Keys = {k1, k2}
  k1 = k1
  k2 = k2
  k3 = k3
  k4 = k4
  Vals = {v1, v2}
  NoVal = v1
  Hashers <- MCHashers2
  Arrays <- MCArrays2
  Nodes <- MCNodes
  Lends <- MCLends
  Null = Null
  OK = OK
  NoMem = NoMem
  Caps <- MCCaps2
  Rooms <- MCRooms2
  Base = 1
  SizeMax = 3
SPECIFICATION HSpec
SYMMETRY Symm2
VIEW View2
INVARIANTS
  BooksBalance
  WrappersStayWithTheirMap
  EqualByContents
PROPERTIES
  ImplementsMapStore
