CONSTANTS
  Handles = {h1}
  Als = {a1}
  Keys = {k1, k2, k3, k4}
  k1 = k1
  k2 = k2
  k3 = k3
  k4 = k4
  Vals = {v1, v2}
  Hashers <- MCHashers
  Arrays <- MCArrays
  Nodes <- MCNodes
  Lends <- MCLends
  Null = Null
  OK = OK
  NoMem = NoMem
  Caps <- MCCaps
  Rooms <- MCRooms
  Base = 2
  SizeMax = 15
SPECIFICATION Spec
SYMMETRY Symm
VIEW View
INVARIANTS
  ChainsSound
PROPERTIES
  EntriesStay
  ImplementsMapStore
