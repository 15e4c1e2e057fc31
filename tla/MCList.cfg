CONSTANTS
  Handles = {h1, h2}
  Als = {a1, a2}
  Vals <- MCVals
  Inputs <- MCInputs
  Nodes <- MCNodes
  Lends <- MCLends
  Null = Null
  OK = OK
  NoMem = NoMem
  Yes = Yes
  No = No
SPECIFICATION Spec
SYMMETRY Symm
VIEW Unanswered
INVARIANTS
  LinksAgree
  NothingLeaks
PROPERTIES
  ImplementsListStore
