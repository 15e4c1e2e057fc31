CONSTANTS
  MaxLen = 4
  W = 5
  Ptr = 2
  RngW = 3
  Mix <- MCMix
  RngMix <- MCRngMix
  Elems <- MCElems
  Given <- MCGiven
  Others <- MCOthers
  Preds <- MCPreds
  Ops <- MCOps
SPECIFICATION Spec
VIEW SpanOnly
INVARIANTS
  AnswersAreRight
  WordsAreRight
PROPERTIES
  CallsKeepTheirPromises
