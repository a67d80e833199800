CONSTANTS
  Nodes <- MCNodes
  Root = 1
  Formulas <- MCRisky
  Heap <- MCHeap
  Lists <- MCLists
  ListValues <- MCListValues
  NULL = NULL
  Loops <- MCLoops
  Params <- MCParams
  Forms <- MCForms
  Hier <- MCHier
  LoopBounds <- MCLoopBounds
  Valuations <- MCRiskyValuations
  HalfWord = 1000
  AltMax = 2
  MaxCalls = 2
SPECIFICATION FairSpec
INVARIANT TypeOK
INVARIANT FitsIsSafe
PROPERTY CallsEnd
CHECK_DEADLOCK FALSE
