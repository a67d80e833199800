CONSTANTS
  Nodes <- MCNodes
  Root = 1
  Formulas <- MCSuccessive
  Heap <- MCHeap
  Lists <- MCLists
  ListValues <- MCListValues
  NULL = NULL
  Loops <- MCLoops
  Params <- MCParams
  Forms <- MCForms
  Hier <- MCHier
  LoopBounds <- MCLoopBounds
  Valuations <- MCValuations
  HalfWord = 1000
  AltMax = 2
  MaxCalls = 2
SPECIFICATION Spec
INVARIANT EveryCallExact
CHECK_DEADLOCK FALSE
