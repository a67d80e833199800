CONSTANTS
  Nodes <- MCNodes
  Root = 1
  Formulas <- MCFamily
  Heap <- MCHeap
  Lists <- MCLists
  ListValues <- MCListValues
  NULL = NULL
  Loops <- MCLoops
  Params <- MCParams
  Forms <- MCForms
  Hier <- MCHier
  LoopBounds <- MCLoopBounds
  Valuations <- MCValuations
  HalfWord = 1000
  AltMax = 2
  MaxCalls = 3
SPECIFICATION FairSpec
INVARIANT SoundList
INVARIANT FirstCallExact
INVARIANT NoFault
PROPERTY ImplementsService
CHECK_DEADLOCK FALSE
