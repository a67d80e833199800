CONSTANTS
  LTop = LTop
  Operands <- MCOperands
  Exits <- MCExits
  Factors <- MCFactors
  Iterations <- MCIterations
  Named <- MCNamed
  Hier <- MCHier
  Horizon = 6
  MaxOps = 3
SPECIFICATION Spec
INVARIANT IterationTimes
INVARIANT Decreasing
INVARIANT InnermostLoop
CHECK_DEADLOCK FALSE
