CONSTANTS
  LTop = LTop
  Hier <- MCHier
  Operands <- MCOperands
  Conditions <- MCConditions
  Bounds <- MCBounds
  Annotations <- MCAnnotations
  Factors <- MCFactors
  LoopIds <- MCLoopIds
  Valuations <- MCValuations
  MaxOps = 2
SPECIFICATION Spec
INVARIANT ReturnsWcet
CHECK_DEADLOCK FALSE
