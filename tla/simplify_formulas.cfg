CONSTANTS
  LTop = LTop
  Hier <- MCHier
  Operands <- MCOperands
  Conditions <- MCConditions
  Bounds <- MCBounds
  Annotations <- MCAnnotations
  Factors <- MCFactors
  LoopIds <- MCLoopIds
  Valuations <- MCValuations
  MaxOps = 2
SPECIFICATION Spec
INVARIANT WcetKept
INVARIANT ErrorsOnlyNested
INVARIANT Canonical
CHECK_DEADLOCK FALSE
