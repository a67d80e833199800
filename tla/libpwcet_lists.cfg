CONSTANTS
  None = None
  p1 = p1
  p2 = p2
  Params <- MCParams
  Bounds = {"N"}
  Forms = {"x"}
  Conds = {"c"}
  Hier <- MCHier
  Formulas <- MCFormulas
  Valuations <- MCValuations
  MaxSizes = {0, 3}
  AltMax = 3
SPECIFICATION SoundSpec
INVARIANT LiveExact
INVARIANT OneOwner
INVARIANT LiveSound
INVARIANT LiveDecreasing
CHECK_DEADLOCK FALSE
