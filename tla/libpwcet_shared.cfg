CONSTANTS
  None = None
  p1 = p1
  p2 = p2
  Params <- MCParams
  Bounds = {"N"}
  Forms = {"x"}
  Conds = {"c"}
  Hier <- MCHier
  Formulas <- MCShared
  Valuations <- MCValuations
  MaxSizes = {0}
  AltMax = 3
SPECIFICATION SoundSpec
INVARIANT AnswerSound
CHECK_DEADLOCK FALSE
