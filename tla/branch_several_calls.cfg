CONSTANTS
  None = None
  Programs <- MCMetTwice
SPECIFICATION Spec
INVARIANT OwnConditions
CHECK_DEADLOCK FALSE
