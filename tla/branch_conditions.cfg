CONSTANTS
  None = None
  Programs <- MCPrograms
SPECIFICATION FairSpec
INVARIANT TypeOK
INVARIANT BoundsPushed
INVARIANT OwnConditions
PROPERTY PushEnds
CHECK_DEADLOCK FALSE
