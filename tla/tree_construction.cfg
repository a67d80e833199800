CONSTANTS
  Programs <- MCPrograms
SPECIFICATION FairSpec
INVARIANT TypeOK
INVARIANT PathsCovered
INVARIANT NoExtraPath
INVARIANT StopsOnlyThere
INVARIANT ConditionOnEveryPath
INVARIANT TextsAgree
INVARIANT BlocksCounted
INVARIANT EffectsCounted
INVARIANT MissesCounted
INVARIANT LoopTableNests
PROPERTY ProcessingEnds
CHECK_DEADLOCK FALSE
