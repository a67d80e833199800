CONSTANTS
  MaxPaths = 5
  MaxThreads = 3
  Subtrees = 2
  Barren = {2}
SPECIFICATION FairSpec
INVARIANT TypeOK
INVARIANT NoPathLost
INVARIANT BuiltOnce
INVARIANT MapQuiet
INVARIANT NoTornPaths
PROPERTY ExportEnds
CHECK_DEADLOCK FALSE
