CONSTANTS
  Build = {b0, b1}
  Baked = b0
  NoBuild = NoBuild
  Mixed = Mixed
  Chunks <- MCChunks
  Watcher = w
  Tool = {}
  Nobody = Nobody
  MaxRebuilds = 1
  MaxFaults = 0
SPECIFICATION FairSwapSpec
PROPERTY ChangeIsPushed
CHECK_DEADLOCK FALSE
