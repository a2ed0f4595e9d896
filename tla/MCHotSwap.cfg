CONSTANTS
  Build = {b0, b1}
  Baked = b0
  NoBuild = NoBuild
  Mixed = Mixed
  Chunks <- MCChunks
  Watcher = w
  Tool = {t}
  Nobody = Nobody
  MaxRebuilds = 1
  MaxFaults = 1
SPECIFICATION FairSwapSpec
INVARIANTS HotSwapTypeOK
PROPERTIES PushedIsInstalled CatchesUp
CHECK_DEADLOCK FALSE
