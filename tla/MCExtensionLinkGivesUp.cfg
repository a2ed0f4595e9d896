CONSTANTS
  Port <- MCPort
  Run = {r1, r2}
  NoRun = NoRun
  NoPort = NoPort
SPECIFICATION LinkSpec
INVARIANT KeepsTrying
CHECK_DEADLOCK FALSE
