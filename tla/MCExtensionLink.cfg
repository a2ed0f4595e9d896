CONSTANTS
  Port <- MCPort
  Run = {r1, r2}
  NoRun = NoRun
  NoPort = NoPort
SPECIFICATION FairLinkSpec
INVARIANTS LinkTypeOK NoStraySocket QuietWhenOff StopsOnlyIfInterrupted
PROPERTIES ScansEnd DeadLinkIsNoticed
CHECK_DEADLOCK FALSE
