\* Two reports at a time; the clock is set by one second either way.
CONSTANTS
  Callbacks = {c1, c2}
  Window = 2
  Period = 1
  MaxSet = 1
  MaxPause = 1
SPECIFICATION FairSpec
PROPERTIES
  AliveMeansHeard
  DeadMeansSilent
  GoneNoticed
\* The session may end, with the process.
CHECK_DEADLOCK FALSE
