\* Two events at a time, up to two buffers lost, fair scheduling.
CONSTANTS
  Callbacks = {c1, c2}
  Main = main
  MaxOrphans = 2
SPECIFICATION FairSpec
INVARIANTS
  BuffersAccounted
  ExitUnhooked
PROPERTIES
  GameOverCloses
\* The run ends with the process.
CHECK_DEADLOCK FALSE
