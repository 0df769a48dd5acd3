\* One event at a time: the first failed connection is enough.
CONSTANTS
  Callbacks = {c1}
  Main = main
  MaxOrphans = 0
SPECIFICATION Spec
INVARIANTS
  ConnectionErrorsCaught
\* The run ends with the process.
CHECK_DEADLOCK FALSE
