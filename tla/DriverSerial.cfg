\* Two service processes, requests one at a time.
CONSTANTS
  Callers = {c1, c2}
  System = system
  Services = {s1, s2}
  None = none
  MaxNotify = 2
  Overlap = FALSE
SPECIFICATION Spec
INVARIANTS
  BookkeepingExact
  FlagHonest
  InitializeHonest
  TargetMatched
  UnloadClean
SYMMETRY Symmetry
\* A routine or a symbolic link left behind by a failed removal stops the machine or the next load.
CHECK_DEADLOCK FALSE
