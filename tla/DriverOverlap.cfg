\* Two service processes, requests that overlap.
CONSTANTS
  Callers = {c1, c2}
  System = system
  Services = {s1, s2}
  None = none
  MaxNotify = 2
  Overlap = TRUE
SPECIFICATION Spec
INVARIANTS
  BoundBeforeInstalled
  ProcessRoutineAccounted
PROPERTIES
  HeldOnceStaysRecorded
SYMMETRY Symmetry
\* A routine or a symbolic link left behind by a failed removal stops the machine or the next load.
CHECK_DEADLOCK FALSE
