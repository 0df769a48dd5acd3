\* Two processes created and ended at once, image loads, one service.
CONSTANTS
  Callers = {c1}
  System = system
  Services = {s1}
  None = none
  MaxNotify = 1
  Overlap = FALSE
  Notifiers = {n1, n2}
  Pids = {p1, p2}
  Observed = {"image"}
SPECIFICATION MonitorSpec
INVARIANTS
  AnnouncedMatched
  GameEventFirst
PROPERTIES
  GamePidSettles
SYMMETRY Symmetry
\* A routine or a symbolic link left behind by a failed removal stops the machine or the next load.
CHECK_DEADLOCK FALSE
