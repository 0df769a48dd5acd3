\* Every kind of event, one at a time, while two services come, go and exit.
CONSTANTS
  Callers = {c1}
  System = system
  Services = {s1, s2}
  None = none
  MaxNotify = 1
  Overlap = FALSE
  Notifiers = {n1}
  Pids = {p1}
  Observed = {"image", "thread", "ob"}
SPECIFICATION MonitorSpec
INVARIANTS
  RundownBalanced
  LiveTarget
  NobodyInsideUnloadedImage
SYMMETRY Symmetry
\* A routine or a symbolic link left behind by a failed removal stops the machine or the next load.
CHECK_DEADLOCK FALSE
