\* Two launches, one after the other or overlapping, fair scheduling.
CONSTANTS
  Launches = {l1, l2}
  MaxMishaps = 4
SPECIFICATION FairSpec
INVARIANTS
  NoWedge
  LaunchAloneSucceeds
  SessionKeepsDriver
PROPERTIES
  LaunchEnds
\* The run ends when every launch of it has.
CHECK_DEADLOCK FALSE
