\* Four connections and two workers, scheduled fairly.
CONSTANTS
  Requests = {r1, r2, r3, r4}
  Workers = {w1, w2}
  None = none
SPECIFICATION FairSpec
INVARIANTS
  OneUrgent
  RepliesReleased
  ReplyWhole
PROPERTIES
  ImplementsOrder
  QueuedIsHandled
  AcceptsAgain
\* Every connection of the run has come and gone, or the process has ended.
CHECK_DEADLOCK FALSE
