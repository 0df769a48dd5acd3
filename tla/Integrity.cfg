\* Three code bytes, so that the vector grows twice, and one data byte.
CONSTANTS
  Bytes = 4
  Scanned = {1, 2, 4}
  Values = {0, 1}
  Original = 0
SPECIFICATION FairSpec
INVARIANTS
  PatchesExact
  EventWhole
  TurnReleases
PROPERTIES
  PatchReported
