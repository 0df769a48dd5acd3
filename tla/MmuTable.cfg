\* Two entries a chunk and five blocks: two growths, one after a Free.
CONSTANTS
  Blocks = {b1, b2, b3, b4, b5}
  ChunkSize = 2
SPECIFICATION Spec
INVARIANTS
  InBounds
  TableExact
\* The driver is unloaded once.
CHECK_DEADLOCK FALSE
