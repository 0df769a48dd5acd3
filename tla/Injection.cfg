\* Too short, whole, and more than a word: too short or too long.
CONSTANTS
  FileSizes = {1, 3, 9, 11}
  Page = 2
  Word = 8
SPECIFICATION FairSpec
INVARIANTS
  ModuleWhole
  InjectHonest
  NothingHeld
PROPERTIES
  GameMayEnd
\* The run ends with the game and the heartbeat loop, a message box or the session.
CHECK_DEADLOCK FALSE
