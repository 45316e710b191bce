SPECIFICATION FairSpec
CONSTANTS
  r1 = r1
  r2 = r2
  w1 = w1
  NULL = NULL
  Paths <- MCTwoPaths
  ROGUE_PATTERNS <- MCRogue
  WHITELIST_PATHS <- MCWhite
  Holds <- MCHolds
  MAX_KNOWN_FILES = 2
  Slices = 2
  MaxNew = 2
  MaxStarts = 2
  MaxChanges = 3
PROPERTIES
  StopEnds
  NewFileScanned
  SessionSpec
