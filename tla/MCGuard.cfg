SPECIFICATION Spec
CONSTANTS
  r1 = r1
  r2 = r2
  w1 = w1
  NULL = NULL
  Paths <- MCPaths
  ROGUE_PATTERNS <- MCRogue
  WHITELIST_PATHS <- MCWhite
  Holds <- MCHolds
  MAX_KNOWN_FILES = 2
  Slices = 1
  MaxNew = 3
  MaxStarts = 2
  MaxChanges = 2
INVARIANTS
  TypeOK
  BufferThisRound
  AlarmsOnceUnlessFull
PROPERTIES
  AlarmsJustified
