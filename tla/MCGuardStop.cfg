SPECIFICATION FairSpec
CONSTANTS
  r1 = r1
  r2 = r2
  w1 = w1
  NULL = NULL
  Paths <- MCOnePath
  ROGUE_PATTERNS <- MCRogue
  WHITELIST_PATHS <- MCWhite
  Holds <- MCHolds
  MAX_KNOWN_FILES = 1
  Slices = 1
  MaxNew = 1
  MaxStarts = 1
  MaxChanges = 1
PROPERTIES
  StopHonoured
