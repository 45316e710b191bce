SPECIFICATION Spec
CONSTANTS
  sys = sys
  rogue = rogue
  tool = tool
  plain = plain
  Paths <- MCPaths
  Patterns <- MCPatterns
  Rules <- MCRules
  Entries <- MCEntries
  FileName <- MCFileName
  Fits <- MCFits
  Expanded <- MCExpanded
  Contains <- MCContains
  MaxFiles = 2
  MaxChanges = 1
  MaxRuns = 2
INVARIANTS
  ProgressIsGapless
  ThreatsAnnounced
  ListJudged
PROPERTIES
  ContractSpec
CHECK_DEADLOCK FALSE
