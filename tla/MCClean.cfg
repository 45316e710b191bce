SPECIFICATION FairSpec
CONSTANTS
  p1 = p1
  k1 = k1
  s1 = s1
  f1 = f1
  f2 = f2
  d1 = d1
  d2 = d2
  NONE = NONE
  Procs = {p1}
  Keys = {k1}
  Services = {s1}
  Files = {f1, f2}
  OtherVolume = {f2}
  Threats <- MCThreats
  ScanIds = {d1, d2}
  Image <- MCImage
  MaxRuns = 2
  MaxSelected <- MCMaxSelected
  MaxEvents = 1
INVARIANTS
  NoCopyLost
  OneCopyOnePlace
  ReportStands
  FailureDoesNotBlock
PROPERTIES
  CleaningEnds
CHECK_DEADLOCK FALSE
