SPECIFICATION FeederSpec
CONSTANTS
  Manifest <- MCManifest
  MaxPerLane = 1
  MaxOpenReady = 6
  MaxIssues = 2
  MaxRuns = 2
INVARIANTS
  FeederTypeOK
  SlicesFedOnce
\* The runs of the bound are over, and no more come.
CHECK_DEADLOCK FALSE
