SPECIFICATION Spec
CHECK_DEADLOCK FALSE
CONSTANTS
  CleanupUnavailable = TRUE
  Ids = {1, 2, 3}
  MaxCrashes = 1
  MaxRecords = 2
CONSTANTS
  ScoreLists <- MCScoreLists
  Cursors <- MCCursors
PROPERTIES
  ResumesCleanly
