CONSTANTS
  HasAudio = TRUE
  MaxRuns = 4
SPECIFICATION Spec
INVARIANTS TypeOK LatestDetachSaved
PROPERTIES BoundGpuKeepsInfo
CHECK_DEADLOCK FALSE
