CONSTANTS
  HasAudio = TRUE
  MaxRuns = 2
SPECIFICATION Spec
INVARIANTS RestoreInfoKept
CHECK_DEADLOCK FALSE
