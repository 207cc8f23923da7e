CONSTANTS
  Callers = {c1, c2}
  Names = {win, dev}
  Nobody = nobody
SPECIFICATION FairSpec
INVARIANTS TypeOK AskedBeforeKilled StopIsHeard ListIsSnapshot HandlesFreed
PROPERTIES CallsReturn
CHECK_DEADLOCK FALSE
