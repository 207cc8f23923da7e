CONSTANTS
  Services = {nodus, nexus}
  Shell = shell
  Pids = {1, 2, 3}
  MaxForks = 2
SPECIFICATION FairSpec
INVARIANTS TypeOK OneInstance
PROPERTIES FailedRunsAgain
CHECK_DEADLOCK FALSE
