CONSTANTS
  Commands = {free, rm, vi}
  Safe = {free}
  Blocked = {rm}
  Offline = {free}
  MaxTyped = 2
  MaxReply = 2
  MaxActions = 2
SPECIFICATION FairSpec
INVARIANTS TypeOK ChangesAreConsented RunsAreReported
PROPERTIES QueriesAnswered
