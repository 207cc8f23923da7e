CONSTANTS
  Commands = {free, rm}
  Safe = {free}
  Blocked = {rm}
  Offline = {free}
  MaxTyped = 1
  MaxReply = 1
  MaxActions = 1
SPECIFICATION Spec
INVARIANTS AskedBeforeAnswered
