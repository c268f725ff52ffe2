\* Two clients and one relay; only the relay's socket may fail to send.
CONSTANTS
  Client = {c1, c2}
  Relay = {r1}
  Cap = 1
  RelayCap = 1
  MaxInbox = 2
  Errors = {"relay"}
SPECIFICATION Spec
PROPERTY AnsweredWhileServing
CHECK_DEADLOCK FALSE
