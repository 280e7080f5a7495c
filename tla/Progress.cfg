SPECIFICATION ProgressSpec
CONSTANTS
  A = "A"
  B = "B"
  Messages <- OneMessage
  MaxMedia = 1
  ControlQueue = 1
  MediaQueue = 1
  Socket = 1
  MaxPings <- OnePing
  Ready = 1
  Probes = 2
  TestWindow = 4
  MaxTests = 2
  Clients = {"c1", "c2"}
  Interval = 2
  Period = 4
  MaxChanges = 2
INVARIANTS TypesOK Delivered
PROPERTIES InOrder Answered
CHECK_DEADLOCK FALSE
