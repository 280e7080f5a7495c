SPECIFICATION Spec
CONSTANTS
  Devices = {1, 2}
  Conns = {c1, c2}
  NoConn = NoConn
  AutoDialers = {1}
  MaxFaults = 2
  MaxCommands = 1
SYMMETRY ConnSymmetry
INVARIANTS TypeOK SessionsIndexed NoSessionWithoutTrust NoStuckDial NoLeaks
CHECK_DEADLOCK FALSE
