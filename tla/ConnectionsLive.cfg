SPECIFICATION FairSpec
CONSTANTS
  Devices = {1, 2}
  Conns = {c1, c2}
  NoConn = NoConn
  AutoDialers = {1, 2}
  MaxFaults = 0
  MaxCommands = 1
PROPERTIES Converges BlockedStopsDialing
CHECK_DEADLOCK FALSE
