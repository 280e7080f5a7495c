SPECIFICATION Spec
CONSTANTS
  a = a
  b = b
  Devices = {a, b}
  NoConn = NoConn
  StartTrust <- Nobody
  Methods = {"qr", "code"}
  UserDoes = {"stop", "reject", "forget", "connect"}
  MaxDials = 2
  MaxCodes = 1
  MaxFaults = 1
INVARIANTS TypeOK SingleUse Mutual NoOrphans
PROPERTIES Consented
CHECK_DEADLOCK FALSE
