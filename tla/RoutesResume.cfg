SPECIFICATION FairSpec
CONSTANTS
  A = A
  B = B
  Flows = {f1}
  InUse = {"Allow"}
  Saving = {A, B}
  IdSpace = 256
  UserDoes = {"start"}
  MaxSessions = 4
  MaxLosses = 2
  MaxTimeouts = 0
  MaxCommands = 1
PROPERTIES Survives
CHECK_DEADLOCK FALSE
