SPECIFICATION Spec
CONSTANTS
  A = A
  B = B
  Flows = {f1, f2}
  InUse = {"Allow", "Ask", "Deny"}
  Saving = {A}
  IdSpace = 256
  UserDoes = {"start", "stop", "permission", "capability", "disconnect"}
  MaxSessions = 1
  MaxLosses = 0
  MaxTimeouts = 2
  MaxCommands = 3
INVARIANTS TypeOK AgreeUnasked DeniedUnasked KeysDistinct RequesterMatched
SYMMETRY FlowSymmetry
CONSTRAINT FewerWithPrompts
CHECK_DEADLOCK FALSE
