SPECIFICATION ServicesSpec
CONSTANTS
  Kind <- RouteKinds
  Recovery = 2
  IdleTicks = 2
  MicTurns = 5
  Keys = {"k1", "k2"}
  NoKey = "none"
  ShortcutTurns = 2
  Peers = {"p1", "p2"}
  NoPeer = "nobody"
  Asks = {"p2"}
  ReceiverLimits = {1, 2}
  RequestIds = {1, 2}
  IdlePolls = 1
  SharingTurns = 4
  Real = {"hw", "usb"}
  Streams = {"s1", "s2"}
  App = {"s1"}
  CaptureSinks <- CaptureNames
  ServerTurns = 2
  ServerFailures = 1
  Tries = 2
  MicOps = 2
  MicFaults = 3
  Jobs = {1, 2}
  DeviceTurns = 2
  MaxRestarts = 1
  MaxBurst = 2
  EndWait = 4
  Shutdown = 2
  Slow = 1
  OsTurns = 4
  MaxPublished = 3
INVARIANTS TypesOK PlayedOnce  LeftAsFound Kept ShellFollows Reached AsRemembered
PROPERTIES Unbroken
CHECK_DEADLOCK FALSE
