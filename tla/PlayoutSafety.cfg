SPECIFICATION FairSpec
CONSTANTS
  Bounds <- Profiles
  Slack = 0
  MaxConceal = 1
  MaxHeld = 3
  Hangover = 1
  SignalFrames = 1
  Keepalive = 2
  Redundancy = TRUE
  Window = 1
  Drift = 1
  Notice = 0
  MaxTs = 4
  MaxTurns = 2
  MaxReopens = 1
INVARIANTS TypeOK
PROPERTIES LatencyBounded Heard
CHECK_DEADLOCK FALSE
