SPECIFICATION FairSpec
CONSTANTS
  Bounds <- LowLatency
  Slack = 1
  MaxConceal = 1
  MaxHeld = 5
  Hangover = 1
  SignalFrames = 1
  Keepalive = 2
  Redundancy = FALSE
  Window = 1
  Drift = 1
  Notice = 0
  MaxTs = 5
  MaxTurns = 1
  MaxReopens = 1
PROPERTIES Resyncs
CHECK_DEADLOCK FALSE
