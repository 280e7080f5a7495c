SPECIFICATION Spec
CONSTANTS
  Bounds <- LowLatency
  Slack = 1
  MaxConceal = 1
  MaxHeld = 5
  Hangover = 1
  SignalFrames = 1
  Keepalive = 2
  Redundancy = TRUE
  Window = 0
  Drift = 2
  Notice = 6
  MaxTs = 10
  MaxTurns = 0
  MaxReopens = 0
INVARIANT Resumes
CHECK_DEADLOCK FALSE
