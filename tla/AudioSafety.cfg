SPECIFICATION AudioSpec
CONSTANTS
  Senders = {s1, s2}
  Receivers = {p1}
  Pinned = {}
  Codecs = {1, 2}
  MaxStarts = 3
  MaxFailures = 2
  BadSecs = 2
  GoodSecs = 3
  MaxChanges = 4
  Peers = {p1, p2}
  MaxEnds = 2
  UserDevices = {a, b}
  MaxWants = 2
  MaxPicks = 1
  MaxErrors = 1
INVARIANTS TypesOK CaptureWanted Fed ProfileAsAsked MutedForPeers DefaultsPutBack
CHECK_DEADLOCK FALSE
