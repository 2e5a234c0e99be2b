CONSTANTS
  Senders = {trigger}
  Reader = radio
  Nodes = {n1, n2}
  Nobody = nobody
  Retries = 2
  MaxFrames = 1
  MaxCalls = 3
  LateAcks = FALSE
  Overlap = TRUE
  Polite = TRUE
SPECIFICATION RunningSpec
INVARIANTS
  OkMeansReceived
  FrameIntact
  NotDeaf
PROPERTIES
  CallsEnd
CHECK_DEADLOCK FALSE
