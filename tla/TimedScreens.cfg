CONSTANTS
  None = None
  Questions = {"q1"}
  Keyless = {}
  MaxKeyVersions = 2
  MaxJobs = 1
  Workers = {"w1", "w2"}
  Retries <- MCRetries
  MaxRedelivered = 1
  Parts = {1, 2}
  SectionLimit <- MCSectionLimit
  AudioParts = {2}
  PaperTime = 3
  Grace = 0
  MaxLate = 1
  LastTick = 4
  MaxTroubles = 1
  MaxGenerations = 5
  Missed = 2
SPECIFICATION FairSpec
INVARIANTS RescoredOnce ClosedIsOver
PROPERTIES WaitingEnds SilenceIsNoticed ArmedEndsMarked
CHECK_DEADLOCK FALSE
